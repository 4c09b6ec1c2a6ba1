SPECIFICATION FairSpec
CONSTANTS
    c1 = c1
    c2 = c2
    x1 = x1
    w1 = w1
    w2 = w2
    Call = {c1}
    MsgId = {1}
    Worker = {w1}
    Capacity = 1
    Method = "FORK"
    NoFunction = {}
    Fatal = {}
    Hanging = {}
    Logging = {}
PROPERTY ExitsOnClose
CHECK_DEADLOCK FALSE
