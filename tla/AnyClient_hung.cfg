SPECIFICATION FairSpec
CONSTANTS
    c1 = c1
    c2 = c2
    x1 = x1
    w1 = w1
    w2 = w2
    Call = {x1}
    MsgId = {1}
    Worker = {w1}
    Capacity = 1
    Method = "ROOTWRAP"
    NoFunction = {}
    Fatal = {}
    Hanging = {x1}
    Logging = {}
PROPERTY ExitsOnClose
CHECK_DEADLOCK FALSE
