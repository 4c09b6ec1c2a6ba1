SPECIFICATION FairSpec
CONSTANTS
    ping = ping
    c1 = c1
    c2 = c2
    c3 = c3
    c4 = c4
    w1 = w1
    w2 = w2
    Ping = ping
    Call = {ping, c1, c2, c3, c4}
    MsgId = {1, 2, 3, 4, 5}
    Logging = {}
    Timed = {c4}
    Unserializable = {}
    Worker = {w1}
    Capacity = 1
    Method = "ROOTWRAP"
    NoFunction = {ping}
    Fatal = {}
    Hanging = {}
PROPERTY TimedCallReturns
CHECK_DEADLOCK FALSE
