SPECIFICATION FairSpec
CONSTANTS
    ping = ping
    c1 = c1
    c2 = c2
    c3 = c3
    c4 = c4
    w1 = w1
    w2 = w2
    Ping = ping
    Call = {ping, c1, c2}
    MsgId = {1, 2, 3}
    Logging = {c1}
    Timed = {c1}
    Unserializable = {}
    Worker = {w1, w2}
    Capacity = 1
    Method = "FORK"
    NoFunction = {ping}
    Fatal = {}
    Hanging = {}
PROPERTIES ImplementsAnyPeer ImplementsAnyClient ImplementsRemoteCall CallReturns CloseReturns
CHECK_DEADLOCK FALSE
