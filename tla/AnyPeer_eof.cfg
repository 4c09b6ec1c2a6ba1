SPECIFICATION Spec
CONSTANTS
    t1 = t1
    u2 = u2
    u1 = u1
    b1 = b1
    Call = {u1}
    MsgId = {1}
    Timed = {}
    Unserializable = {}
    Logging = {}
    Capacity = 1
INVARIANT EofOnlyWhileWaiting
CHECK_DEADLOCK FALSE
