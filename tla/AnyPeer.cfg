SPECIFICATION FairSpec
CONSTANTS
    t1 = t1
    u2 = u2
    u1 = u1
    b1 = b1
    Call = {t1, u1, u2, b1}
    MsgId = {1, 2, 3, 4}
    Timed = {t1}
    Unserializable = {b1}
    Logging = {t1}
    Capacity = 2
INVARIANTS TypeOK OwnReply OutstandingExact NoneStranded NeverForgotten LoggedBeforeReply
PROPERTIES EveryCallReturns CloseReturns
CHECK_DEADLOCK FALSE
