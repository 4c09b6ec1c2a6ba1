SPECIFICATION FairSpec
CONSTANTS
    c1 = c1
    c2 = c2
    x1 = x1
    w1 = w1
    w2 = w2
    Call = {c1, c2, x1}
    MsgId = {1, 2, 3}
    Worker = {w1, w2}
    Capacity = 1
    Method = "ROOTWRAP"
    NoFunction = {c2}
    Fatal = {x1}
    Hanging = {}
    Logging = {c1, x1}
INVARIANTS TypeOK ServedOnce AnswerOwed IdleIsDone
PROPERTIES DrainsBeforeExit RequestAnswered ExitsOnClose
CHECK_DEADLOCK FALSE
