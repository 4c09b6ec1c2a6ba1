SPECIFICATION Spec
CONSTANTS
    t1 = t1
    t2 = t2
    t3 = t3
    a1 = a1
    s1 = s1
    Thread = {t1, t2}
    Stopper = {}
    Starter = {}
    Timed = {t2}
    MaxChannel = 2
INVARIANT ChannelNonNone
CHECK_DEADLOCK FALSE
