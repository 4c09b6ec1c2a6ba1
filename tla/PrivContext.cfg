SPECIFICATION FairSpec
CONSTANTS
    t1 = t1
    t2 = t2
    t3 = t3
    a1 = a1
    s1 = s1
    Thread = {t1, t2, a1, s1}
    Stopper = {s1}
    Starter = {a1}
    Timed = {t2}
    MaxChannel = 2
INVARIANTS TypeOK CalmCallServed NoDaemonForgotten
PROPERTIES StartNeverReplaces EveryCallEnds
CHECK_DEADLOCK FALSE
