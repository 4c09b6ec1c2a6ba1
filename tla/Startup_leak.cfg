SPECIFICATION FairSpec
CONSTANTS
    c1 = c1
    c2 = c2
    Context = {c1, c2}
    Word = 3
    KnownCap <- MCKnownCap
    CAP_SETGID = 0
    CAP_SETUID = 1
    Situation <- MCForked
PROPERTIES NeverLeaked
CHECK_DEADLOCK FALSE
