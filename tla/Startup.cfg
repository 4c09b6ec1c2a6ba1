SPECIFICATION FairSpec
CONSTANTS
    c1 = c1
    c2 = c2
    Context = {c1, c2}
    Word = 3
    KnownCap <- MCKnownCap
    CAP_SETGID = 0
    CAP_SETUID = 1
    Situation <- MCSituation
INVARIANTS TypeOK ServesAsAsked ReportsWhatItHas EnoughPrivilegesServe AcceptReady Tidy NothingElseWaits
PROPERTIES StartEnds ExitsWithClient CloseEndsDaemon FailedStartLeavesNone
CHECK_DEADLOCK FALSE
