SPECIFICATION FairSpec
CONSTANTS
    Proc = {p1, p2, p3}
    File = {f1, f2, f3}
    NULL = NULL
    MaxTries = 2
    Stops = TRUE
    Serial = TRUE
CHECK_DEADLOCK FALSE
INVARIANTS OneInstance
PROPERTIES EveryStartDecided SomebodyRuns ImplementsLock
