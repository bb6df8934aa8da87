SPECIFICATION Spec
CONSTANTS
    p1 = p1
    p2 = p2
    Proc = {p1, p2}
    File = {f1, f2, f3}
    Scenario <- MCScenario
    Letter <- MCLetter
    Number <- MCNumber
    LineMax = 14
    MaxTime = 1
    NULL = NULL
CHECK_DEADLOCK FALSE
INVARIANTS TypeOK SavedReadsBack DollarsQuotable DaemonHasTheFile VerdictTrue
