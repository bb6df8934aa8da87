SPECIFICATION Spec
CONSTANTS
    Proc = {m, c1, c2}
    Main = m
    MaxQueue = 2
    Breaks = {m}
    NULL = NULL
CHECK_DEADLOCK FALSE
INVARIANTS OneMainLoop
