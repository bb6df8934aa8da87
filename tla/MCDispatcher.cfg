SPECIFICATION Spec
CONSTANTS
    Name = {a, t, u}
    System = {a, t}
    Backup = {t}
    Ignored = {}
    Partial = Partial
    NULL = NULL
    MaxFd = 2
    MaxEnv = 3
CHECK_DEADLOCK FALSE
INVARIANTS TypeOK PollSetExact ReventsFresh SlotServed TablesFollowFiles
PROPERTIES TablesConverge EventsServed
