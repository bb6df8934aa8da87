SPECIFICATION TableSpec
CONSTANTS
    d = d
    s = s
    r = r
    l = l
    g = g
    i1 = i1
    i2 = i2
    c1 = c1
    c2 = c2
    Path = {d, s}
    Inode = {i1, i2}
    Watch = {w1, w2}
    Mask <- MCMask
    Type <- MCType
    MayRefuse = FALSE
    NULL = NULL
    MaxWd = 9
    MaxQueue = 3
    BufLen = 2
    Below <- MCBelow
    Parent <- MCParent
    Target <- MCTarget
    Dir = {d, s, r, l}
    Glob = {g}
    Dot = {}
    Short <- MCShort
    Rights <- Open
    Role <- MCRole
    Cmd = {c1, c2}
    Table <- MCTable
    fSysTable = TRUE
    DequeNode = 6
    MaxEnv = 4
SYMMETRY Symmetry
CHECK_DEADLOCK FALSE
INVARIANTS EventMeetsItsEntry
