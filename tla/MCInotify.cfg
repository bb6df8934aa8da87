SPECIFICATION Spec
CONSTANTS
    Path = {p1, p2}
    Inode = {i1, i2}
    Watch = {w1, w2}
    Mask <- MCMask
    Type <- MCType
    MayRefuse = TRUE
    NULL = NULL
    MaxWd = 3
    MaxQueue = 2
    BufLen = 1
SYMMETRY Symmetry
INVARIANTS TypeOK MapsConsistent StaleWatchNotified
PROPERTIES RefusedAddRestores
