SPECIFICATION FairTableSpec
CONSTANTS
    d = d
    s = s
    r = r
    l = l
    g = g
    i1 = i1
    i2 = i2
    c1 = c1
    c2 = c2
    Path = {d, s, r, l, g}
    Inode = {i1, i2}
    Watch = {w1, w2}
    Mask <- MCMask
    Type <- MCType
    MayRefuse = TRUE
    NULL = NULL
    MaxWd = 9
    MaxQueue = 3
    BufLen = 2
    Below <- MCBelow
    Parent <- MCParent
    Target <- MCTarget
    Dir = {d, s, r, l}
    Glob = {g}
    Dot = {}
    Short <- MCShort
    Rights <- MCRights
    Role <- MCRole
    Cmd = {c1, c2}
    Table <- RichTable
    fSysTable = FALSE
    DequeNode = 6
    MaxEnv = 3
CHECK_DEADLOCK FALSE
INVARIANTS TableTypeOK MapOwnsWatches EventsAttributed NothingStranded FileLoaded
    DirectoriesAnnounced
PROPERTIES TableConverges WatchesConverge DirectoriesCovered
