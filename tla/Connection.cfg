CONSTANTS
    c1 = c1
    c2 = c2
    s1 = s1
    s2 = s2
    None = None
    Conns <- MCConns
    Sessions <- MCSessions
    Clients <- MCClients
    Updates <- MCUpdates
    Generated = {4, 12}
    DefaultLayer = 2
    KeyLayer = 2
    MaxPushes = 1
    Snapshots = {2, 4}
    Rungs <- MCRungs
    Keyed = {2, 4}
SPECIFICATION Spec
INVARIANTS
    ChunksDoNotMatter
    WireNumbered
    HandlerSeesNewest
    ShapesFit
    PtsAccounted
CHECK_DEADLOCK FALSE
