SPECIFICATION FairSpec
CONSTANTS
    n1 = n1  n2 = n2  c1 = c1  c2 = c2
    Nodes = {n1}
    Conns = {c1}
    Subjects = {u1, u2}
    Keys = {k1}
    NodeOf <- SameNode
    Routers = {n1}
    TTL = 3
    MinPeriod = 1
    MaxLost = 1
    MaxEvents = 1
    MaxUpdates = 1
    OptingOut = {}
    Renderings <- SentEverywhere
    None = None
PROPERTIES
    HeldBecomesRoutable
    UnheldIsForgotten
