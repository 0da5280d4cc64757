SPECIFICATION Spec
CONSTANTS
    n1 = n1  n2 = n2  c1 = c1  c2 = c2
    Nodes = {n1}
    Conns = {c1, c2}
    Subjects = {u1}
    Keys = {k1}
    NodeOf <- SameNode
    Routers = {n1}
    TTL = 3
    MinPeriod = 1
    MaxLost = 1
    MaxEvents = 2
    MaxUpdates = 2
    OptingOut = {}
    Renderings <- SentEverywhere
    None = None
SYMMETRY ConnSymmetry
INVARIANTS
    HeldIsRoutable
    OrderedPerRouter
