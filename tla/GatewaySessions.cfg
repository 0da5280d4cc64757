SPECIFICATION FairSpec
CONSTANTS
    c1 = c1  c2 = c2  k1 = k1  k2 = k2  s1 = s1  s2 = s2  u1 = u1
    Conns = {c1, c2}
    Keys = {k1, k2}
    Sessions = {s1, s2}
    Subjects = {u1}
    Traffic <- SharedKey
    MaxQueue = 2
    MaxSent = 2
    MaxFailures = 1
    None = None
    Unset = null
CHECK_DEADLOCK FALSE
INVARIANTS
    AuthorizedIsReachable
    AnnouncedOnce
    SubjectStaysWithKey
PROPERTY BlockedKeyIsShutOut
