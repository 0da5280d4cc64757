SPECIFICATION Spec
CONSTANTS
    Nonces = {n1}
    Conns = {c1, c2}
    TTL = 2
    MaxRepeats = 3
    MaxCrashes = 1
    User = User
    None = None
INVARIANTS
    ConfirmedIsShared
    FirstSaltAgreed
    LoginKept
PROPERTY KeptForItsTime
CHECK_DEADLOCK FALSE
