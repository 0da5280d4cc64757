SPECIFICATION Spec
CONSTANTS
    Nodes = {n1, n2}
    Window = 4
    Step = 2
    Prefetch = 1
    Settings <- MCSettings
    NoSalt = NoSalt
SYMMETRY NodeSymmetry
INVARIANTS
    AdvertisedSaltAccepted
    FutureComplete
PROPERTY LiveEntriesKept
