SPECIFICATION FairRunSpec
CONSTANTS
    ann = ann
    bob = bob
    x = x
    None = None
    Users = {ann, bob}
    Default = ann
    Names = {x}
    Values = {1, 2}
    Tags = {"auth", "message"}
    Scenarios <- MCScenarios
    MaxUpdates = 2
INVARIANTS
    EveryStepReported
    CreditedOnce
    NothingLeft
PROPERTY RunEnds
CHECK_DEADLOCK FALSE
