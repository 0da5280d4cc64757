CONSTANTS
    Listens = {l1, l2}
    Closes = {k1}
    Conns = {c1}
    Subjects = {alice}
    Configs <- MCConfigs
    Nobody = Nobody
    None = None
    MaxCalls = 2
    MaxAsks = 2
SPECIFICATION FairSpec
INVARIANTS
    AnswersFollowEffects
    PushesStayHome
    ClosedIsDown
PROPERTY CallsAnswered
CHECK_DEADLOCK FALSE
