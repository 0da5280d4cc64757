SPECIFICATION Spec
CONSTANTS
    MsgIds <- MCMsgIds
    SeqNos <- MCSeqNos
    Times <- MCTimes
    IdsPerSec = 8
    MaxTracked = 2
    MaxContainer = 2
    PastTolerance = 1
    FutureTolerance = 1
    CheckSeqNo = TRUE
    None = None
INVARIANTS
    AtMostOnce
    StateInfoTruthful
    ResendAccepted
    AnsweredNeverDropped
PROPERTY ImplementsLifecycle
