CONSTANTS
    Layers = {9, 10, 11}
    Listing <- MCListing
    Protocol <- MCProtocol
    Wrappers <- MCWrappers
    Lines <- MCLines
    FirstSchema <- MCFirstSchema
    Values <- MCValues
    Types <- MCTypes
    MaxEdits = 2
    Nesting = 2
    Depth = 8
SPECIFICATION HistorySpec
INVARIANTS
    RequestsUnderstood
    AnswersUnderstood
    HistoryShown
CHECK_DEADLOCK FALSE
