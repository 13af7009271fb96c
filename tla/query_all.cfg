SPECIFICATION QuerySpec
CONSTANTS
    MaxId = 3
    Data = {0, 1}
    ScopeVal = 1
    Table <- MCTable
    Conditions <- MCConditions
    Callbacks <- MCCallbacks
    MaxCalls = 2
    MaxStatements = 2
    MaxElsewhere = 1
INVARIANT StatementsReachWhatWasAsked
INVARIANT ChunkByIdIsComplete
PROPERTY PagesLeaveTheBuilder
CHECK_DEADLOCK FALSE
