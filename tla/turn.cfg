SPECIFICATION Spec
CONSTANTS
    RequestLimit = 4
    MaxCompletions = 3
    Concurrency = 2
    MaxHostCalls = 3
    MaxCalls = 4
    MaxExplores = 2
INVARIANTS
    ReserveKept
    ToldOnce
    StoredTurn
PROPERTIES
    TurnEnds
CHECK_DEADLOCK FALSE
