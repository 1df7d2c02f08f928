\* Returns that do not fit, refused again in the summary's first attempt.
SPECIFICATION CompactionSpec
CONSTANTS
    Context = 10
    Outputs = {1, 3}
    SummaryTokens = 1
    PromptReserve = 1
    MaxAttempts = 3
    Prompted = {1, 7}
    Returned = {1, 5}
    MaxHistory = 16
INVARIANTS
    PromptTold
CHECK_DEADLOCK FALSE
