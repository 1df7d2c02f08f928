SPECIFICATION Spec
CONSTANTS
    j1 = j1
    j2 = j2
    c1 = c1
    c2 = c2
    Job <- Jobs1
    Client <- Clients2
    NoJob = NoJob
    NoClient = NoClient
    MaxConcurrency = 1
    QueueSize = 9
    MaxReports = 1
    SettledCap = 2
    MaxDrops = 2
    MaxChanges = 1
SYMMETRY Interchangeable
INVARIANTS
    SettledForGood NothingMissed
CHECK_DEADLOCK FALSE
