SPECIFICATION FairSpec
CONSTANTS
    j1 = j1
    j2 = j2
    c1 = c1
    c2 = c2
    Job <- Jobs2
    Client <- Clients1
    NoJob = NoJob
    NoClient = NoClient
    MaxConcurrency = 1
    QueueSize = 9
    MaxReports = 0
    SettledCap = 2
    MaxDrops = 1
    MaxChanges = 0
INVARIANTS
    Converged
PROPERTIES
    JobsAndWaitsEnd
CHECK_DEADLOCK FALSE
