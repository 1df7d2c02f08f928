SPECIFICATION Spec
CONSTANTS
    t1 = t1
    t2 = t2
    Turn <- Tabs
    MaxNodes = 9
    MaxRequests = 4
    Tab <- Tabs
    Root <- Workspaces
    Span <- OneOrBoth
    MaxCalls = 2
    MaxStaged = 1
    MaxPosts = 3
SYMMETRY Symmetry
INVARIANTS
    PathsHold
    StagedOnce
    Unblocked
PROPERTIES
    SiblingsStay
    AsApproved
CHECK_DEADLOCK FALSE
