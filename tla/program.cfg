SPECIFICATION Spec
CONSTANTS
    wsDir = wsDir
    tmpDir = tmpDir
    dDir = dDir
    aDir = aDir
    Made = Made
    Dir <- Dirs
    Workspace <- Workspaces
    Binary <- Binaries
    Opaque <- OpaqueExts
    Kept <- KeptName
    Hidden <- HiddenFiles
    ByAge <- NoFiles
    MaxBytes = 9
    Instances <- All
    MaxOperations = 3
    MaxDeletes = 1
    MaxSteps = 4
INVARIANTS
    Exact AsSeen OthersSafe
CHECK_DEADLOCK FALSE
