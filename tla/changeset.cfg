SPECIFICATION Spec
CONSTANTS
    wsDir = wsDir
    tmpDir = tmpDir
    dDir = dDir
    eDir = eDir
    aDir = aDir
    keptDir = keptDir
    r1 = r1
    r2 = r2
    r3 = r3
    f = f
    g = g
    h = h
    Made = Made
    HalfMade = HalfMade
    New = New
    Backup = Backup
    Held = Held
    Dir <- Dirs
    Workspace <- Workspaces
    Binary <- Binaries
    Opaque <- OpaqueExts
    Kept <- KeptName
    Hidden <- HiddenFiles
    ByAge <- FilesByAge
    Scenarios <- Several
    MaxBytes = 2
    MaxUndoFailures = 1
INVARIANTS
    RolledBack MeansItsItems QuotaKept
CHECK_DEADLOCK FALSE
