SPECIFICATION FairSpec
CONSTANTS
    Unpadded = {"long"}
    Disks <- MCDisks
    Leftover <- Stale
    MaxBeyond = 1
    MaxFailures = 1
    MaxFiles = 2
    MaxOpens = 3
    Paths <- MCPaths
    Modes = {"r", "w", "invalid"}
CHECK_DEADLOCK FALSE
INVARIANTS
    OpenedIsNamed
    GoodOpenSucceeds
    HandlesReach
    OnlySpareRemains
PROPERTY OpenReturns
