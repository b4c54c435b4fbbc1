SPECIFICATION Spec
CONSTANTS
    HeapBlocks = 4
    MaxBlocks = 3
    BlockSize = 4
    Tables <- AllTables
\* A call of one of the loops ends.
CHECK_DEADLOCK FALSE
INVARIANTS
    ScanFindsFirstFit
    MarkWritesAllocation
    FreeClearsToLast
PROPERTIES
    Returns
