CONSTANTS
    HeapBlocks = 3
    MaxBlocks = 2
    BlockSize = 4
    Sizes <- SizesTwo
    Processes = {p1, p2}
    MaxAllocations = 2
    UserHeap = 1
    KernelHeapStart = 3
SPECIFICATION UserSpec
INVARIANTS TableIsHeld MappedIsHeld FramesIsolated NoLeak RefusedOnlyWhileEndHeld
PROPERTY HeapUsedWell
