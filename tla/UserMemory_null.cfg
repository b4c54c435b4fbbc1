CONSTANTS
    HeapBlocks = 2
    MaxBlocks = 1
    BlockSize = 4
    Sizes = {0, 4}
    Processes = {p1}
    MaxAllocations = 1
    UserHeap = 1
    KernelHeapStart = 3
SPECIFICATION UserSpec
PROPERTY FreeInTable
