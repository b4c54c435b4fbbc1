SPECIFICATION Spec
CONSTANTS
    HeapBlocks = 6
    MaxBlocks = 3
    BlockSize = 4
    Sizes <- SizesThree
INVARIANT NoLeak
