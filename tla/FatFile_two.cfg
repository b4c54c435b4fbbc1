SPECIFICATION ReadSpec
CONSTANTS
    SectorSize = 3
    SectorsPerCluster = 2
    Clusters = {2, 3}
    MaxSize = 13
INVARIANTS
    CopiedIsFile
    WholeUnlessAtChainEnd
