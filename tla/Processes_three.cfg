CONSTANTS
    MaxProcesses = 3
    MaxLoads = 3
SPECIFICATION Spec
CHECK_DEADLOCK FALSE
INVARIANTS
    PrevIsBack
    FreedOnce
    HeldComplete
    ListedLive
    
PROPERTY CycleSpec
