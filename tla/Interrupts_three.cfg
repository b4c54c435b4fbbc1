SPECIFICATION FairSpec
CONSTANTS
    Lines <- ThreeLines
    Requests <- TimerAndKeyboard
INVARIANTS
    InServiceIsOwed
    ProgramContext
    CallsExclusive
PROPERTY RequestsTaken
