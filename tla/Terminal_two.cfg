CONSTANTS
    Cols = 4
    Rows = 3
    BufMax = 6
    Prompt <- ShellPrompt
    Keys = {"a", "b"}
SPECIFICATION Spec
INVARIANTS
    LineIsTyped
    LineOnScreen
    BlankBehindCursor
