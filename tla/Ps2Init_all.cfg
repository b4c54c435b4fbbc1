SPECIFICATION FairSpec
CONSTANTS
    MaxRefusals = 4
    MaxWaiting = 2
CHECK_DEADLOCK FALSE
INVARIANTS
    AnswersDecide
    IdentifiedInSilence
PROPERTY InitReturns
