SPECIFICATION Spec
CONSTANTS
    MaxBlocks = 3
    MaxTables = 2
    MaxParts = 2
    MaxSource = 1
    MaxSteps = 5
INVARIANTS
    TextIsKept
    ReadBack
    BadPartsOnly
    HandedOnFits
    AnswersMatch
CHECK_DEADLOCK FALSE
