CONSTANTS
    SlotsPerDay = 2
    Settings <- Poisoned
    MaxStops = 0
SPECIFICATION Spec
PROPERTY DueIsRun
CHECK_DEADLOCK FALSE
