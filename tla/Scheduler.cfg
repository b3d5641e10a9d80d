CONSTANTS
    SlotsPerDay = 2
    Settings <- All
    MaxStops = 1
SPECIFICATION Spec
INVARIANT OncePerOccurrence
INVARIANT OnceUnlessInterrupted
PROPERTY DueIsRun
PROPERTY StopEndsLoop
CHECK_DEADLOCK FALSE
