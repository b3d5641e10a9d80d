CONSTANTS
    MaxTasks = 1
    MaxAsks = 1
    MaxVoice = 0
    MayFailToStart = FALSE
SPECIFICATION Spec
INVARIANT AcceptedCancelIsKept
CHECK_DEADLOCK FALSE
