CONSTANTS
    MaxTasks = 2
    MaxAsks = 2
    MaxVoice = 1
    MayFailToStart = TRUE
SPECIFICATION Spec
INVARIANT NoGrantAfterGivingUp
INVARIANT CancelsOnlyItsTask
PROPERTY NoOrphanDialog
PROPERTY ComposerReturns
PROPERTY QuitInTimeCloses
CHECK_DEADLOCK FALSE
