CONSTANTS
    fresh = fresh
    over = over
    Ref = Ref
    Tools <- MCTools
    Args <- MCArgs
    Level <- MCLevel
    CreateTools <- MCCreateTools
    OverwriteArgs <- MCOverwriteArgs
    ValidArgs <- MCValidArgs
    Plans <- MCPlans
    GrantableRules <- MCGrantableRules
    MaxCorrections = 1
    CanRevise = TRUE
    Gates = {"deny_all", "prompt", "desktop"}
SPECIFICATION FairHSpec
INVARIANT TypeOK
INVARIANT Authorised
INVARIANT NoReplay
INVARIANT DenialIsFinal
INVARIANT OneLateCall
INVARIANT RowsInOrder
INVARIANT StatusHonest
INVARIANT AuditTrail
INVARIANT SettledViewIsFinal
PROPERTY KeepsPromise
PROPERTY RunEnds
CHECK_DEADLOCK FALSE
