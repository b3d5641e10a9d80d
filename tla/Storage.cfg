CONSTANTS
    p1 = p1
    p2 = p2
    p3 = p3
    Proc <- MCProc
    Scripts <- MCScripts
    MaxWrites = 2
SPECIFICATION Spec
INVARIANT VersionsImplyTables
INVARIANT ReadyMeansMigrated
INVARIANT CallersKnow
PROPERTY LockIsPassedOn
CHECK_DEADLOCK FALSE
