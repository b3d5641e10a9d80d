CONSTANTS
    p1 = p1
    p2 = p2
    p3 = p3
    Proc <- MCProc
    Scripts <- MCScripts
    MaxWrites = 2
SPECIFICATION Spec
INVARIANT BrowsingBlocksNobody
CHECK_DEADLOCK FALSE
