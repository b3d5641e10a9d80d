SPECIFICATION Spec
CONSTANTS
    Point = {p1, p2}
    Window = {w1, w2}
    MaxCorrections = 1
    Notches = 2
    MaxSessions = 2
INVARIANTS
    SuccessIsReal
    ActsOnce
    NoStrayBrowser
PROPERTY SameSession
CHECK_DEADLOCK FALSE
