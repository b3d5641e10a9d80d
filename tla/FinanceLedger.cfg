CONSTANTS
    p1 = p1
    p2 = p2
    rent = rent
    lunch = lunch
    food = food
    travel = travel
    NoCategory = NoCategory
    Unreadable = Unreadable
    Proc <- MCProc
    Item <- MCItem
    Defaults <- MCDefaults
    Files <- MCFiles
    Recurring <- MCRecurring
    ItemOf <- MCItemOf
    First <- MCFirst
    Period <- MCPeriod
    MaxDay = 2
    MaxOps = 3
SPECIFICATION Spec
INVARIANT ReportsAddUp
INVARIANT OccurrencesBooked
PROPERTY NeverTakenBack
CHECK_DEADLOCK FALSE
