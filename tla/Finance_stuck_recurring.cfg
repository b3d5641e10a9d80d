CONSTANTS
    p1 = p1
    p2 = p2
    rent = rent
    lunch = lunch
    food = food
    travel = travel
    NoCategory = NoCategory
    Unreadable = Unreadable
    Proc <- OneProc
    Item <- MCItem
    Defaults <- MCDefaults
    Files <- NoFiles
    Recurring <- OneRecurring
    ItemOf <- OneItemOf
    First <- OneFirst
    Period <- OnePeriod
    MaxDay = 1
    MaxOps = 2
SPECIFICATION Spec
INVARIANT DueIsMaterialised
CHECK_DEADLOCK FALSE
