-------------------------- MODULE MCFinanceLedger --------------------------
(***************************************************************************)
(* Two processes; a file with a new category, an unreadable row and a row    *)
(* that books what one of the recurring expenses books; a daily expense and  *)
(* one with a frequency that does not exist.                                *)
(***************************************************************************)
EXTENDS FinanceLedger

CONSTANTS p1, p2, rent, lunch, food, travel

MCProc == {p1, p2}

MCItem == {rent, lunch}

MCDefaults == <<food, travel>>

MCRow(item, day, category) == [content |-> <<item, day>>, category |-> category]

MCFiles == {<<MCRow(lunch, 0, "trips"), Unreadable, MCRow(rent, 0, NoCategory)>>}

MCRecurring == {"daily", "odd"}

MCItemOf == [daily |-> rent, odd |-> lunch]

MCFirst == [daily |-> 0, odd |-> 1]

MCPeriod == [daily |-> 1, odd |-> 0]

\* One process and one daily expense, and nothing else that writes.
OneProc == {p1}

NoFiles == {}

OneRecurring == {"daily"}

OneItemOf == [daily |-> rent]

OneFirst == [daily |-> 0]

OnePeriod == [daily |-> 1]
=============================================================================
