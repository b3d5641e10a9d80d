------------------------------ MODULE Schedules ------------------------------
(***************************************************************************)
(* When a schedule fires: compute_next_run() and is_due() of                 *)
(* automation/scheduler/schedule.py, free of any I/O like the original.      *)
(*                                                                         *)
(* Time is a number of slots since a Monday 00:00 UTC, SlotsPerDay slots to  *)
(* a day; a datetime is a slot and a date a day number.                      *)
(***************************************************************************)
EXTENDS Integers

CONSTANT SlotsPerDay

ASSUME SlotsAssumption == SlotsPerDay \in Nat \ {0}

None == -1          \* Python's None: no earlier run, no further run, no anchor

Raises == -2        \* compute_next_run() raises

Malformed == -3     \* a run_at, anchor or time that does not parse or compare

Day(t) == t \div SlotsPerDay

\* Rows of the table schedules: its type and the keys its config holds.
Schedule ==
    [kind : {"once"}, at : Nat \cup {Malformed}]
    \cup [kind : {"interval"}, at : Nat \cup {None, Malformed}, seconds : Int]
    \cup [kind : {"weekly"}, weekday : Int, at : 0..(SlotsPerDay - 1) \cup {Malformed},
         every : Int, anchor : Nat]

\* The days on which a weekly schedule fires.
Fires(s, day) ==
    /\ day % 7 = s.weekday
    /\ day >= s.anchor
    /\ ((day - s.anchor) \div 7) % s.every = 0

\* Fault: a run later on the day of its occurrence is followed by another one.
SearchStartSameDay(now, last) == IF last = None THEN Day(now) ELSE Day(last)

SearchStart(now, last) == IF last = None THEN Day(now) ELSE Day(last) + 1

\* _next_weekly(): the first such day within every_n_weeks * 7 + 8 days.
NextWeekly(s, now, last) ==
    LET start == SearchStart(now, last)
        found == {day \in start..(start + s.every * 7 + 7) : Fires(s, day)}
    IN  IF s.every = 0 \/ s.at = Malformed \/ found = {} THEN Raises
        ELSE SlotsPerDay * (CHOOSE day \in found : \A other \in found : day <= other) + s.at

\* The anchor, by default the time of asking, then seconds after the last run.
NextInterval(s, now, last) ==
    IF s.at = Malformed THEN Raises
    ELSE IF last # None THEN last + s.seconds
    ELSE IF s.at = None THEN now ELSE s.at

NextOnce(s, now, last) ==
    IF s.at = Malformed THEN Raises ELSE IF last # None THEN None ELSE s.at

ComputeNextRun(s, now, last) ==
    CASE s.kind = "once"     -> NextOnce(s, now, last)
      [] s.kind = "interval" -> NextInterval(s, now, last)
      [] s.kind = "weekly"   -> NextWeekly(s, now, last)

\* is_due() of an active schedule.
IsDue(s, now, last) ==
    LET next == ComputeNextRun(s, now, last) IN next # None /\ next <= now
=============================================================================
