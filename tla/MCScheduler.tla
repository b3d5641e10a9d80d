---------------------------- MODULE MCScheduler ----------------------------
(***************************************************************************)
(* Catalogs of schedules for TLC. Two slots to a day: the weekly schedules   *)
(* fire in the second one.                                                  *)
(***************************************************************************)
EXTENDS Scheduler

Once(t) == [kind |-> "once", at |-> t]

Interval(t, n) == [kind |-> "interval", at |-> t, seconds |-> n]

Weekly(day, n, anchor) == [kind |-> "weekly", weekday |-> day, at |-> 1, every |-> n, anchor |-> anchor]

\* A reminder and an interval anchored by the time of asking.
Mixed == <<Once(1), Interval(None, 2)>>

\* Mondays, and a cadence that starts too late to be computed.
Mondays == <<Weekly(0, 1, 0), Weekly(0, 1, 42)>>

\* Every second Monday, from day 0.
Fortnightly == <<Weekly(0, 2, 0)>>

\* A weekly schedule whose cadence starts six weeks ahead, then a reminder.
FarAnchor == <<Weekly(0, 1, 42), Once(1)>>

Setting(catalog, maxTime, maySignal) ==
    [catalog |-> catalog, maxTime |-> maxTime, maySignal |-> maySignal]

All == {Setting(Mixed, 3, TRUE), Setting(Mondays, 6, FALSE), Setting(Fortnightly, 30, FALSE)}

Poisoned == {Setting(FarAnchor, 2, FALSE)}
=============================================================================
