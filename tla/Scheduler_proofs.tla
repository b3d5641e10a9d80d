-------------------------- MODULE Scheduler_proofs --------------------------
(***************************************************************************)
(* What the jobs table and the executions of the scheduler agree on, for     *)
(* every catalog of schedules, length of a day and number of crashes.       *)
(*                                                                         *)
(* Neither result is inductive. That the row recorded for a job answers a    *)
(* new occurrence was decided at the look at last_run_at(), two statements   *)
(* earlier; the invariant carries that decision (DueNow) to the statement    *)
(* that needs it, which is sound as nobody else writes jobs.                *)
(***************************************************************************)
EXTENDS Scheduler, FiniteSetTheorems, WellFoundedInduction, TLAPS

\* The clock of the tick is behind the clock, and the jobs are behind the tick.
TimesAgree ==
    tickNow <= clock /\ \A i \in DOMAIN jobs : jobs[i].at <= tickNow

\* The tick is at a schedule of its list, ...
AtSchedule ==
    /\ dpc \in {"run", "record", "set_next", "deactivate"} => todo # {}
    /\ dpc = "record" => status # "none"

\* ... and the one it runs is due by what the table still says.
DueNow ==
    dpc \in {"run", "record"} =>
        /\ NextRun(current, tickNow, LastRun(current)) # Raises
        /\ IsDue(Catalog[current], tickNow, LastRun(current))

Runs(id) == {i \in DOMAIN ran : ran[i][1] = id}

HasJob(id) == \E i \in DOMAIN jobs : jobs[i].id = id

\* An execution is followed by its row, or by the crash that loses it.
RunsAccounted ==
    \A id \in Id :
        /\ IsFiniteSet(Runs(id))
        /\ Catalog[id].kind = "once" =>
            Cardinality(Runs(id)) <=
                unrecorded[id] + (IF HasJob(id) \/ (dpc = "record" /\ current = id) THEN 1 ELSE 0)

SInv ==
    /\ SchedulerTypeOK /\ TimesAgree /\ AtSchedule /\ DueNow /\ RunsAccounted
    /\ OncePerOccurrence

-----------------------------------------------------------------------------
(* Numbers. *)

LEMMA Division ==
    ASSUME NEW x \in Nat, NEW p \in Nat, p > 0
    PROVE  x = p * (x \div p) + (x % p) /\ x \div p \in Int /\ x % p \in 0..(p - 1)
  OBVIOUS

\* Day(t) and the time of the day, of a slot given by both.
LEMMA DayAndTime ==
    ASSUME NEW d \in Nat, NEW at \in Nat, at < SlotsPerDay
    PROVE  /\ SlotsPerDay * d + at \in Nat
           /\ Day(SlotsPerDay * d + at) = d
           /\ (SlotsPerDay * d + at) % SlotsPerDay = at
<1> DEFINE t == SlotsPerDay * d + at
           q == t \div SlotsPerDay
           r == t % SlotsPerDay
<1>1. SlotsPerDay \in Nat /\ SlotsPerDay > 0
  BY SlotsAssumption DEF SlotsAssumption
<1>2. t \in Nat
  BY <1>1
<1>3. t = SlotsPerDay * q + r /\ q \in Int /\ r \in 0..(SlotsPerDay - 1)
  <2> HIDE DEF t, q, r
  <2> QED
    BY <1>1, <1>2, Division DEF q, r
<1>4. t = SlotsPerDay * d + at
  OBVIOUS
<1> HIDE DEF t, q, r
<1>5. q = d
  <2>1. CASE q > d
    <3>1. q >= d + 1
      BY <1>3, <2>1
    <3>2. SlotsPerDay * q >= SlotsPerDay * (d + 1)
      BY <1>1, <1>3, <3>1
    <3> QED
      BY <1>1, <1>3, <1>4, <3>2
  <2>2. CASE q < d
    <3>1. d >= q + 1
      BY <1>3, <2>2
    <3>2. SlotsPerDay * d >= SlotsPerDay * (q + 1)
      BY <1>1, <1>3, <3>1
    <3> QED
      BY <1>1, <1>3, <1>4, <3>2
  <2> QED
    BY <1>3, <2>1, <2>2
<1>6. r = at
  BY <1>1, <1>3, <1>4, <1>5
<1> QED
  BY <1>2, <1>5, <1>6 DEF Day, t, q, r

LEMMA LeastElement ==
    ASSUME NEW T, T \subseteq Nat, T # {}
    PROVE  \E x \in T : \A y \in T : x <= y
<1>1. PICK x \in T : \A y \in T : <<y, x>> \notin OpToRel(<, Nat)
  BY NatLessThanWellFounded, WFMin
<1>2. \A y \in T : ~(y < x)
  BY <1>1 DEF OpToRel
<1> QED
  BY <1>2

LEMMA GreatestElement ==
    ASSUME NEW T, T \subseteq Nat, T # {}, NEW n \in Nat, \A t \in T : t <= n
    PROVE  \E x \in T : \A y \in T : y <= x
<1> DEFINE below == {n - t : t \in T}
<1>1. below \subseteq Nat /\ below # {}
  <2>1. \A t \in T : n - t \in Nat
    OBVIOUS
  <2>2. PICK t \in T : TRUE
    OBVIOUS
  <2>3. n - t \in below
    OBVIOUS
  <2> QED
    BY <2>1, <2>3
<1>2. PICK b \in below : \A c \in below : b <= c
  <2> HIDE DEF below
  <2> QED
    BY <1>1, LeastElement
<1>3. PICK x \in T : b = n - x
  OBVIOUS
<1>4. \A y \in T : n - x <= n - y
  BY <1>2, <1>3
<1> QED
  BY <1>4

-----------------------------------------------------------------------------
(* Schedules. *)

LEMMA CatalogTypes ==
    ASSUME setting \in Settings
    PROVE  /\ Catalog \in Seq(Schedule) /\ MaxTime \in Nat
           /\ Id = 1..Len(Catalog) /\ Len(Catalog) \in Nat
           /\ \A id \in Id : Catalog[id] \in Schedule
<1>1. setting \in [catalog : Seq(Schedule), maxTime : Nat, maySignal : BOOLEAN]
  BY SchedulerAssumption DEF SchedulerAssumption
<1>2. Catalog \in Seq(Schedule) /\ MaxTime \in Nat
  BY <1>1 DEF Catalog, MaxTime
<1> QED
  BY <1>2 DEF Id

LEMMA KindOf ==
    ASSUME NEW s \in Schedule
    PROVE  /\ s.kind \in {"once", "interval", "weekly"}
           /\ s.kind = "once" => s.at \in Nat \cup {Malformed}
           /\ s.kind = "interval" => s.at \in Nat \cup {None, Malformed} /\ s.seconds \in Int
           /\ s.kind = "weekly" => /\ s.weekday \in Int /\ s.every \in Int /\ s.anchor \in Nat
                                   /\ s.at \in 0..(SlotsPerDay - 1) \cup {Malformed}
  BY DEF Schedule

\* What _next_weekly() returns is an occurrence, later than the last run.
LEMMA WeeklyOccurrence ==
    ASSUME NEW s \in Schedule, s.kind = "weekly",
           NEW now \in Nat, NEW last \in Nat \cup {None},
           NextWeekly(s, now, last) # Raises
    PROVE  LET t == NextWeekly(s, now, last)
           IN  t \in Nat /\ t % SlotsPerDay = s.at /\ Fires(s, Day(t)) /\ last < t
<1> DEFINE start == SearchStart(now, last)
           days == {day \in start..(start + s.every * 7 + 7) : Fires(s, day)}
           d == CHOOSE day \in days : \A other \in days : day <= other
<1>1. SlotsPerDay \in Nat /\ SlotsPerDay > 0
  BY SlotsAssumption DEF SlotsAssumption
<1>2. s.at \in 0..(SlotsPerDay - 1) /\ s.every \in Int /\ days # {}
      /\ NextWeekly(s, now, last) = SlotsPerDay * d + s.at
  BY KindOf DEF NextWeekly, Raises, Malformed
<1>3. start \in Nat /\ (last # None => start = Day(last) + 1)
  <2>1. \A t \in Nat : Day(t) \in Nat
    BY <1>1 DEF Day
  <2> QED
    BY <2>1 DEF SearchStart
<1>4. days \subseteq Nat
  BY <1>2, <1>3
<1>5. d \in days
  <2> HIDE DEF days
  <2> QED
    BY <1>2, <1>4, LeastElement
<1>6. d \in Nat /\ start <= d /\ Fires(s, d)
  BY <1>2, <1>3, <1>5
<1> HIDE DEF d, days
<1>7. s.at \in Nat /\ s.at < SlotsPerDay
  BY <1>1, <1>2
<1> DEFINE t == SlotsPerDay * d + s.at
<1>8. t \in Nat /\ Day(t) = d /\ t % SlotsPerDay = s.at
  BY <1>6, <1>7, DayAndTime
<1>9. last < t
  <2>1. CASE last = None
    BY <1>8, <2>1 DEF None
  <2>2. CASE last # None
    <3> DEFINE k == last \div SlotsPerDay
               m == last % SlotsPerDay
    <3>1. last \in Nat
      BY <2>2
    <3>2. last = SlotsPerDay * k + m /\ k \in Int /\ m \in 0..(SlotsPerDay - 1)
      <4> HIDE DEF k, m
      <4> QED
        BY <1>1, <3>1, Division DEF k, m
    <3>3. k + 1 <= d
      BY <1>3, <1>6, <2>2 DEF Day
    <3> HIDE DEF k, m
    <3>4. SlotsPerDay * d >= SlotsPerDay * (k + 1)
      BY <1>1, <1>6, <3>2, <3>3
    <3> QED
      BY <1>1, <1>6, <1>7, <3>1, <3>2, <3>4
  <2> QED
    BY <2>1, <2>2
<1> HIDE DEF t
<1> QED
  BY <1>2, <1>6, <1>8, <1>9 DEF t
\* last_run_at() is the latest job of the schedule, or nothing without one.
LEMMA LastRunFacts ==
    ASSUME SInv, NEW id \in Id
    PROVE  /\ LastRun(id) \in Nat \cup {None}
           /\ HasJob(id) => LastRun(id) \in Nat
<1> DEFINE T == {jobs[i].at : i \in {j \in DOMAIN jobs : jobs[j].id = id}}
<1>1. jobs \in Seq(Job) /\ tickNow \in Nat /\ \A i \in DOMAIN jobs : jobs[i].at <= tickNow
  BY CatalogTypes DEF SInv, SchedulerTypeOK, TimesAgree
<1>2. T \subseteq Nat /\ \A t \in T : t <= tickNow
  <2>1. \A i \in DOMAIN jobs : jobs[i] \in Job
    BY <1>1
  <2>2. \A i \in DOMAIN jobs : jobs[i].at \in Nat
    BY <2>1 DEF Job
  <2> QED
    BY <1>1, <2>2
<1>3. LastRun(id) = IF T = {} THEN None ELSE CHOOSE t \in T : \A u \in T : u <= t
  BY DEF LastRun
<1>4. HasJob(id) => T # {}
  BY DEF HasJob
<1> HIDE DEF T
<1>5. T # {} => LastRun(id) \in T
  BY <1>1, <1>2, <1>3, GreatestElement
<1> QED
  BY <1>2, <1>3, <1>4, <1>5

\* The schedule the tick is at is one of its list.
LEMMA CurrentIsListed ==
    ASSUME SchedulerTypeOK, todo # {}
    PROVE  current \in todo /\ current \in Id
<1>1. todo \subseteq Nat /\ todo \subseteq Id
  BY CatalogTypes DEF SchedulerTypeOK
<1>2. current \in todo
  BY <1>1, LeastElement DEF current
<1> QED
  BY <1>1, <1>2

\* A schedule that is due has an occurrence since its last run.
LEMMA DueOccurrence ==
    ASSUME SInv, NEW id \in Id,
           NextRun(id, tickNow, LastRun(id)) # Raises,
           IsDue(Catalog[id], tickNow, LastRun(id))
    PROVE  LET s == Catalog[id] IN
           IF s.kind = "interval"
           THEN LastRun(id) # None => tickNow >= LastRun(id) + s.seconds
           ELSE \E t \in Occurrence(s) : LastRun(id) < t /\ t <= tickNow
<1> DEFINE s == Catalog[id]
           last == LastRun(id)
<1>1. s \in Schedule /\ MaxTime \in Nat /\ tickNow \in Nat /\ clock \in Nat
      /\ clock <= MaxTime /\ tickNow <= clock
  BY CatalogTypes DEF SInv, SchedulerTypeOK, TimesAgree
<1>2. last \in Nat \cup {None}
  BY LastRunFacts
<1>3. ComputeNextRun(s, tickNow, last) \notin {None, Raises}
      /\ ComputeNextRun(s, tickNow, last) <= tickNow
  BY DEF IsDue, NextRun
<1>4. CASE s.kind = "interval"
  <2>1. ComputeNextRun(s, tickNow, last) = NextInterval(s, tickNow, last)
    BY <1>4 DEF ComputeNextRun
  <2>2. last # None => last + s.seconds <= tickNow
    BY <1>3, <2>1 DEF NextInterval
  <2>3. s.seconds \in Int
    BY <1>1, <1>4, KindOf
  <2> QED
    BY <1>1, <1>2, <1>4, <2>2, <2>3
<1>5. CASE s.kind = "once"
  <2>1. ComputeNextRun(s, tickNow, last) = NextOnce(s, tickNow, last)
    BY <1>5 DEF ComputeNextRun
  <2>2. last = None /\ s.at # Malformed /\ s.at <= tickNow
    BY <1>3, <2>1 DEF NextOnce
  <2>3. s.at \in Nat
    BY <1>1, <1>5, <2>2, KindOf
  <2> QED
    BY <1>5, <2>2, <2>3 DEF Occurrence, None
<1>6. CASE s.kind = "weekly"
  <2> DEFINE t == NextWeekly(s, tickNow, last)
  <2>1. t # Raises /\ t <= tickNow
    BY <1>3, <1>6 DEF ComputeNextRun
  <2>2. t \in Nat /\ t % SlotsPerDay = s.at /\ Fires(s, Day(t)) /\ last < t
    BY <1>1, <1>2, <1>6, <2>1, WeeklyOccurrence
  <2> HIDE DEF t
  <2>3. t \in Occurrence(s)
    BY <1>1, <1>6, <2>1, <2>2 DEF Occurrence
  <2> QED
    BY <1>6, <2>1, <2>2, <2>3
<1> QED
  BY <1>1, <1>4, <1>5, <1>6, KindOf
-----------------------------------------------------------------------------
(* The steps. *)

LEMMA InitSInv == Init => SInv
<1> SUFFICES ASSUME Init PROVE SInv
  OBVIOUS
<1>1. Catalog \in Seq(Schedule) /\ MaxTime \in Nat /\ Id = 1..Len(Catalog) /\ Len(Catalog) \in Nat
  BY CatalogTypes DEF Init
<1>2. SchedulerTypeOK
  <2>1. jobs \in Seq(Job) /\ ran \in Seq(Id \X BOOLEAN) /\ nextRunAt \in [Id -> Int]
    BY DEF Init, None
  <2>2. MaxStops \in Nat
    BY SchedulerAssumption DEF SchedulerAssumption
  <2>3. setting \in Settings /\ clock \in 0..MaxTime /\ rows \in 0..Len(Catalog)
        /\ tickNow \in 0..MaxTime /\ stops \in 0..MaxStops
    BY <1>1, <2>2 DEF Init
  <2>4. active \subseteq 1..rows /\ todo \subseteq 1..rows /\ unrecorded \in [Id -> Nat]
    BY DEF Init
  <2>5. dpc = "down" /\ status = "none" /\ stop \in BOOLEAN /\ signalled \in BOOLEAN
    BY DEF Init
  <2> QED
    BY <2>1, <2>3, <2>4, <2>5 DEF SchedulerTypeOK
<1>3. TimesAgree /\ AtSchedule /\ DueNow /\ OncePerOccurrence
  BY DEF Init, TimesAgree, AtSchedule, DueNow, OncePerOccurrence
<1>4. RunsAccounted
  <2>1. \A id \in Id : Runs(id) = {}
    BY DEF Init, Runs
  <2>2. \A id \in Id : unrecorded[id] = 0 /\ ~HasJob(id) /\ dpc = "down"
    BY DEF Init, HasJob
  <2> QED
    BY <2>1, <2>2, FS_EmptySet DEF RunsAccounted
<1> QED
  BY <1>2, <1>3, <1>4 DEF SInv

\* Every step leaves the setting alone, and with it the catalog.
LEMMA SettingStays ==
    ASSUME [Next]_vars
    PROVE  setting' = setting /\ Catalog' = Catalog /\ MaxTime' = MaxTime /\ Id' = Id /\ Job' = Job
<1>1. setting' = setting
  BY DEF Next, Daemon, vars, Start, Install, Enter, LoopHead, TickStart, CheckRaises, Check, Run,
         RecordJob, SetNext, Deactivate, TickEnd, Wake, Restart, Advance, Add, Remove, Crash, Signal
<1>2. Catalog' = Catalog /\ MaxTime' = MaxTime /\ Id' = Id
  BY <1>1 DEF Catalog, MaxTime, Id
<1> QED
  BY <1>1, <1>2 DEF Job

LEMMA Ranges ==
    ASSUME SchedulerTypeOK
    PROVE  /\ tickNow \in Nat /\ clock \in Nat /\ MaxTime \in Nat /\ Len(Catalog) \in Nat
           /\ Id = 1..Len(Catalog) /\ todo \subseteq Id /\ active \subseteq Id
           /\ \A id \in Id : Catalog[id] \in Schedule
<1>1. MaxTime \in Nat /\ Id = 1..Len(Catalog) /\ Len(Catalog) \in Nat
      /\ \A id \in Id : Catalog[id] \in Schedule
  BY CatalogTypes DEF SchedulerTypeOK
<1> QED
  BY <1>1 DEF SchedulerTypeOK

LEMMA TypeStep == ASSUME SInv, [Next]_vars PROVE SchedulerTypeOK'
<1> USE DEF SchedulerTypeOK, store, daemon, history
<1>0. SchedulerTypeOK /\ TimesAgree /\ AtSchedule
  BY DEF SInv
<1>1. UNCHANGED <<setting, Catalog, MaxTime, Id, Job>> /\ MaxStops \in Nat
  BY SettingStays, SchedulerAssumption DEF SchedulerAssumption
<1>2. tickNow \in Nat /\ clock \in Nat /\ MaxTime \in Nat /\ Len(Catalog) \in Nat
      /\ Id = 1..Len(Catalog) /\ todo \subseteq Id /\ active \subseteq Id
  BY <1>0, Ranges
<1>3. todo # {} => current \in Id
  BY CurrentIsListed, <1>0
<1>4. CASE Start \/ Install \/ Enter \/ LoopHead \/ TickStart \/ CheckRaises \/ TickEnd \/ Wake
  BY <1>0, <1>1, <1>2, <1>4
     DEF Start, Install, Enter, LoopHead, TickStart, CheckRaises, TickEnd, Wake, Listed
<1>5. CASE Restart \/ Advance \/ Add \/ Remove \/ Signal
  <2>1. CASE Restart \/ Signal
    BY <1>0, <1>1, <1>2, <2>1 DEF Restart, Signal
  <2>2. CASE Advance
    BY <1>0, <1>1, <1>2, <2>2 DEF Advance
  <2>3. CASE Add
    BY <1>0, <1>1, <1>2, <2>3 DEF Add
  <2>4. CASE Remove
    BY <1>0, <1>1, <1>2, <2>4 DEF Remove
  <2> QED
    BY <1>5, <2>1, <2>2, <2>3, <2>4
<1>6. CASE Check
  BY <1>0, <1>1, <1>2, <1>6 DEF Check
<1>7. CASE Run
  <2>1. <<current, current \in active>> \in Id \X BOOLEAN
    <3>1. (current \in active) \in BOOLEAN
      OBVIOUS
    <3> QED
      BY <1>0, <1>3, <1>7, <3>1 DEF Run, AtSchedule
  <2>2. ran' \in Seq(Id \X BOOLEAN)
    BY <1>0, <1>7, <2>1 DEF Run
  <2> QED
    BY <1>0, <1>1, <1>2, <1>7, <2>2 DEF Run
<1>8. CASE RecordJob
  <2>1. status \in {"succeeded", "failed"}
    BY <1>0, <1>8 DEF RecordJob, AtSchedule
  <2> DEFINE job == [id |-> current, at |-> tickNow, status |-> status]
  <2>2. job \in Job
    BY <1>0, <1>2, <1>3, <1>8, <2>1 DEF RecordJob, AtSchedule, Job
  <2>3. jobs' = Append(jobs, job) /\ jobs \in Seq(Job)
    BY <1>0, <1>8 DEF RecordJob
  <2> HIDE DEF job
  <2>4. jobs' \in Seq(Job)
    BY <2>2, <2>3
  <2> QED
    BY <1>0, <1>1, <1>2, <1>8, <2>4 DEF RecordJob
<1>9. CASE SetNext
  <2>1. NextRun(current, tickNow, tickNow) \in Int
    <3> DEFINE s == Catalog[current]
    <3>1. s \in Schedule
      BY <1>0, <1>3, <1>9, Ranges DEF SetNext, AtSchedule
    <3>2. CASE s.kind = "once"
      BY <1>2, <3>1, <3>2, KindOf DEF NextRun, ComputeNextRun, NextOnce, None, Raises
    <3>3. CASE s.kind = "interval"
      BY <1>2, <3>1, <3>3, KindOf DEF NextRun, ComputeNextRun, NextInterval, None, Raises
    <3>4. CASE s.kind = "weekly"
      <4>1. NextRun(current, tickNow, tickNow) = NextWeekly(s, tickNow, tickNow)
        BY <3>4 DEF NextRun, ComputeNextRun
      <4>2. NextWeekly(s, tickNow, tickNow) = Raises \/ NextWeekly(s, tickNow, tickNow) \in Nat
        BY <1>2, <3>1, <3>4, WeeklyOccurrence
      <4> QED
        BY <4>1, <4>2 DEF Raises
    <3> QED
      BY <3>1, <3>2, <3>3, <3>4, KindOf
  <2> QED
    BY <1>0, <1>1, <1>2, <1>3, <1>9, <2>1 DEF SetNext
<1>10. CASE Deactivate
  BY <1>0, <1>1, <1>2, <1>10 DEF Deactivate
<1>11. CASE Crash
  BY <1>0, <1>1, <1>2, <1>3, <1>11 DEF Crash, InProcess, AtSchedule
<1>12. CASE UNCHANGED vars
  BY <1>0, <1>1, <1>2, <1>12 DEF vars
<1> QED
  BY <1>4, <1>5, <1>6, <1>7, <1>8, <1>9, <1>10, <1>11, <1>12 DEF Next, Daemon

LEMMA TimesStep == ASSUME SInv, [Next]_vars PROVE TimesAgree'
<1>1. TimesAgree /\ tickNow \in Nat /\ clock \in Nat /\ jobs \in Seq(Job)
      /\ \A i \in DOMAIN jobs : jobs[i].at \in Int
  <2>1. tickNow \in Nat /\ clock \in Nat /\ jobs \in Seq(Job)
    BY Ranges DEF SInv, SchedulerTypeOK
  <2>2. \A i \in DOMAIN jobs : jobs[i] \in Job
    BY <2>1
  <2> QED
    BY <2>1, <2>2 DEF SInv, Job
<1>2. CASE jobs' = jobs /\ (tickNow' = tickNow \/ tickNow' = clock) /\ clock' \in {clock, clock + 1}
  BY <1>1, <1>2 DEF TimesAgree
<1>3. CASE RecordJob
  <2>1. jobs' = Append(jobs, [id |-> current, at |-> tickNow, status |-> status])
        /\ UNCHANGED <<tickNow, clock>>
    BY <1>3 DEF RecordJob
  <2> QED
    BY <1>1, <2>1 DEF TimesAgree
<1> QED
  BY <1>2, <1>3
     DEF Next, Daemon, vars, store, daemon, history, Start, Install, Enter, LoopHead, TickStart, CheckRaises,
         Check, Run, SetNext, Deactivate, TickEnd, Wake, Restart, Advance, Add, Remove, Crash, Signal

\* Between the look and the row, neither the tick nor the jobs change.
LEMMA DueStep == ASSUME SInv, [Next]_vars PROVE AtSchedule' /\ DueNow'
<1> USE DEF AtSchedule, store, daemon, history
<1>0. AtSchedule /\ DueNow /\ Catalog' = Catalog
  BY SettingStays DEF SInv
<1>1. ASSUME UNCHANGED <<jobs, tickNow, todo>>
      PROVE  /\ current' = current
             /\ \A id : LastRun(id)' = LastRun(id)
             /\ NextRun(current, tickNow, LastRun(current))' = NextRun(current, tickNow, LastRun(current))
             /\ IsDue(Catalog[current], tickNow, LastRun(current))'
                  = IsDue(Catalog[current], tickNow, LastRun(current))
  <2>1. current' = current
    BY <1>1 DEF current
  <2>2. \A id : LastRun(id)' = LastRun(id)
    BY <1>1 DEF LastRun
  <2>3. LastRun(current)' = LastRun(current)
    BY <2>1, <1>1 DEF LastRun
  <2> QED
    BY <1>0, <1>1, <2>1, <2>2, <2>3 DEF NextRun
<1>2. CASE Check
  <2>1. CASE IsDue(Catalog[current], tickNow, LastRun(current))
    <3>1. UNCHANGED <<jobs, tickNow, todo>> /\ todo # {}
          /\ NextRun(current, tickNow, LastRun(current)) # Raises
      BY <1>2, <2>1 DEF Check
    <3>2. dpc' = "run"
      BY <1>2, <2>1 DEF Check
    <3> QED
      BY <1>1, <2>1, <3>1, <3>2 DEF DueNow
  <2>2. CASE ~IsDue(Catalog[current], tickNow, LastRun(current))
    BY <1>2, <2>2 DEF Check, DueNow
  <2> QED
    BY <2>1, <2>2
<1>3. CASE Run
  <2>1. UNCHANGED <<jobs, tickNow, todo>> /\ dpc = "run" /\ dpc' = "record" /\ status' # "none"
    BY <1>3 DEF Run
  <2> QED
    BY <1>0, <1>1, <2>1 DEF DueNow
<1>4. CASE RecordJob \/ SetNext \/ Deactivate \/ TickEnd \/ Wake \/ Start \/ Install \/ Enter
           \/ LoopHead \/ TickStart \/ CheckRaises \/ Restart \/ Crash
  BY <1>0, <1>4
     DEF DueNow, RecordJob, SetNext, Deactivate, TickEnd, Wake, Start, Install, Enter, LoopHead, TickStart,
         CheckRaises, Restart, Crash
<1>5. CASE Advance \/ Add \/ Remove \/ Signal \/ UNCHANGED vars
  <2>1. UNCHANGED <<jobs, tickNow, todo, dpc, status>>
    BY <1>5 DEF Advance, Add, Remove, Signal, vars
  <2> QED
    BY <1>0, <1>1, <2>1 DEF DueNow
<1> QED
  BY <1>2, <1>3, <1>4, <1>5 DEF Next, Daemon

-----------------------------------------------------------------------------
(* Executions. *)

LEMMA RunsStep == ASSUME SInv, [Next]_vars PROVE RunsAccounted'
<1> USE DEF store, daemon, history
<1>0. /\ SchedulerTypeOK /\ AtSchedule /\ DueNow /\ RunsAccounted
      /\ Catalog' = Catalog /\ Id' = Id /\ jobs \in Seq(Job) /\ unrecorded \in [Id -> Nat]
      /\ ran \in Seq(Id \X BOOLEAN)
  BY SettingStays DEF SInv, SchedulerTypeOK
<1>1. todo # {} => current \in Id
  BY CurrentIsListed, <1>0
<1>2. \A id \in Id : IsFiniteSet(Runs(id)) /\ Cardinality(Runs(id)) \in Nat
  BY <1>0, FS_CardinalityType DEF RunsAccounted
<1>3. CASE Run
  <2>1. dpc = "run" /\ dpc' = "record" /\ current' = current /\ current \in Id
        /\ jobs' = jobs /\ unrecorded' = unrecorded /\ ran' = Append(ran, <<current, current \in active>>)
    BY <1>0, <1>1, <1>3 DEF Run, AtSchedule, current
  <2>2. SUFFICES ASSUME NEW id \in Id
                 PROVE  /\ IsFiniteSet(Runs(id)')
                        /\ Catalog[id].kind = "once" =>
                             Cardinality(Runs(id)') <= unrecorded[id]
                                + (IF HasJob(id)' \/ current = id THEN 1 ELSE 0)
    BY <1>0, <2>1 DEF RunsAccounted
  <2>3. HasJob(id)' <=> HasJob(id)
    BY <2>1 DEF HasJob
  <2>4. /\ DOMAIN ran' = DOMAIN ran \cup {Len(ran) + 1} /\ Len(ran) + 1 \notin DOMAIN ran
        /\ \A i \in DOMAIN ran : ran'[i] = ran[i]
        /\ ran'[Len(ran) + 1] = <<current, current \in active>>
    BY <1>0, <2>1
  <2>5. CASE current # id
    <3>1. Runs(id)' = Runs(id)
      BY <2>4, <2>5 DEF Runs
    <3> QED
      BY <1>0, <1>2, <2>1, <2>3, <2>5, <3>1 DEF RunsAccounted
  <2>6. CASE current = id
    <3>1. Runs(id)' = Runs(id) \cup {Len(ran) + 1} /\ Len(ran) + 1 \notin Runs(id)
      BY <2>4, <2>6 DEF Runs
    <3>2. IsFiniteSet(Runs(id)') /\ Cardinality(Runs(id)') = Cardinality(Runs(id)) + 1
      BY <1>2, <3>1, FS_AddElement
    <3>3. ASSUME Catalog[id].kind = "once" PROVE ~HasJob(id)
      <4>1. ComputeNextRun(Catalog[id], tickNow, LastRun(id)) \notin {None, Raises}
        BY <1>0, <2>1, <2>6 DEF DueNow, IsDue, NextRun
      <4>2. LastRun(id) = None
        BY <3>3, <4>1 DEF ComputeNextRun, NextOnce
      <4> QED
        BY <4>2, LastRunFacts DEF None
    <3>4. Catalog[id].kind = "once" => Cardinality(Runs(id)) <= unrecorded[id]
      BY <1>0, <1>2, <2>1, <3>3 DEF RunsAccounted
    <3> QED
      BY <1>0, <1>2, <2>6, <3>2, <3>4
  <2> QED
    BY <2>5, <2>6
<1>4. ASSUME ran' = ran,
             \A id \in Id : /\ unrecorded[id] <= unrecorded'[id] /\ unrecorded'[id] \in Nat
                            /\ HasJob(id) => HasJob(id)'
                            /\ dpc = "record" /\ current = id =>
                                  \/ dpc' = "record" /\ current' = id
                                  \/ HasJob(id)'
                                  \/ unrecorded'[id] = unrecorded[id] + 1
      PROVE  RunsAccounted'
  <2>1. \A id \in Id : Runs(id)' = Runs(id)
    BY <1>4 DEF Runs
  <2>2. SUFFICES ASSUME NEW id \in Id, Catalog[id].kind = "once"
                 PROVE  Cardinality(Runs(id)) <= unrecorded'[id]
                          + (IF HasJob(id)' \/ (dpc' = "record" /\ current' = id) THEN 1 ELSE 0)
    BY <1>0, <1>2, <2>1 DEF RunsAccounted
  <2>3. Cardinality(Runs(id)) <=
          unrecorded[id] + (IF HasJob(id) \/ (dpc = "record" /\ current = id) THEN 1 ELSE 0)
    BY <1>0, <2>2 DEF RunsAccounted
  <2>4. unrecorded[id] \in Nat /\ Cardinality(Runs(id)) \in Nat
    BY <1>0, <1>2
  <2>5. CASE HasJob(id)
    BY <1>4, <2>3, <2>4, <2>5
  <2>6. CASE ~HasJob(id) /\ dpc = "record" /\ current = id
    BY <1>4, <2>3, <2>4, <2>6
  <2>7. CASE ~HasJob(id) /\ ~(dpc = "record" /\ current = id)
    BY <1>4, <2>3, <2>4, <2>7
  <2> QED
    BY <2>5, <2>6, <2>7
<1>5. CASE RecordJob
  <2>1. ran' = ran /\ unrecorded' = unrecorded
        /\ jobs' = Append(jobs, [id |-> current, at |-> tickNow, status |-> status])
    BY <1>5 DEF RecordJob
  <2>2. DOMAIN jobs' = DOMAIN jobs \cup {Len(jobs) + 1} /\ jobs'[Len(jobs) + 1].id = current
        /\ \A i \in DOMAIN jobs : i \in DOMAIN jobs' /\ jobs'[i] = jobs[i]
    BY <1>0, <2>1
  <2>3. \A id \in Id : (HasJob(id) => HasJob(id)') /\ (current = id => HasJob(id)')
    BY <2>2 DEF HasJob
  <2> QED
    BY <1>0, <1>4, <2>1, <2>3
<1>6. CASE Crash
  <2>1. ran' = ran /\ jobs' = jobs
        /\ unrecorded' = IF dpc = "record" THEN [unrecorded EXCEPT ![current] = @ + 1] ELSE unrecorded
    BY <1>6 DEF Crash
  <2>2. \A id \in Id : HasJob(id) => HasJob(id)'
    BY <2>1 DEF HasJob
  <2>3. \A id \in Id : unrecorded'[id] = IF dpc = "record" /\ current = id THEN unrecorded[id] + 1
                                         ELSE unrecorded[id]
    BY <1>0, <2>1
  <2> QED
    BY <1>0, <1>4, <2>1, <2>2, <2>3
<1>7. CASE /\ UNCHANGED <<ran, jobs, unrecorded>>
           /\ dpc # "record" \/ UNCHANGED <<dpc, todo>>
  <2>1. \A id \in Id : HasJob(id)' <=> HasJob(id)
    BY <1>7 DEF HasJob
  <2>2. dpc = "record" => dpc' = "record" /\ current' = current
    BY <1>7 DEF current
  <2> QED
    BY <1>0, <1>4, <1>7, <2>1, <2>2
<1> QED
  BY <1>3, <1>5, <1>6, <1>7
     DEF Next, Daemon, vars, Start, Install, Enter, LoopHead, TickStart, CheckRaises,
         Check, SetNext, Deactivate, TickEnd, Wake, Restart, Advance, Add, Remove, Signal

-----------------------------------------------------------------------------
(* Occurrences. *)

LEMMA OccurrenceStep == ASSUME SInv, [Next]_vars PROVE OncePerOccurrence'
<1> USE DEF store, daemon, history
<1>0. /\ SchedulerTypeOK /\ AtSchedule /\ DueNow /\ OncePerOccurrence /\ jobs \in Seq(Job)
      /\ Catalog' = Catalog /\ MaxTime' = MaxTime
  BY SettingStays DEF SInv, SchedulerTypeOK
<1>1. \A s : Occurrence(s)' = Occurrence(s)
  BY <1>0 DEF Occurrence
<1>2. CASE jobs' = jobs
  <2>1. \A i : EarlierRun(i)' = EarlierRun(i)
    BY <1>2 DEF EarlierRun
  <2> QED
    BY <1>0, <1>1, <1>2, <2>1 DEF OncePerOccurrence
<1>3. CASE RecordJob
  <2> DEFINE job == [id |-> current, at |-> tickNow, status |-> status]
             n == Len(jobs)
  <2>1. jobs' = Append(jobs, job) /\ dpc = "record" /\ n \in Nat
    BY <1>0, <1>3 DEF RecordJob
  <2>2. DOMAIN jobs' = 1..(n + 1) /\ DOMAIN jobs = 1..n
        /\ (\A i \in 1..n : jobs'[i] = jobs[i]) /\ jobs'[n + 1] = job
    BY <1>0, <2>1
  <2>3. job.id = current /\ job.at = tickNow
    OBVIOUS
  <2> HIDE DEF job, n
  <2>4. \A i \in 1..n : EarlierRun(i)' = EarlierRun(i)
    <3> TAKE i \in 1..n
    <3>1. \A k \in 1..(i - 1) : jobs'[k] = jobs[k]
      BY <2>1, <2>2
    <3> DEFINE new == {jobs'[j].at : j \in {k \in 1..(i - 1) : jobs'[k].id = jobs'[i].id}}
               old == {jobs[j].at : j \in {k \in 1..(i - 1) : jobs[k].id = jobs[i].id}}
    <3>2. new = old
      BY <2>2, <3>1
    <3>3. EarlierRun(i)' = IF new = {} THEN None ELSE CHOOSE t \in new : \A u \in new : u <= t
      BY DEF EarlierRun
    <3>4. EarlierRun(i) = IF old = {} THEN None ELSE CHOOSE t \in old : \A u \in old : u <= t
      BY DEF EarlierRun
    <3> HIDE DEF new, old
    <3> QED
      BY <3>2, <3>3, <3>4
  <2>5. \A i : i = n + 1 => EarlierRun(i)' = LastRun(current)
    <3> SUFFICES ASSUME NEW i, i = n + 1 PROVE EarlierRun(i)' = LastRun(current)
      OBVIOUS
    <3> DEFINE new == {jobs'[j].at : j \in {k \in 1..(i - 1) : jobs'[k].id = jobs'[i].id}}
               old == {jobs[j].at : j \in {k \in DOMAIN jobs : jobs[k].id = current}}
    <3>1. i - 1 = n
      BY <2>1
    <3>2. new = old
      BY <2>2, <2>3, <3>1
    <3>3. EarlierRun(i)' = IF new = {} THEN None ELSE CHOOSE t \in new : \A u \in new : u <= t
      BY DEF EarlierRun
    <3>4. LastRun(current) = IF old = {} THEN None ELSE CHOOSE t \in old : \A u \in old : u <= t
      BY DEF LastRun
    <3> HIDE DEF new, old
    <3> QED
      BY <3>2, <3>3, <3>4
  <2>6. current \in Id
    BY <1>0, <2>1, CurrentIsListed DEF AtSchedule
  <2>7. LET s == Catalog[current] IN
        IF s.kind = "interval"
        THEN LastRun(current) # None => tickNow >= LastRun(current) + s.seconds
        ELSE \E t \in Occurrence(s) : LastRun(current) < t /\ t <= tickNow
    BY <1>0, <2>1, <2>6, DueOccurrence DEF DueNow
  <2>8. ASSUME NEW i \in DOMAIN jobs'
        PROVE  LET s == Catalog[jobs'[i].id] IN
               IF s.kind = "interval"
               THEN EarlierRun(i)' # None => jobs'[i].at >= EarlierRun(i)' + s.seconds
               ELSE \E t \in Occurrence(s) : EarlierRun(i)' < t /\ t <= jobs'[i].at
    <3>1. CASE i \in 1..n
      BY <1>0, <2>2, <2>4, <3>1 DEF OncePerOccurrence
    <3>2. CASE i = n + 1
      <4>1. jobs'[i].id = current /\ jobs'[i].at = tickNow /\ EarlierRun(i)' = LastRun(current)
        BY <2>2, <2>3, <2>5, <3>2
      <4> HIDE DEF SInv
      <4> QED
        BY <2>7, <4>1
    <3> QED
      BY <2>1, <2>2, <2>8, <3>1, <3>2
  <2> QED
    BY <1>0, <1>1, <2>8 DEF OncePerOccurrence
<1> QED
  BY <1>2, <1>3
     DEF Next, Daemon, vars, Start, Install, Enter, LoopHead, TickStart, CheckRaises,
         Check, Run, SetNext, Deactivate, TickEnd, Wake, Restart, Advance, Add, Remove, Crash, Signal

-----------------------------------------------------------------------------
(* What holds of the scheduler. *)

LEMMA SInvStep == ASSUME SInv, [Next]_vars PROVE SInv'
  BY TypeStep, TimesStep, DueStep, RunsStep, OccurrenceStep DEF SInv

\* The strengthening is inductive: what the tick has decided stays true until it is recorded.
THEOREM SchedulerInvariant == Spec => []SInv
<1>1. Init => SInv
  BY InitSInv
<1>2. SInv /\ [Next]_vars => SInv'
  BY SInvStep
<1> QED
  BY <1>1, <1>2, PTL DEF Spec

\* The values of the variables; in particular a tick never knows of a row the table has not had
\* (scheduler.py tick()).
THEOREM SchedulerTypes == Spec => []SchedulerTypeOK
<1>1. SInv => SchedulerTypeOK
  BY DEF SInv
<1> QED
  BY <1>1, SchedulerInvariant, PTL

\* No occurrence of a schedule is answered by two jobs, and the jobs of an interval keep their
\* distance, however late ticks are and wherever the daemon crashes (schedule.py:39-74).
THEOREM OccurrencesRunOnce == Spec => []OncePerOccurrence
<1>1. SInv => OncePerOccurrence
  BY DEF SInv
<1> QED
  BY <1>1, SchedulerInvariant, PTL

\* A reminder is executed once, and again only for a crash before its row (scheduler.py:43-56).
THEOREM RemindersRunOnce == Spec => []OnceUnlessInterrupted
<1>1. SInv => OnceUnlessInterrupted
  <2> SUFFICES ASSUME SInv, NEW id \in Id, Catalog[id].kind = "once"
               PROVE  Cardinality({i \in DOMAIN ran : ran[i][1] = id}) <= 1 + unrecorded[id]
    BY DEF OnceUnlessInterrupted
  <2>1. IsFiniteSet(Runs(id))
        /\ Cardinality(Runs(id)) <=
             unrecorded[id] + (IF HasJob(id) \/ (dpc = "record" /\ current = id) THEN 1 ELSE 0)
    BY DEF SInv, RunsAccounted
  <2>2. Cardinality(Runs(id)) \in Nat /\ unrecorded[id] \in Nat
    BY <2>1, FS_CardinalityType DEF SInv, SchedulerTypeOK
  <2> QED
    BY <2>1, <2>2 DEF Runs
<1> QED
  BY <1>1, SchedulerInvariant, PTL
-----------------------------------------------------------------------------
(* How what is due stops being due. *)

\* The answer of compute_next_run() is still there one slot later, but for a weekly schedule
\* that has never run, whose search begins anew every day.
LEMMA DueLater ==
    ASSUME NEW s \in Schedule, NEW last \in Int, NEW now \in Nat, NEW later \in {now, now + 1},
           ComputeNextRun(s, now, last) \in 0..now,
           ~(s.kind = "weekly" /\ last = None /\ Day(later) > Day(now))
    PROVE  ComputeNextRun(s, later, last) \in 0..later
<1>1. CASE s.kind = "once"
  BY <1>1 DEF ComputeNextRun, NextOnce
<1>2. CASE s.kind = "interval"
  <2>1. ComputeNextRun(s, later, last) = NextInterval(s, later, last)
        /\ ComputeNextRun(s, now, last) = NextInterval(s, now, last)
    BY <1>2 DEF ComputeNextRun
  <2> QED
    BY <1>2, <2>1, KindOf DEF NextInterval, Raises, None
<1>3. CASE s.kind = "weekly"
  <2>1. ComputeNextRun(s, later, last) = NextWeekly(s, later, last)
        /\ ComputeNextRun(s, now, last) = NextWeekly(s, now, last)
    BY <1>3 DEF ComputeNextRun
  <2>2. Day(now) <= Day(later) /\ Day(now) \in Int /\ Day(later) \in Int
    <3>1. SlotsPerDay \in Nat /\ SlotsPerDay > 0
      BY SlotsAssumption DEF SlotsAssumption
    <3> DEFINE a == Day(now)
               b == Day(later)
    <3>2. /\ now = SlotsPerDay * a + (now % SlotsPerDay) /\ a \in Int /\ now % SlotsPerDay \in 0..(SlotsPerDay - 1)
          /\ later = SlotsPerDay * b + (later % SlotsPerDay) /\ b \in Int /\ later % SlotsPerDay \in 0..(SlotsPerDay - 1)
      BY <3>1, Division DEF Day
    <3> HIDE DEF a, b
    <3>3. CASE b < a
      <4>1. a >= b + 1
        BY <3>2, <3>3
      <4>2. SlotsPerDay * a >= SlotsPerDay * (b + 1)
        BY <3>1, <3>2, <4>1
      <4>3. SlotsPerDay * (b + 1) = SlotsPerDay * b + SlotsPerDay
        BY <3>1, <3>2
      <4> HIDE DEF Day
      <4> QED
        BY <3>1, <3>2, <4>2, <4>3
    <3> QED
      BY <3>2, <3>3 DEF a, b
  <2>3. SearchStart(later, last) = SearchStart(now, last)
    BY <1>3, <2>2 DEF SearchStart
  <2>4. NextWeekly(s, later, last) = NextWeekly(s, now, last)
    BY <2>3 DEF NextWeekly
  <2> QED
    BY <2>1, <2>4
<1> QED
  BY <1>1, <1>2, <1>3, KindOf

\* A schedule stops being due by a job of it, by being removed, or, if it is weekly and has
\* never run, by the end of its day (schedule.py:39-80, scheduler.py:39-60).
THEOREM DueIsNeverDropped == Spec => DueIsKept
<1> DEFINE Kept == \A id \in Id :
             Due(id) => \/ Due(id)'
                        \/ LastRun(id)' # LastRun(id)
                        \/ id \notin active'
                        \/ ForgottenAtMidnight(id)
<1>1. SInv /\ [Next]_vars => Kept
  <2> SUFFICES ASSUME SInv, [Next]_vars, NEW id \in Id, Due(id),
                      LastRun(id)' = LastRun(id), id \in active', ~ForgottenAtMidnight(id)
               PROVE  Due(id)'
    OBVIOUS
  <2>1. clock \in Nat /\ Catalog[id] \in Schedule
    BY Ranges DEF SInv
  <2>2. clock' \in {clock, clock + 1} /\ Catalog' = Catalog
    BY SettingStays DEF Next, Daemon, vars, Start, Install, Enter, LoopHead, TickStart, CheckRaises,
         Check, Run, RecordJob, SetNext, Deactivate, TickEnd, Wake, Restart, Advance, Add, Remove, Crash, Signal
  <2>3. LastRun(id) \in Int
    BY LastRunFacts DEF SInv, None
  <2>4. ~(Catalog[id].kind = "weekly" /\ LastRun(id) = None /\ Day(clock') > Day(clock))
    BY DEF ForgottenAtMidnight
  <2>5. ComputeNextRun(Catalog[id], clock, LastRun(id)) \in 0..clock
    BY DEF Due, NextRun
  <2>6. ComputeNextRun(Catalog[id], clock', LastRun(id)) \in 0..clock'
    BY <2>1, <2>2, <2>3, <2>4, <2>5, DueLater
  <2> QED
    BY <2>2, <2>6 DEF Due, NextRun
<1>2. SInv /\ [Next]_vars => [Kept]_vars
  BY <1>1
<1> QED
  BY <1>2, SchedulerInvariant, PTL DEF Spec, DueIsKept
=============================================================================
