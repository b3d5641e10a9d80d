------------------------------ MODULE Scheduler ------------------------------
(***************************************************************************)
(* The scheduler daemon (automation/scheduler/daemon.py), its tick           *)
(* (scheduler.py) and the tables it keeps (store.py), beside the `kanna      *)
(* scheduler add` and `remove` of other processes, signals, crashes, and a   *)
(* service manager that restarts what failed.                               *)
(*                                                                         *)
(* Each database statement is a transaction of its own, so every one is a    *)
(* step of its own. What on_due() does is AgentLoop; here it takes a step    *)
(* and succeeds or fails.                                                   *)
(***************************************************************************)
EXTENDS Schedules, Sequences, FiniteSets

CONSTANTS
    Settings,       \* the lives of a scheduler to look at, with a bound on the clock for each
    MaxStops        \* bound: crashes

ASSUME SchedulerAssumption ==
    /\ SlotsAssumption
    /\ Settings \subseteq [catalog : Seq(Schedule), maxTime : Nat, maySignal : BOOLEAN]
    /\ MaxStops \in Nat

VARIABLES
    setting,    \* what does not change: see below
    clock,      \* datetime.now(timezone.utc)
    rows,       \* how many rows schedules has; their ids are 1..rows, in insertion order
    active,     \* those with active = 1
    nextRunAt,  \* schedules.next_run_at
    jobs,       \* rows of jobs, in insertion order
    dpc,        \* where the daemon process is
    tickNow,    \* the now of the current tick
    todo,       \* the schedules of list(active_only=True) not yet looked at
    status,     \* the outcome of the job just run
    stop,       \* SchedulerDaemon._stop
    stops,      \* crashes so far
    ran,        \* history: executions of on_due, as <<id, still active>>
    unrecorded, \* history: executions whose job row was never written
    signalled   \* history: a handled signal reached this process

Catalog   == setting.catalog      \* the schedules users add, in a fixed order
MaxTime   == setting.maxTime      \* bound: the clock stops there
MaySignal == setting.maySignal    \* SIGINT or SIGTERM may arrive

Id == DOMAIN Catalog

store   == <<rows, active, nextRunAt, jobs>>
daemon  == <<dpc, tickNow, todo, status, stop>>
history == <<ran, unrecorded, signalled>>
vars    == <<setting, clock, store, daemon, stops, history>>

Job == [id : Id, at : Nat, status : {"succeeded", "failed"}]

Init ==
    /\ setting \in Settings /\ clock = 0
    /\ rows = 0 /\ active = {} /\ nextRunAt = [id \in Id |-> None] /\ jobs = <<>>
    /\ dpc = "down" /\ tickNow = 0 /\ todo = {} /\ status = "none" /\ stop = FALSE
    /\ stops = 0
    /\ ran = <<>> /\ unrecorded = [id \in Id |-> 0] /\ signalled = FALSE

\* store.last_run_at(): the latest ran_at of the schedule's jobs.
LastRun(id) ==
    LET at == {jobs[i].at : i \in {j \in DOMAIN jobs : jobs[j].id = id}}
    IN  IF at = {} THEN None ELSE CHOOSE t \in at : \A u \in at : u <= t

\* The schedule tick() is at.
current == CHOOSE id \in todo : \A other \in todo : id <= other

NextRun(id, now, last) == ComputeNextRun(Catalog[id], now, last)

-----------------------------------------------------------------------------
(* Other processes, the clock, and the service manager. *)

Advance ==
    /\ clock < MaxTime
    /\ clock' = clock + 1
    /\ UNCHANGED <<setting, store, daemon, stops, history>>

\* store.create(): a new active row without next_run_at.
Add ==
    /\ rows < Len(Catalog)
    /\ rows' = rows + 1
    /\ active' = active \cup {rows + 1}
    /\ UNCHANGED <<setting, clock, nextRunAt, jobs, daemon, stops, history>>

\* `kanna scheduler remove`: set_active(id, False).
Remove ==
    /\ \E id \in active : active' = active \ {id}
    /\ UNCHANGED <<setting, clock, rows, nextRunAt, jobs, daemon, stops, history>>

\* The unit is started, or started again after a crash or a failure. _cmd_daemon
\* builds the SchedulerDaemon.
Start ==
    /\ dpc = "down"
    /\ dpc' = "built" /\ stop' = FALSE /\ signalled' = FALSE
    /\ UNCHANGED <<setting, clock, store, tickNow, todo, status, stops, ran, unrecorded>>

InProcess == dpc \notin {"down", "stopped"}

\* The process is killed.
Crash ==
    /\ InProcess /\ dpc # "raised" /\ stops < MaxStops
    /\ dpc' = "down" /\ stops' = stops + 1
    /\ unrecorded' = IF dpc = "record" THEN [unrecorded EXCEPT ![current] = @ + 1] ELSE unrecorded
    /\ todo' = {} /\ status' = "none"
    /\ UNCHANGED <<setting, clock, store, tickNow, stop, ran, signalled>>

\* Restart=on-failure, after an exception that left the process.
Restart ==
    /\ dpc = "raised"
    /\ dpc' = "down" /\ todo' = {}
    /\ UNCHANGED <<setting, clock, store, tickNow, status, stop, stops, history>>

\* SIGINT or SIGTERM once the handlers are installed: daemon.stop().
Signal ==
    /\ MaySignal /\ InProcess /\ dpc \notin {"built", "raised"} /\ ~signalled
    /\ stop' = TRUE /\ signalled' = TRUE
    /\ UNCHANGED <<setting, clock, store, dpc, tickNow, todo, status, stops, ran, unrecorded>>

-----------------------------------------------------------------------------
(* The daemon. *)

Install ==
    /\ dpc = "built"
    /\ dpc' = "installed"
    /\ UNCHANGED <<setting, clock, store, tickNow, todo, status, stop, stops, history>>

\* run_forever(): self._stop = False
Enter ==
    /\ dpc = "installed"
    /\ stop' = FALSE /\ dpc' = "loop"
    /\ UNCHANGED <<setting, clock, store, tickNow, todo, status, stops, history>>

LoopHead ==
    /\ dpc = "loop"
    /\ dpc' = IF stop THEN "stopped" ELSE "list"
    /\ UNCHANGED <<setting, clock, store, tickNow, todo, status, stop, stops, history>>

\* list(active_only=True), whose rows come in the order of their insertion.
Listed == active

\* tick(): the current time and the list are read once.
TickStart ==
    /\ dpc = "list"
    /\ tickNow' = clock /\ todo' = Listed /\ dpc' = "check"
    /\ UNCHANGED <<setting, clock, store, status, stop, stops, history>>

\* An exception of is_due() leaves tick() and the process.
CheckRaises ==
    /\ dpc = "check" /\ todo # {}
    /\ NextRun(current, tickNow, LastRun(current)) = Raises
    /\ dpc' = "raised"
    /\ UNCHANGED <<setting, clock, store, tickNow, todo, status, stop, stops, history>>

\* Fault: a schedule that is not due ends the tick.
CheckBreaks ==
    /\ dpc = "check" /\ todo # {}
    /\ NextRun(current, tickNow, LastRun(current)) # Raises
    /\ IF IsDue(Catalog[current], tickNow, LastRun(current))
       THEN dpc' = "run" /\ UNCHANGED todo
       ELSE dpc' = "check" /\ todo' = {}
    /\ UNCHANGED <<setting, clock, store, tickNow, status, stop, stops, history>>

Check ==
    /\ dpc = "check" /\ todo # {}
    /\ NextRun(current, tickNow, LastRun(current)) # Raises
    /\ IF IsDue(Catalog[current], tickNow, LastRun(current))
       THEN dpc' = "run" /\ UNCHANGED todo
       ELSE dpc' = "check" /\ todo' = todo \ {current}
    /\ UNCHANGED <<setting, clock, store, tickNow, status, stop, stops, history>>

\* on_due(): the whole agent run, whose exceptions are caught.
Run ==
    /\ dpc = "run"
    /\ status' \in {"succeeded", "failed"}
    /\ ran' = Append(ran, <<current, current \in active>>)
    /\ dpc' = "record"
    /\ UNCHANGED <<setting, clock, store, tickNow, todo, stop, stops, unrecorded, signalled>>

\* Fault: only what succeeded is recorded.
RecordSuccess ==
    /\ dpc = "record"
    /\ jobs' = IF status = "failed" THEN jobs
               ELSE Append(jobs, [id |-> current, at |-> tickNow, status |-> status])
    /\ dpc' = "set_next"
    /\ UNCHANGED <<setting, clock, rows, active, nextRunAt, tickNow, todo, status, stop, stops, history>>

RecordJob ==
    /\ dpc = "record"
    /\ jobs' = Append(jobs, [id |-> current, at |-> tickNow, status |-> status])
    /\ dpc' = "set_next"
    /\ UNCHANGED <<setting, clock, rows, active, nextRunAt, tickNow, todo, status, stop, stops, history>>

\* compute_next_run() and set_next_run_at(). What is wrong with a schedule was mostly
\* met by is_due() in this tick.
SetNext ==
    /\ dpc = "set_next"
    /\ LET next == NextRun(current, tickNow, tickNow) IN
       /\ nextRunAt' = IF next = Raises THEN nextRunAt ELSE [nextRunAt EXCEPT ![current] = next]
       /\ dpc' = IF next = Raises THEN "raised" ELSE IF next = None THEN "deactivate" ELSE "check"
       /\ todo' = IF next \in {Raises, None} THEN todo ELSE todo \ {current}
    /\ UNCHANGED <<setting, clock, rows, active, jobs, tickNow, status, stop, stops, history>>

Deactivate ==
    /\ dpc = "deactivate"
    /\ active' = active \ {current}
    /\ dpc' = "check" /\ todo' = todo \ {current}
    /\ UNCHANGED <<setting, clock, rows, nextRunAt, jobs, tickNow, status, stop, stops, history>>

\* The tick is over: the first look at _stop since it began.
TickEnd ==
    /\ dpc = "check" /\ todo = {}
    /\ dpc' = IF stop THEN "stopped" ELSE "sleep"
    /\ UNCHANGED <<setting, clock, store, tickNow, todo, status, stop, stops, history>>

\* Fault: the sleep is a wait on the flag, which is cleared after it.
WakeClears ==
    /\ dpc = "sleep"
    /\ dpc' = "loop" /\ stop' = FALSE
    /\ UNCHANGED <<setting, clock, store, tickNow, todo, status, stops, history>>

\* time.sleep(interval) runs to its end, signal or not.
Wake ==
    /\ dpc = "sleep"
    /\ dpc' = "loop"
    /\ UNCHANGED <<setting, clock, store, tickNow, todo, status, stop, stops, history>>

Daemon ==
    \/ Start \/ Install \/ Enter \/ LoopHead \/ TickStart \/ CheckRaises \/ Check \/ Run
    \/ RecordJob \/ SetNext \/ Deactivate \/ TickEnd \/ Wake

Next == Daemon \/ Restart \/ Advance \/ Add \/ Remove \/ Crash \/ Signal

\* The service manager starts the unit, the process is scheduled and a sleep
\* ends.
Spec == Init /\ [][Next]_vars /\ WF_vars(Daemon) /\ WF_vars(Restart)

-----------------------------------------------------------------------------
(* Properties. *)

SchedulerTypeOK ==
    /\ setting \in Settings /\ clock \in 0..MaxTime
    /\ rows \in 0..Len(Catalog) /\ active \subseteq 1..rows
    /\ nextRunAt \in [Id -> Int]
    /\ jobs \in Seq(Job)
    /\ dpc \in {"down", "built", "installed", "loop", "list", "check", "run", "record", "set_next",
                "deactivate", "sleep", "stopped", "raised"}
    /\ tickNow \in 0..MaxTime /\ todo \subseteq 1..rows
    /\ status \in {"none", "succeeded", "failed"}
    /\ stop \in BOOLEAN /\ stops \in 0..MaxStops
    /\ ran \in Seq(Id \X BOOLEAN) /\ unrecorded \in [Id -> Nat] /\ signalled \in BOOLEAN

\* The last job of the same schedule before job i, or None.
EarlierRun(i) ==
    LET at == {jobs[j].at : j \in {k \in 1..(i - 1) : jobs[k].id = jobs[i].id}}
    IN  IF at = {} THEN None ELSE CHOOSE t \in at : \A u \in at : u <= t

\* The times at which a schedule asks to be run, for those that do not depend
\* on when it ran before.
Occurrence(s) ==
    IF s.kind = "once" THEN {s.at}
    ELSE {t \in 0..MaxTime : t % SlotsPerDay = s.at /\ Fires(s, Day(t))}

\* A job answers an occurrence that no earlier job answered: restarts, crashes
\* between the statements and late ticks never run the same occurrence twice.
\* Jobs of an interval schedule are at least its seconds apart (schedule.py:50).
OncePerOccurrence ==
    \A i \in DOMAIN jobs :
        LET s == Catalog[jobs[i].id] IN
        IF s.kind = "interval"
        THEN EarlierRun(i) # None => jobs[i].at >= EarlierRun(i) + s.seconds
        ELSE \E t \in Occurrence(s) : EarlierRun(i) < t /\ t <= jobs[i].at

\* A "once" schedule is executed once, whether it succeeds or fails, and once
\* more only for a crash between its execution and the row that records it.
OnceUnlessInterrupted ==
    \A id \in Id :
        Catalog[id].kind = "once" =>
            Cardinality({i \in DOMAIN ran : ran[i][1] = id}) <= 1 + unrecorded[id]

\* An active schedule that is_due() would answer True for now.
Due(id) == id \in active /\ NextRun(id, clock, LastRun(id)) \in 0..clock

\* A weekly schedule that has never run is only looked for from today on
\* (schedule.py:64): at midnight its occurrence of that day is forgotten.
ForgottenAtMidnight(id) ==
    Catalog[id].kind = "weekly" /\ LastRun(id) = None /\ Day(clock') > Day(clock)

\* What is due stops being due in three ways only: a job of it is recorded, it is
\* removed, or it is a weekly schedule that has never run and its day is over before a
\* tick got to it, with the daemon up as well as down. That occurrence is never run.
DueIsKept ==
    [][\A id \in Id :
         Due(id) => \/ Due(id)'
                    \/ LastRun(id)' # LastRun(id)
                    \/ id \notin active'
                    \/ ForgottenAtMidnight(id)]_vars

\* As long as the daemon is not told to stop, nothing stays due, whatever becomes of the
\* schedules before it in the tick (scheduler.py:49); and it is not lost, but for the
\* exceptions of DueIsKept.
DueIsRun ==
    /\ \A id \in UNION {DOMAIN each.catalog : each \in Settings} :
          Due(id) ~> (dpc = "stopped" \/ ~Due(id))
    /\ DueIsKept

\* A stop requested inside run_forever() ends it. One requested between the
\* installation of the handlers and run_forever()'s first line is forgotten.
StopEndsLoop ==
    stop /\ dpc \notin {"down", "built", "installed"} ~> dpc \in {"stopped", "raised", "down"}
=============================================================================
