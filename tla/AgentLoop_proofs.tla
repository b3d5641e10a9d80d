-------------------------- MODULE AgentLoop_proofs --------------------------
(***************************************************************************)
(* Proofs about AgentLoop, for every registry, plan set, schema, correction  *)
(* budget and gate, and about RunHistory, the reader beside such a run.      *)
(***************************************************************************)
EXTENDS RunHistory, SequenceTheorems, TLAPS

InCall == {"invoke", "trust", "gate", "execute", "finish", "check", "revise"}

AtStep == InCall \cup {"bind", "record"}

\* What the agent thread's position says about the plan, the arguments and the
\* result of the call in progress.
Position ==
    /\ pc \in {"insert", "insert_step", "next", "settle"} \cup AtStep => plan \in Plans
    /\ pc = "next" => idx \in 1..(Len(plan) + 1)
    /\ pc \in AtStep \cup {"settle"} => idx \in 1..Len(plan)
    /\ pc \in InCall => args \in Args
    /\ pc \in {"finish", "check"} => code \in BodyResult \cup Refused

\* What it says about the rows written so far.
Progress ==
    /\ pc \in {"plan", "insert"} => planRow = "none" /\ rows = <<>>
    /\ pc = "insert_step" =>
          /\ planRow = "in_progress" /\ Len(rows) < Len(plan)
          /\ \A i \in 1..Len(rows) : rows[i] = "pending"
    /\ pc \in {"next", "settle"} \cup AtStep =>
          /\ planRow = "in_progress" /\ Len(rows) = Len(plan)
          /\ \A i \in 1..Len(rows) : (i < idx => rows[i] = "ok") /\ (i > idx => rows[i] = "pending")
    /\ pc \in {"next"} \cup AtStep /\ idx \in 1..Len(rows) => rows[idx] = "pending"
    /\ pc = "settle" => rows[idx] = "failed"

IInv == TypeOK /\ Position /\ Progress /\ RowsInOrder /\ StatusHonest

-----------------------------------------------------------------------------

LEMMA PlansAreSequences == \A p \in Plans : p \in Seq(PlanStep) /\ p # <<>> /\ Len(p) \in Nat \ {0}
<1>1. \A p \in Plans : p \in Seq(PlanStep) /\ p # <<>>
  BY LoopAssumption DEF LoopAssumption, ValidPlan
<1> QED
  BY <1>1, EmptySeq

LEMMA StepIsTyped ==
    ASSUME NEW p \in Plans, NEW i \in 1..Len(p)
    PROVE  p[i].tool \in Tools /\ p[i].args \in Args \cup {Ref}
<1>1. p[i] \in PlanStep
  BY PlansAreSequences, ElementOfSeq
<1> QED
  BY <1>1 DEF PlanStep

LEMMA InitIInv == Init => IInv
<1> SUFFICES ASSUME Init PROVE IInv
  OBVIOUS
<1>1. TypeOK
  <2>1. trust \in SUBSET TrustRule /\ gate \in FallbackGate
    BY LoopAssumption DEF Init, LoopAssumption
  <2>2. /\ plan \in Seq(PlanStep) /\ calls \in Seq(Call)
        /\ rows \in Seq({"pending", "ok", "failed"})
        /\ log \in Seq(LogEntry)
    BY EmptySeq DEF Init
  <2> QED
    BY <2>1, <2>2 DEF Init, TypeOK, Ended
<1>2. Position /\ Progress
  BY DEF Init, Position, Progress, AtStep, InCall
<1>3. RowsInOrder /\ StatusHonest
  BY DEF Init, RowsInOrder, StatusHonest
<1> QED
  BY <1>1, <1>2, <1>3 DEF IInv

LEMMA TypeStep == ASSUME IInv, [Next]_vars PROVE TypeOK'
<1>0. TypeOK /\ Position
  BY DEF IInv
<1>1. CASE UNCHANGED vars
  BY <1>0, <1>1 DEF TypeOK, vars
<1>2. CASE Planning
  <2>1. CASE PlanBlocked
    BY <1>0, <2>1 DEF PlanBlocked, TypeOK, Ended, db, history
  <2>2. CASE PlanMade
    BY <1>0, <2>2, PlansAreSequences DEF PlanMade, TypeOK, Ended, db, history
  <2>3. CASE InsertPlan
    BY <1>0, <2>3 DEF InsertPlan, TypeOK, Ended, db, history
  <2>4. CASE InsertStep
    <3>1. rows' \in Seq({"pending", "ok", "failed"})
      BY <1>0, <2>4, AppendProperties DEF InsertStep, TypeOK
    <3> QED
      BY <1>0, <2>4, <3>1 DEF InsertStep, TypeOK, Ended, db, history
  <2> QED
    BY <1>2, <2>1, <2>2, <2>3, <2>4 DEF Planning
<1>3. CASE Stepping
  <2>1. CASE Complete
    BY <1>0, <2>1 DEF Complete, Return, TypeOK, Ended, db, history
  <2>2. CASE CancelledBeforeStep
    BY <1>0, <2>2 DEF CancelledBeforeStep, Return, TypeOK, Ended, db, history
  <2>3. CASE NextStep
    BY <1>0, <2>3 DEF NextStep, TypeOK, Ended, db, history
  <2>4. CASE Bind
    <3>1. args' \in Args \cup {Ref}
      BY <1>0, <2>4, StepIsTyped DEF Bind, Position, AtStep
    <3> QED
      BY <1>0, <2>4, <3>1 DEF Bind, TypeOK, Ended, db, history
  <2>5. CASE BindFails
    BY <1>0, <2>5 DEF BindFails, TypeOK, Ended, db, history
  <2> QED
    BY <1>3, <2>1, <2>2, <2>3, <2>4, <2>5 DEF Stepping
<1>4. CASE Invoking \/ GateGrants \/ UserDenies
  <2>1. CASE InvalidInput \/ PolicyDenies
    BY <1>0, <2>1 DEF InvalidInput, PolicyDenies, Refuse, Refused, TypeOK, Ended, db, history
  <2>2. CASE PolicyDecides
    BY <1>0, <2>2 DEF PolicyDecides, TypeOK, Ended, db, history
  <2>3. CASE AskTrustStore
    BY <1>0, <2>3 DEF AskTrustStore, Trusted, TypeOK, Ended, db, history
  <2>4. CASE GateGrants
    BY <1>0, <2>4 DEF GateGrants, TypeOK, Ended, db, history
  <2>5. CASE UserDenies \/ GateDeniesAlone
    BY <1>0, <2>5 DEF UserDenies, GateDeniesAlone, GateAnswersNo, Refused, TypeOK, Ended, db, history
  <2>6. CASE Execute
    BY <1>0, <2>6 DEF Execute, TypeOK, Ended, db, history
  <2>7. CASE Finish
    <3>1. log' \in Seq(LogEntry) /\ lost' \in Nat
      <4>1. <<idx, Logged(code)>> \in LogEntry
        BY <1>0, <2>7 DEF Finish, Position, TypeOK, Logged, LogEntry
      <4>2. Append(log, <<idx, Logged(code)>>) \in Seq(LogEntry)
        BY <1>0, <4>1, AppendProperties DEF TypeOK
      <4>3. \/ log' = Append(log, <<idx, Logged(code)>>) /\ lost' = lost
            \/ log' = log /\ lost' = lost + 1
        BY <2>7 DEF Finish
      <4>4. log \in Seq(LogEntry) /\ lost \in Nat
        BY <1>0 DEF TypeOK
      <4> QED
        <5>1. CASE log' = Append(log, <<idx, Logged(code)>>) /\ lost' = lost
          BY <4>2, <4>4, <5>1
        <5>2. CASE log' = log /\ lost' = lost + 1
          BY <4>4, <5>2
        <5> QED
          BY <4>3, <5>1, <5>2
    <3>2. calls' \in Seq(Call)
      <4>1. tool \in Tools /\ args \in Args
        BY <1>0, <2>7, StepIsTyped DEF Finish, Position, AtStep, InCall, tool
      <4>2. [step |-> idx, tool |-> tool, args |-> args, code |-> code,
             granted |-> granted, late |-> late] \in Call
        BY <1>0, <2>7, <4>1 DEF Finish, Position, TypeOK, Call
      <4> QED
        BY <1>0, <2>7, <4>2, AppendProperties DEF Finish, TypeOK
    <3> QED
      BY <1>0, <2>7, <3>1, <3>2 DEF Finish, TypeOK, Ended
  <2> QED
    BY <1>4, <2>1, <2>2, <2>3, <2>4, <2>5, <2>6, <2>7 DEF Invoking
<1>5. CASE Judging
  <2>1. CASE StepOver \/ StartCorrection
    BY <1>0, <2>1 DEF StepOver, StartCorrection, TypeOK, Ended, db, history
  <2>2. CASE Revise
    <3>1. args' \in Args \cup {Ref}
      BY <1>0, <2>2 DEF Revise, TypeOK
    <3> QED
      BY <1>0, <2>2, <3>1 DEF Revise, TypeOK, Ended, db, history
  <2>3. CASE Record
    <3>1. rows' \in Seq({"pending", "ok", "failed"})
      <4> DEFINE outcome == IF code = "verified" THEN "ok" ELSE "failed"
      <4>1. idx \in 1..Len(rows) /\ outcome \in {"pending", "ok", "failed"}
        BY <2>3 DEF IInv, Progress, Position, Record, AtStep
      <4>2. [rows EXCEPT ![idx] = outcome] \in Seq({"pending", "ok", "failed"})
        BY <1>0, <4>1, ExceptSeq DEF TypeOK
      <4> QED
        BY <2>3, <4>2 DEF Record
    <3> QED
      BY <1>0, <2>3, <3>1 DEF Record, TypeOK, Ended, history
  <2>4. CASE Settle
    BY <1>0, <2>4 DEF Settle, Return, TypeOK, Ended, history
  <2> QED
    BY <1>5, <2>1, <2>2, <2>3, <2>4 DEF Judging
<1>6. CASE Raise \/ Crash
  BY <1>0, <1>6 DEF Raise, Crash, TypeOK, Ended, db, history
<1>7. CASE RequestCancel
  BY <1>0, <1>7 DEF RequestCancel, TypeOK, Ended, ctl, db, history
<1>8. CASE EditTrust
  <2>1. GrantableRules \subseteq TrustRule
    BY LoopAssumption DEF LoopAssumption
  <2> QED
    BY <1>0, <1>8, <2>1 DEF EditTrust, TypeOK, Ended, ctl, db, history
<1> QED
  BY <1>1, <1>2, <1>3, <1>4, <1>5, <1>6, <1>7, <1>8 DEF Next, Agent, User

LEMMA PositionStep == ASSUME IInv, [Next]_vars PROVE Position'
<1>0. TypeOK /\ Position /\ Progress
  BY DEF IInv
<1>1. CASE UNCHANGED vars
  BY <1>0, <1>1 DEF Position, AtStep, InCall, vars
<1>2. CASE Planning
  <2>1. CASE PlanBlocked \/ PlanMade \/ InsertPlan
    BY <1>0, <2>1 DEF PlanBlocked, PlanMade, InsertPlan, Position, AtStep, InCall
  <2>2. CASE InsertStep
    BY <1>0, <2>2, PlansAreSequences DEF InsertStep, Position, AtStep, InCall
  <2> QED
    BY <1>2, <2>1, <2>2 DEF Planning
<1>3. CASE Stepping
  <2>1. CASE Complete \/ CancelledBeforeStep
    BY <1>0, <2>1 DEF Complete, CancelledBeforeStep, Return, Position, AtStep, InCall
  <2>2. CASE NextStep
    BY <1>0, <2>2, PlansAreSequences DEF NextStep, Position, AtStep, InCall
  <2>3. CASE Bind
    <3>1. args' \in Args
      BY <1>0, <2>3, StepIsTyped DEF Bind, Position, AtStep
    <3> QED
      BY <1>0, <2>3, <3>1 DEF Bind, Position, AtStep, InCall
  <2>4. CASE BindFails
    BY <1>0, <2>4 DEF BindFails, Position, AtStep, InCall
  <2> QED
    BY <1>3, <2>1, <2>2, <2>3, <2>4 DEF Stepping
<1>4. CASE Invoking \/ GateGrants \/ UserDenies
  <2>1. CASE InvalidInput \/ PolicyDenies
    BY <1>0, <2>1 DEF InvalidInput, PolicyDenies, Refuse, Refused, Position, AtStep, InCall
  <2>2. CASE PolicyDecides
    BY <1>0, <2>2 DEF PolicyDecides, Position, AtStep, InCall
  <2>3. CASE AskTrustStore
    BY <1>0, <2>3 DEF AskTrustStore, Position, AtStep, InCall
  <2>4. CASE GateGrants
    BY <1>0, <2>4 DEF GateGrants, Position, AtStep, InCall
  <2>5. CASE UserDenies \/ GateDeniesAlone
    BY <1>0, <2>5 DEF UserDenies, GateDeniesAlone, GateAnswersNo, Refused, Position, AtStep, InCall
  <2>6. CASE Execute
    BY <1>0, <2>6 DEF Execute, Position, AtStep, InCall
  <2>7. CASE Finish
    BY <1>0, <2>7 DEF Finish, Position, AtStep, InCall
  <2> QED
    BY <1>4, <2>1, <2>2, <2>3, <2>4, <2>5, <2>6, <2>7 DEF Invoking
<1>5. CASE Judging
  <2>1. CASE StepOver \/ StartCorrection
    BY <1>0, <2>1 DEF StepOver, StartCorrection, Position, AtStep, InCall
  <2>2. CASE Revise
    BY <1>0, <2>2 DEF Revise, Position, AtStep, InCall
  <2>3. CASE Record
    BY <1>0, <2>3, PlansAreSequences DEF Record, Position, AtStep, InCall
  <2>4. CASE Settle
    BY <1>0, <2>4 DEF Settle, Return, Position, AtStep, InCall
  <2> QED
    BY <1>5, <2>1, <2>2, <2>3, <2>4 DEF Judging
<1>6. CASE Raise \/ Crash
  BY <1>0, <1>6 DEF Raise, Crash, Position, AtStep, InCall
<1>7. CASE RequestCancel \/ EditTrust
  BY <1>0, <1>7 DEF RequestCancel, EditTrust, ctl, Position, AtStep, InCall
<1> QED
  BY <1>1, <1>2, <1>3, <1>4, <1>5, <1>6, <1>7 DEF Next, Agent, User

\* The six actions that write a plans or plan_steps row.
Writes == InsertPlan \/ InsertStep \/ Complete \/ CancelledBeforeStep \/ Record \/ Settle

LEMMA QuietStep ==
    ASSUME [Next]_vars, ~Writes
    PROVE  /\ UNCHANGED <<planRow, rows>>
           /\ UNCHANGED plan \/ pc = "plan"
<1>1. CASE UNCHANGED vars
  BY <1>1 DEF vars
<1>2. CASE Planning \/ Stepping
  BY <1>2 DEF Writes, Planning, Stepping, PlanBlocked, PlanMade, NextStep, Bind, BindFails, db
<1>3. CASE Invoking
  BY <1>3 DEF Invoking, InvalidInput, PolicyDenies, PolicyDecides, Refuse, AskTrustStore,
              GateDeniesAlone, GateAnswersNo, Execute, Finish, db
<1>4. CASE Judging
  BY <1>4 DEF Writes, Judging, StepOver, StartCorrection, Revise, db
<1>5. CASE User
  BY <1>5 DEF User, GateGrants, UserDenies, GateAnswersNo, RequestCancel, EditTrust, db
<1>6. CASE Raise \/ Crash
  BY <1>6 DEF Raise, Crash, db
<1> QED
  BY <1>1, <1>2, <1>3, <1>4, <1>5, <1>6 DEF Next, Agent

LEMMA RecordWrites ==
    ASSUME IInv, Record
    PROVE  /\ idx \in 1..Len(rows) /\ Len(rows') = Len(rows) /\ rows' \in Seq({"pending", "ok", "failed"})
           /\ \A j \in 1..Len(rows) :
                 rows'[j] = IF j = idx THEN IF code = "verified" THEN "ok" ELSE "failed" ELSE rows[j]
<1> DEFINE outcome == IF code = "verified" THEN "ok" ELSE "failed"
<1>1. idx \in 1..Len(rows) /\ outcome \in {"pending", "ok", "failed"}
  BY DEF IInv, Progress, Position, Record, AtStep
<1>2. rows \in Seq({"pending", "ok", "failed"})
  BY DEF IInv, TypeOK
<1>3. rows' = [rows EXCEPT ![idx] = outcome]
  BY DEF Record
<1> HIDE DEF outcome
<1>4. /\ rows' \in Seq({"pending", "ok", "failed"}) /\ Len(rows') = Len(rows)
      /\ \A j \in 1..Len(rows) : rows'[j] = IF j = idx THEN outcome ELSE rows[j]
  BY <1>1, <1>2, <1>3, ExceptSeq
<1> QED
  BY <1>1, <1>4 DEF outcome

LEMMA InsertWrites ==
    ASSUME IInv, InsertStep
    PROVE  /\ Len(rows') = Len(rows) + 1
           /\ \A j \in 1..Len(rows') : rows'[j] = "pending"
<1>1. rows \in Seq({"pending", "ok", "failed"}) /\ \A i \in 1..Len(rows) : rows[i] = "pending"
  BY DEF IInv, TypeOK, Progress, InsertStep
<1>2. rows' = Append(rows, "pending")
  BY DEF InsertStep
<1> QED
  BY <1>1, <1>2, AppendProperties

LEMMA ProgressStep == ASSUME IInv, [Next]_vars PROVE Progress'
<1>0. TypeOK /\ Position /\ Progress /\ Len(rows) \in Nat /\ Len(plan) \in Nat /\ idx \in Nat
  BY LenProperties DEF IInv, TypeOK
<1>1. CASE UNCHANGED vars
  BY <1>0, <1>1 DEF Progress, AtStep, InCall, vars
<1>2. CASE Planning
  <2>1. CASE PlanBlocked \/ PlanMade
    BY <1>0, <2>1 DEF PlanBlocked, PlanMade, Progress, AtStep, InCall, db
  <2>2. CASE InsertPlan
    BY <1>0, <2>2, PlansAreSequences, EmptySeq DEF InsertPlan, Progress, Position, AtStep, InCall
  <2>3. CASE InsertStep
    <3>1. plan' = plan /\ planRow' = "in_progress" /\ Len(rows') <= Len(plan)
      BY <1>0, <2>3, InsertWrites DEF InsertStep, Progress
    <3>2. CASE Len(rows') = Len(plan)
      BY <2>3, <3>1, <3>2, InsertWrites DEF InsertStep, Progress, AtStep, InCall
    <3>3. CASE Len(rows') # Len(plan)
      BY <1>0, <2>3, <3>1, <3>3, InsertWrites DEF InsertStep, Progress, AtStep, InCall
    <3> QED
      BY <3>2, <3>3
  <2> QED
    BY <1>2, <2>1, <2>2, <2>3 DEF Planning
<1>3. CASE Stepping
  BY <1>0, <1>3 DEF Stepping, Complete, CancelledBeforeStep, Return, NextStep, Bind, BindFails,
                    Progress, AtStep, InCall, db
<1>4. CASE Invoking \/ GateGrants \/ UserDenies
  BY <1>0, <1>4 DEF Invoking, InvalidInput, PolicyDenies, PolicyDecides, Refuse, AskTrustStore, GateGrants,
                    UserDenies, GateDeniesAlone, GateAnswersNo, Execute, Finish, Progress, AtStep, InCall, db
<1>5. CASE Judging
  <2>1. CASE StepOver \/ StartCorrection \/ Revise
    BY <1>0, <2>1 DEF StepOver, StartCorrection, Revise, Progress, AtStep, InCall, db
  <2>2. CASE Record
    <3>1. plan' = plan /\ planRow' = "in_progress" /\ Len(rows') = Len(plan)
      BY <1>0, <2>2, RecordWrites DEF Record, Progress, AtStep
    <3>2. CASE code = "verified"
      BY <1>0, <2>2, <3>1, <3>2, RecordWrites DEF Record, Progress, AtStep, InCall
    <3>3. CASE code # "verified"
      BY <1>0, <2>2, <3>1, <3>3, RecordWrites DEF Record, Progress, AtStep, InCall
    <3> QED
      BY <3>2, <3>3
  <2>3. CASE Settle
    BY <1>0, <2>3 DEF Settle, Return, Progress, AtStep, InCall
  <2> QED
    BY <1>5, <2>1, <2>2, <2>3 DEF Judging
<1>6. CASE Raise \/ Crash
  BY <1>0, <1>6 DEF Raise, Crash, Progress, AtStep, InCall, db
<1>7. CASE RequestCancel \/ EditTrust
  BY <1>0, <1>7 DEF RequestCancel, EditTrust, ctl, db, Progress, AtStep, InCall
<1> QED
  BY <1>1, <1>2, <1>3, <1>4, <1>5, <1>6, <1>7 DEF Next, Agent, User

LEMMA SafetyStep == ASSUME IInv, [Next]_vars PROVE RowsInOrder' /\ StatusHonest'
<1>0. /\ TypeOK /\ Position /\ Progress /\ RowsInOrder /\ StatusHonest
      /\ Len(rows) \in Nat /\ DOMAIN rows = 1..Len(rows) /\ idx \in Nat
  BY LenProperties DEF IInv, TypeOK
<1>1. CASE ~Writes
  <2>1. UNCHANGED <<planRow, rows>> /\ (UNCHANGED plan \/ planRow = "none")
    BY <1>0, <1>1, QuietStep DEF Progress
  <2> QED
    BY <1>0, <2>1 DEF RowsInOrder, StatusHonest
<1>2. CASE InsertPlan
  BY <1>0, <1>2 DEF InsertPlan, RowsInOrder, StatusHonest
<1>3. CASE InsertStep
  <2>1. DOMAIN rows' = 1..Len(rows')
    BY <1>3, <1>0, AppendProperties, LenProperties DEF InsertStep, TypeOK
  <2>2. planRow' = "in_progress"
    BY <1>0, <1>3 DEF InsertStep, Progress
  <2> QED
    BY <1>3, <2>1, <2>2, InsertWrites DEF RowsInOrder, StatusHonest
<1>4. CASE Complete
  <2>1. UNCHANGED <<rows, plan>> /\ planRow' = "complete"
    BY <1>4 DEF Complete, Return
  <2>2. Len(rows) = Len(plan) /\ \A i \in DOMAIN rows : rows[i] = "ok"
    BY <1>0, <1>4 DEF Complete, Progress, Position
  <2> QED
    BY <1>0, <2>1, <2>2 DEF RowsInOrder, StatusHonest
<1>5. CASE CancelledBeforeStep
  BY <1>0, <1>5 DEF CancelledBeforeStep, Return, RowsInOrder, StatusHonest
<1>6. CASE Record
  <2>1. DOMAIN rows' = 1..Len(rows)
    BY <1>6, RecordWrites, LenProperties
  <2>2. planRow' = "in_progress"
    BY <1>0, <1>6 DEF Record, Progress, AtStep
  <2>3. \A i \in 1..Len(rows) : (i < idx => rows[i] = "ok") /\ (i > idx => rows[i] = "pending")
    BY <1>0, <1>6 DEF Record, Progress, AtStep
  <2> QED
    BY <1>0, <1>6, <2>1, <2>2, <2>3, RecordWrites DEF RowsInOrder, StatusHonest
<1>7. CASE Settle
  <2>1. UNCHANGED <<rows, plan>> /\ planRow' \in {"failed", "cancelled"}
    BY <1>7 DEF Settle, Return
  <2>2. idx \in DOMAIN rows /\ rows[idx] = "failed"
    BY <1>0, <1>7 DEF Settle, Progress, Position
  <2> QED
    BY <1>0, <2>1, <2>2 DEF RowsInOrder, StatusHonest
<1> QED
  BY <1>1, <1>2, <1>3, <1>4, <1>5, <1>6, <1>7 DEF Writes

\* Every run keeps its types, its step rows in order and its status honest,
\* whichever way it is interrupted (AgentLoop.run, PlanRepository).
THEOREM RunInvariant == Spec => []IInv
<1>1. IInv /\ [Next]_vars => IInv'
  BY TypeStep, PositionStep, ProgressStep, SafetyStep DEF IInv
<1> QED
  BY <1>1, InitIInv, PTL DEF Spec

\* Each variable of the loop keeps its type.
THEOREM TypeCorrect == Spec => []TypeOK
<1>1. IInv => TypeOK
  BY DEF IInv
<1> QED
  BY <1>1, RunInvariant, PTL

\* The step rows are "ok" up to a point, then at most one "failed", then "pending".
THEOREM RowsStayInOrder == Spec => []RowsInOrder
<1>1. IInv => RowsInOrder
  BY DEF IInv
<1> QED
  BY <1>1, RunInvariant, PTL

\* plans.status never claims more than plan_steps shows.
THEOREM StatusStaysHonest == Spec => []StatusHonest
<1>1. IInv => StatusHonest
  BY DEF IInv
<1> QED
  BY <1>1, RunInvariant, PTL
-----------------------------------------------------------------------------
(***************************************************************************)
(* The calls. IInv does not speak of them; CInv adds what the thread's place *)
(* says about the calls already made and about the one in progress.          *)
(***************************************************************************)

\* Places from which the thread will still invoke, or is invoking, a tool for the step.
Fresh == {"invoke", "trust", "gate", "execute", "finish", "revise"}

\* The last finished call is the one _run_step() is judging.
JustCalled ==
    calls # <<>> /\ calls[Len(calls)].step = idx /\ calls[Len(calls)].code = code

\* A body that runs was let run, and a person is only asked when the policy says so.
LetRun ==
    /\ pc \in {"trust", "gate"} => Decide(tool, args) = "require_approval"
    /\ pc = "execute" \/ (pc = "finish" /\ code \in BodyResult) =>
        \/ Decide(tool, args) = "allow"
        \/ Decide(tool, args) = "require_approval" /\ granted

\* The step each finished call belongs to.
CallsSoFar ==
    /\ \A k \in DOMAIN calls : calls[k].step <= idx
    /\ pc \in {"plan", "insert", "insert_step"} => calls = <<>>
    /\ pc \in {"next", "bind"} => \A k \in DOMAIN calls : calls[k].step < idx
    /\ pc \in Fresh =>
        \A k \in DOMAIN calls : calls[k].step = idx => calls[k].code \notin Succeeded
    /\ pc = "check" => JustCalled
    /\ pc = "record" =>
        \/ JustCalled
        \/ code = "binding_failed" /\ \A k \in DOMAIN calls : calls[k].step < idx

\* The thread does not get past a refusal or a cancelled call.
NothingFollows ==
    /\ pc \in {"next", "bind"} \cup Fresh => \A k \in DOMAIN calls : calls[k].code \notin Refused
    /\ pc \in {"bind"} \cup Fresh => \A k \in DOMAIN calls : ~calls[k].late
    /\ late => cancel
    /\ \A k \in DOMAIN calls : calls[k].late => cancel

\* The log is the calls, entry for entry, unless an insert was swallowed.
AllLogged ==
    lost = 0 =>
        /\ Len(log) = Len(calls)
        /\ \A k \in DOMAIN calls : log[k] = <<calls[k].step, Logged(calls[k].code)>>

\* The k-th call is the last one of step i.
LastCallOf(i, k) ==
    /\ k \in DOMAIN calls /\ calls[k].step = i
    /\ \A m \in DOMAIN calls : m > k => calls[m].step # i

\* A step that was called has a last call, and its row, once recorded, is what that call was.
LastCalls ==
    /\ \A i : \A m \in DOMAIN calls : calls[m].step = i => \E k \in DOMAIN calls : LastCallOf(i, k)
    /\ \A i \in DOMAIN rows, k \in DOMAIN calls :
        LastCallOf(i, k) /\ rows[i] # "pending" => (rows[i] = "ok" <=> calls[k].code = "verified")

\* The four invariants that are about the calls alone.
CallsSafe == Authorised /\ NoReplay /\ DenialIsFinal /\ OneLateCall

CInv == IInv /\ LetRun /\ CallsSoFar /\ NothingFollows /\ AllLogged /\ LastCalls /\ CallsSafe /\ AuditTrail

LEMMA InitCInv == Init => CInv
<1> SUFFICES ASSUME Init PROVE CInv
  OBVIOUS
<1>1. LetRun /\ CallsSoFar /\ NothingFollows /\ AllLogged /\ LastCalls
  BY EmptySeq DEF Init, LetRun, CallsSoFar, NothingFollows, AllLogged, LastCalls, Fresh
<1>2. CallsSafe /\ AuditTrail
  BY DEF Init, CallsSafe, Authorised, NoReplay, DenialIsFinal, OneLateCall, AuditTrail
<1> QED
  BY <1>1, <1>2, InitIInv DEF CInv

\* Only _finish() adds to the calls and to the log.
LEMMA QuietCalls ==
    ASSUME [Next]_vars, ~Finish
    PROVE  UNCHANGED <<calls, log, lost>>
<1>1. CASE UNCHANGED vars
  BY <1>1 DEF vars
<1>2. CASE Planning \/ Stepping
  BY <1>2 DEF Planning, Stepping, PlanBlocked, PlanMade, InsertPlan, InsertStep, Complete,
              CancelledBeforeStep, Return, NextStep, Bind, BindFails, db, history
<1>3. CASE Invoking
  BY <1>3 DEF Invoking, InvalidInput, PolicyDenies, PolicyDecides, Refuse, AskTrustStore,
              GateDeniesAlone, GateAnswersNo, Execute, db, history
<1>4. CASE Judging
  BY <1>4 DEF Judging, StepOver, StartCorrection, Revise, Record, Settle, Return, db, history
<1>5. CASE User
  BY <1>5 DEF User, GateGrants, UserDenies, GateAnswersNo, RequestCancel, EditTrust, db, history
<1>6. CASE Raise \/ Crash
  BY <1>6 DEF Raise, Crash, db, history
<1> QED
  BY <1>1, <1>2, <1>3, <1>4, <1>5, <1>6 DEF Next, Agent

LEMMA FinishAppends ==
    ASSUME IInv, Finish
    PROVE  /\ Len(calls) \in Nat /\ DOMAIN calls = 1..Len(calls)
           /\ Len(calls') = Len(calls) + 1 /\ DOMAIN calls' = 1..(Len(calls) + 1) /\ calls' # <<>>
           /\ \A k \in 1..Len(calls) : calls'[k] = calls[k]
           /\ calls'[Len(calls) + 1] =
                [step |-> idx, tool |-> tool, args |-> args, code |-> code,
                 granted |-> granted, late |-> late]
<1> DEFINE call == [step |-> idx, tool |-> tool, args |-> args, code |-> code,
                    granted |-> granted, late |-> late]
<1>1. tool \in Tools /\ args \in Args
  BY StepIsTyped DEF IInv, Finish, Position, AtStep, InCall, tool
<1>2. call \in Call
  BY <1>1 DEF IInv, Finish, Position, TypeOK, Call
<1>3. calls \in Seq(Call) /\ calls' = Append(calls, call)
  BY DEF IInv, TypeOK, Finish
<1> HIDE DEF call
<1>4. /\ calls' \in Seq(Call) /\ Len(calls') = Len(calls) + 1
      /\ \A k \in 1..Len(calls) : calls'[k] = calls[k]
      /\ calls'[Len(calls) + 1] = call
  BY <1>2, <1>3, AppendProperties
<1>5. /\ Len(calls) \in Nat /\ DOMAIN calls = 1..Len(calls) /\ DOMAIN calls' = 1..Len(calls')
  BY <1>3, <1>4, LenProperties
<1>6. calls' # <<>>
  BY <1>4, <1>5, EmptySeq
<1> QED
  BY <1>4, <1>5, <1>6 DEF call

LEMMA LetRunStep == ASSUME CInv, [Next]_vars PROVE LetRun'
<1>0. IInv /\ LetRun
  BY DEF CInv
<1>1. CASE UNCHANGED vars
  BY <1>0, <1>1 DEF LetRun, vars, tool
<1>2. CASE Planning \/ Stepping
  BY <1>2 DEF Planning, Stepping, PlanBlocked, PlanMade, InsertPlan, InsertStep, Complete,
              CancelledBeforeStep, Return, NextStep, Bind, BindFails, LetRun, IInv, TypeOK
<1>3. CASE InvalidInput \/ PolicyDenies \/ UserDenies \/ GateDeniesAlone
  BY <1>3 DEF InvalidInput, PolicyDenies, UserDenies, GateDeniesAlone, GateAnswersNo, Refuse,
              LetRun, BodyResult, Succeeded
<1>4. CASE PolicyDecides
  BY <1>4 DEF PolicyDecides, LetRun, tool
<1>5. CASE AskTrustStore \/ GateGrants
  <2>1. Decide(tool, args) = "require_approval"
    BY <1>0, <1>5 DEF AskTrustStore, GateGrants, LetRun
  <2> QED
    BY <1>5, <2>1 DEF AskTrustStore, GateGrants, LetRun, tool
<1>6. CASE Execute
  BY <1>0, <1>6 DEF Execute, LetRun, tool
<1>7. CASE Finish \/ Judging \/ Raise \/ Crash
  BY <1>7 DEF Finish, Judging, StepOver, StartCorrection, Revise, Record, Settle, Return, Raise, Crash, LetRun
<1>8. CASE RequestCancel \/ EditTrust
  BY <1>0, <1>8 DEF RequestCancel, EditTrust, ctl, LetRun, tool
<1> QED
  BY <1>1, <1>2, <1>3, <1>4, <1>5, <1>6, <1>7, <1>8 DEF Next, Agent, User, Invoking

LEMMA CallsSoFarStep == ASSUME CInv, [Next]_vars PROVE CallsSoFar'
<1>0. IInv /\ TypeOK /\ CallsSoFar /\ NoReplay /\ idx \in Nat
  BY DEF CInv, CallsSafe, IInv, TypeOK
<1>1. CASE UNCHANGED vars
  BY <1>0, <1>1 DEF CallsSoFar, JustCalled, vars
<1>2. CASE Planning
  <2>1. UNCHANGED calls
    BY <1>2, QuietCalls DEF Planning, PlanBlocked, PlanMade, InsertPlan, InsertStep, db, history
  <2>2. calls = <<>>
    BY <1>0, <1>2 DEF Planning, PlanBlocked, PlanMade, InsertPlan, InsertStep, CallsSoFar
  <2>3. pc' \notin {"check", "record"}
    BY <1>2 DEF Planning, PlanBlocked, PlanMade, InsertPlan, InsertStep
  <2> QED
    BY <2>1, <2>2, <2>3 DEF CallsSoFar
<1>3. CASE Stepping
  BY <1>0, <1>3 DEF Stepping, Complete, CancelledBeforeStep, Return, NextStep, Bind, BindFails,
                    CallsSoFar, Fresh, db, history
<1>4. CASE (Invoking /\ ~Finish) \/ GateGrants \/ UserDenies
  BY <1>0, <1>4 DEF Invoking, InvalidInput, PolicyDenies, PolicyDecides, Refuse, AskTrustStore,
                    GateDeniesAlone, GateAnswersNo, Execute, GateGrants, UserDenies,
                    CallsSoFar, Fresh, db, history
<1>5. CASE Finish
  <2>1. pc' = "check" /\ UNCHANGED <<idx, code>>
    BY <1>5 DEF Finish
  <2> QED
    BY <1>0, <1>5, <2>1, FinishAppends DEF CallsSoFar, JustCalled, Fresh
<1>6. CASE StepOver \/ Settle
  BY <1>0, <1>6 DEF StepOver, Settle, Return, CallsSoFar, JustCalled, Fresh, db, history
<1>7. CASE StartCorrection
  <2>1. pc' = "revise" /\ UNCHANGED <<idx, calls>> /\ JustCalled /\ code \notin Succeeded
    BY <1>0, <1>7 DEF StartCorrection, Retryable, Terminal, CallsSoFar, db, history
  <2>2. DOMAIN calls = 1..Len(calls) /\ Len(calls) \in Nat
    BY <1>0, LenProperties DEF TypeOK
  <2>3. \A k \in DOMAIN calls : calls[k].step = idx => calls[k].code \notin Succeeded
    BY <1>0, <2>1, <2>2 DEF JustCalled, NoReplay
  <2> QED
    BY <1>0, <2>1, <2>3 DEF CallsSoFar, Fresh
<1>8. CASE Revise
  BY <1>0, <1>8 DEF Revise, CallsSoFar, Fresh, db, history
<1>9. CASE Record
  <2>1. UNCHANGED calls /\ pc' \in {"next", "settle"}
        /\ (pc' = "next" => idx' = idx + 1) /\ (pc' = "settle" => idx' = idx)
    BY <1>9 DEF Record, history
  <2>2. \A k \in DOMAIN calls : calls[k].step <= idx /\ calls[k].step \in Nat
    <3>1. \A k \in DOMAIN calls : calls[k] \in Call
      BY <1>0, LenProperties, ElementOfSeq DEF TypeOK
    <3> QED
      BY <1>0, <3>1 DEF CallsSoFar, Call
  <2> QED
    BY <1>0, <2>1, <2>2 DEF CallsSoFar, Fresh
<1>10. CASE Raise \/ Crash
  BY <1>0, <1>10 DEF Raise, Crash, CallsSoFar, Fresh, db, history
<1>11. CASE RequestCancel \/ EditTrust
  BY <1>0, <1>11 DEF RequestCancel, EditTrust, CallsSoFar, JustCalled, ctl, db, history
<1> QED
  BY <1>1, <1>2, <1>3, <1>4, <1>5, <1>6, <1>7, <1>8, <1>9, <1>10, <1>11
     DEF Next, Agent, User, Judging

LEMMA NothingFollowsStep == ASSUME CInv, [Next]_vars PROVE NothingFollows'
<1>0. /\ IInv /\ CallsSoFar /\ NothingFollows /\ DenialIsFinal /\ OneLateCall
      /\ DOMAIN calls = 1..Len(calls) /\ Len(calls) \in Nat
  BY LenProperties DEF CInv, CallsSafe, IInv, TypeOK
<1>1. CASE UNCHANGED vars
  BY <1>0, <1>1 DEF NothingFollows, vars
<1>2. CASE Planning
  BY <1>0, <1>2 DEF Planning, PlanBlocked, PlanMade, InsertPlan, InsertStep, CallsSoFar,
                    NothingFollows, Fresh, db, history
<1>3. CASE Stepping
  BY <1>0, <1>3 DEF Stepping, Complete, CancelledBeforeStep, Return, NextStep, Bind, BindFails,
                    NothingFollows, Fresh, db, history
<1>4. CASE (Invoking /\ ~Finish) \/ GateGrants \/ UserDenies
  BY <1>0, <1>4 DEF Invoking, InvalidInput, PolicyDenies, PolicyDecides, Refuse, AskTrustStore,
                    GateDeniesAlone, GateAnswersNo, Execute, GateGrants, UserDenies,
                    NothingFollows, Fresh, db, history
<1>5. CASE Finish
  <2>1. pc' = "check" /\ UNCHANGED <<late, cancel>>
    BY <1>5 DEF Finish
  <2> QED
    BY <1>0, <1>5, <2>1, FinishAppends DEF NothingFollows, Fresh
<1>6. CASE StepOver \/ Settle
  BY <1>0, <1>6 DEF StepOver, Settle, Return, NothingFollows, Fresh, db, history
<1>7. CASE StartCorrection
  <2>1. pc' = "revise" /\ UNCHANGED <<calls, late, cancel>> /\ JustCalled /\ ~cancel /\ code \notin Refused
    BY <1>0, <1>7 DEF StartCorrection, Retryable, Terminal, CallsSoFar, db, history
  <2>2. \A k \in DOMAIN calls : calls[k].code \notin Refused
    BY <1>0, <2>1 DEF JustCalled, DenialIsFinal
  <2> QED
    BY <1>0, <2>1, <2>2 DEF NothingFollows
<1>8. CASE Revise
  BY <1>0, <1>8 DEF Revise, NothingFollows, Fresh, db, history
<1>9. CASE Record
  <2>1. UNCHANGED <<calls, late, cancel>> /\ pc' \in {"next", "settle"}
        /\ (pc' = "next" => code = "verified")
    BY <1>9 DEF Record, history
  <2>2. pc' = "next" => \A k \in DOMAIN calls : calls[k].code \notin Refused
    BY <1>0, <1>9, <2>1 DEF Record, CallsSoFar, JustCalled, DenialIsFinal, Refused
  <2> QED
    BY <1>0, <2>1, <2>2 DEF NothingFollows, Fresh
<1>10. CASE Raise \/ Crash
  BY <1>0, <1>10 DEF Raise, Crash, NothingFollows, Fresh, db, history
<1>11. CASE RequestCancel \/ EditTrust
  BY <1>0, <1>11 DEF RequestCancel, EditTrust, NothingFollows, ctl, db, history
<1> QED
  BY <1>1, <1>2, <1>3, <1>4, <1>5, <1>6, <1>7, <1>8, <1>9, <1>10, <1>11
     DEF Next, Agent, User, Judging

LEMMA AllLoggedStep == ASSUME CInv, [Next]_vars PROVE AllLogged'
<1>0. IInv /\ AllLogged /\ lost \in Nat
  BY DEF CInv, IInv, TypeOK
<1>1. CASE ~Finish
  BY <1>0, <1>1, QuietCalls DEF AllLogged
<1>2. CASE Finish
  <2>1. CASE lost' = lost + 1
    BY <1>0, <2>1 DEF AllLogged
  <2>2. CASE log' = Append(log, <<idx, Logged(code)>>) /\ lost' = lost
    <3>1. log \in Seq(LogEntry) /\ <<idx, Logged(code)>> \in LogEntry
      BY <1>0, <1>2 DEF Finish, IInv, Position, TypeOK, Logged, LogEntry
    <3>2. /\ DOMAIN log = 1..Len(log) /\ Len(log) \in Nat
          /\ DOMAIN log' = 1..(Len(log) + 1)
          /\ \A m \in 1..Len(log) : log'[m] = log[m]
          /\ log'[Len(log) + 1] = <<idx, Logged(code)>>
      BY <2>2, <3>1, AppendProperties, LenProperties
    <3> SUFFICES ASSUME lost' = 0, NEW k \in DOMAIN calls'
                 PROVE  /\ Len(log') = Len(calls')
                        /\ log'[k] = <<calls'[k].step, Logged(calls'[k].code)>>
      BY <1>0, <1>2, <2>2, <3>1, AppendProperties, FinishAppends DEF AllLogged
    <3>3. Len(log) = Len(calls) /\ Len(log') = Len(calls')
      BY <1>0, <1>2, <2>2, <3>1, AppendProperties, FinishAppends DEF AllLogged
    <3>4. CASE k = Len(calls) + 1
      BY <1>0, <1>2, <3>2, <3>3, <3>4, FinishAppends
    <3>5. CASE k \in 1..Len(calls)
      BY <1>0, <1>2, <2>2, <3>2, <3>3, <3>5, FinishAppends DEF AllLogged
    <3> QED
      BY <1>0, <1>2, <3>3, <3>4, <3>5, FinishAppends
  <2> QED
    BY <1>2, <2>1, <2>2 DEF Finish
<1> QED
  BY <1>1, <1>2

LEMMA CallsSafeStep == ASSUME CInv, [Next]_vars PROVE CallsSafe'
<1>0. IInv /\ LetRun /\ CallsSoFar /\ NothingFollows /\ CallsSafe
  BY DEF CInv
<1>1. CASE ~Finish
  BY <1>0, <1>1, QuietCalls DEF CallsSafe, Authorised, NoReplay, DenialIsFinal, OneLateCall
<1>2. CASE Finish
  <2>1. pc = "finish"
    BY <1>2 DEF Finish
  <2>2. Authorised'
    BY <1>0, <1>2, <2>1, FinishAppends DEF CallsSafe, Authorised, LetRun
  <2>3. NoReplay'
    BY <1>0, <1>2, <2>1, FinishAppends DEF CallsSafe, NoReplay, CallsSoFar, Fresh
  <2>4. DenialIsFinal' /\ OneLateCall'
    BY <1>0, <1>2, <2>1, FinishAppends DEF DenialIsFinal, OneLateCall, NothingFollows, Fresh
  <2> QED
    BY <2>2, <2>3, <2>4 DEF CallsSafe
<1> QED
  BY <1>1, <1>2

\* Only the step in progress is called, and only its row is recorded, from its last call.
LEMMA LastCallsStep == ASSUME CInv, [Next]_vars PROVE LastCalls'
<1>0. /\ IInv /\ TypeOK /\ Progress /\ CallsSoFar /\ LastCalls
      /\ DOMAIN calls = 1..Len(calls) /\ Len(calls) \in Nat
      /\ DOMAIN rows = 1..Len(rows) /\ Len(rows) \in Nat /\ idx \in Nat
  BY LenProperties DEF CInv, IInv, TypeOK
<1>1. CASE ~Finish /\ ~Writes
  <2>1. UNCHANGED <<rows, calls>>
    BY <1>1, QuietCalls, QuietStep
  <2> QED
    BY <1>0, <2>1 DEF LastCalls, LastCallOf
<1>2. CASE Finish
  <2>1. UNCHANGED rows /\ \A i \in DOMAIN rows : i >= idx => rows[i] = "pending"
    BY <1>0, <1>2 DEF Finish, Progress, AtStep, InCall
  <2>2. LastCallOf(idx, Len(calls))' /\ idx' = idx
    BY <1>0, <1>2, FinishAppends DEF LastCallOf, Finish
  <2>3. ASSUME NEW i, NEW k, i # idx
        PROVE  /\ LastCallOf(i, k) => LastCallOf(i, k)'
               /\ LastCallOf(i, k)' => LastCallOf(i, k) /\ calls'[k] = calls[k]
    BY <1>0, <1>2, <2>3, FinishAppends DEF LastCallOf
  <2>4. ASSUME NEW i, NEW m \in DOMAIN calls', calls'[m].step = i
        PROVE  \E k \in DOMAIN calls' : LastCallOf(i, k)'
    <3>1. CASE i = idx
      BY <1>0, <1>2, <2>2, <3>1, FinishAppends DEF LastCallOf
    <3>2. CASE i # idx
      <4>1. m \in DOMAIN calls /\ calls'[m] = calls[m]
        BY <1>0, <1>2, <2>4, <3>2, FinishAppends
      <4>2. PICK k \in DOMAIN calls : LastCallOf(i, k)
        BY <1>0, <2>4, <4>1 DEF LastCalls
      <4>3. k \in DOMAIN calls' /\ LastCallOf(i, k)'
        BY <1>0, <1>2, <2>3, <3>2, <4>2, FinishAppends
      <4> QED
        BY <4>3
    <3> QED
      BY <3>1, <3>2
  <2>5. ASSUME NEW i \in DOMAIN rows', NEW k \in DOMAIN calls', LastCallOf(i, k)', rows'[i] # "pending"
        PROVE  rows'[i] = "ok" <=> calls'[k].code = "verified"
    <3>1. i # idx /\ i \in DOMAIN rows /\ rows[i] # "pending" /\ rows'[i] = rows[i]
      BY <1>0, <2>1, <2>5
    <3>2. LastCallOf(i, k) /\ calls'[k] = calls[k]
      BY <2>3, <2>5, <3>1
    <3>3. k \in DOMAIN calls
      BY <3>2 DEF LastCallOf
    <3> QED
      BY <1>0, <3>1, <3>2, <3>3 DEF LastCalls
  <2> QED
    BY <2>4, <2>5 DEF LastCalls
<1>3. CASE Complete \/ CancelledBeforeStep \/ Settle
  <2>1. UNCHANGED <<rows, calls>>
    BY <1>3 DEF Complete, CancelledBeforeStep, Settle, Return, history
  <2> QED
    BY <1>0, <2>1 DEF LastCalls, LastCallOf
<1>4. CASE InsertPlan \/ InsertStep
  BY <1>0, <1>4 DEF InsertPlan, InsertStep, history, CallsSoFar, LastCalls, LastCallOf
<1>5. CASE Record
  <2>1. UNCHANGED calls /\ DOMAIN rows' = DOMAIN rows
    BY <1>0, <1>5, RecordWrites, LenProperties DEF Record, history
  <2>2. \A k \in DOMAIN calls : LastCallOf(idx, k) => calls[k].code = code
    <3>1. CASE JustCalled
      <4>1. Len(calls) \in DOMAIN calls
        BY <1>0, <3>1, EmptySeq DEF JustCalled, TypeOK
      <4> QED
        BY <1>0, <3>1, <4>1 DEF JustCalled, LastCallOf
    <3>2. CASE \A k \in DOMAIN calls : calls[k].step < idx
      BY <1>0, <3>2 DEF LastCallOf
    <3> QED
      BY <1>0, <1>5, <3>1, <3>2 DEF Record, CallsSoFar
  <2>3. ASSUME NEW i \in DOMAIN rows, NEW k \in DOMAIN calls, LastCallOf(i, k), rows'[i] # "pending"
        PROVE  rows'[i] = "ok" <=> calls[k].code = "verified"
    <3>1. CASE i = idx
      BY <1>0, <1>5, <2>2, <2>3, <3>1, RecordWrites
    <3>2. CASE i # idx
      BY <1>0, <1>5, <2>3, <3>2, RecordWrites DEF LastCalls
    <3> QED
      BY <3>1, <3>2
  <2> QED
    BY <1>0, <2>1, <2>3 DEF LastCalls, LastCallOf
<1> QED
  BY <1>1, <1>2, <1>3, <1>4, <1>5 DEF Writes

\* What the rows say of the calls; the log then has it too.
LEMMA AuditTrailStep == ASSUME CInv, [Next]_vars PROVE AuditTrail'
<1>0. IInv /\ TypeOK /\ Position /\ Progress /\ CallsSoFar /\ AuditTrail
  BY DEF CInv, IInv
<1>1. AllLogged'
  BY AllLoggedStep
<1>2. /\ DOMAIN rows = 1..Len(rows) /\ Len(rows) \in Nat /\ Len(plan) \in Nat /\ idx \in Nat
      /\ \A k \in DOMAIN calls : calls[k].step \in Nat
  <2>1. \A k \in DOMAIN calls : calls[k] \in Call
    BY <1>0, LenProperties, ElementOfSeq DEF TypeOK
  <2> QED
    BY <1>0, <2>1, LenProperties DEF TypeOK, Call
<1> DEFINE Done(i) == \E k \in DOMAIN calls : calls[k].step = i /\ calls[k].code = "verified"
           Never(i) == \A k \in DOMAIN calls : calls[k].step # i
           Settled == planRow \in {"complete", "failed", "cancelled"}
           Rows == \A i \in DOMAIN rows : (rows[i] = "ok" => Done(i)) /\ (rows[i] = "pending" /\ Settled => Never(i))
<1>3. Rows
  BY <1>0 DEF AuditTrail
<1>4. Rows'
  <2>1. CASE Finish
    <3>1. UNCHANGED <<rows, planRow>> /\ ~Settled
      BY <1>0, <2>1 DEF Finish, Progress, AtStep, InCall
    <3>2. \A i \in DOMAIN rows : Done(i) => Done(i)'
      BY <1>0, <2>1, FinishAppends
    <3> QED
      BY <1>3, <3>1, <3>2
  <2>2. CASE ~Finish /\ ~Writes
    <3>1. UNCHANGED <<rows, planRow, calls>>
      BY <2>2, QuietCalls, QuietStep
    <3> QED
      BY <1>3, <3>1
  <2>3. CASE InsertPlan \/ InsertStep
    <3>1. planRow' = "in_progress"
      BY <1>0, <2>3 DEF InsertPlan, InsertStep, Progress
    <3>2. \A i \in DOMAIN rows' : rows'[i] = "pending"
      <4>1. CASE InsertPlan
        BY <1>0, <4>1 DEF InsertPlan, Progress
      <4>2. CASE InsertStep
        <5>1. DOMAIN rows' = 1..Len(rows')
          BY <1>0, <4>2, AppendProperties, LenProperties DEF InsertStep, TypeOK
        <5> QED
          BY <1>0, <4>2, <5>1, InsertWrites
      <4> QED
        BY <2>3, <4>1, <4>2
    <3> QED
      BY <3>1, <3>2
  <2>4. CASE Complete \/ CancelledBeforeStep \/ Settle
    <3>1. UNCHANGED <<rows, calls>>
      BY <2>4 DEF Complete, CancelledBeforeStep, Settle, Return, history
    <3>2. \A i \in DOMAIN rows : rows[i] = "pending" => Never(i)
      <4>1. CASE Complete \/ CancelledBeforeStep
        <5>1. /\ \A k \in DOMAIN calls : calls[k].step < idx
              /\ \A i \in 1..Len(rows) : i < idx => rows[i] = "ok"
          BY <1>0, <4>1 DEF Complete, CancelledBeforeStep, CallsSoFar, Progress
        <5> QED
          BY <1>2, <5>1
      <4>2. CASE Settle
        <5>1. /\ \A k \in DOMAIN calls : calls[k].step <= idx
              /\ \A i \in 1..Len(rows) : i < idx => rows[i] = "ok"
              /\ rows[idx] = "failed"
          BY <1>0, <4>2 DEF Settle, CallsSoFar, Progress
        <5> QED
          BY <1>2, <5>1
      <4> QED
        BY <2>4, <4>1, <4>2
    <3> QED
      BY <1>3, <3>1, <3>2
  <2>5. CASE Record
    <3>1. UNCHANGED <<planRow, calls>> /\ ~Settled
      BY <1>0, <2>5 DEF Record, Progress, AtStep, history
    <3>2. code = "verified" => Done(idx)
      <4>1. calls # <<>> => Len(calls) \in DOMAIN calls
        BY <1>0, LenProperties, EmptySeq DEF TypeOK
      <4> QED
        BY <1>0, <2>5, <4>1 DEF Record, CallsSoFar, JustCalled
    <3>3. DOMAIN rows' = 1..Len(rows)
      BY <1>0, <2>5, RecordWrites, LenProperties
    <3>4. \A i \in DOMAIN rows' : rows'[i] = "ok" => Done(i)
      BY <1>0, <1>2, <1>3, <2>5, <3>2, <3>3, RecordWrites
    <3> QED
      BY <3>1, <3>4
  <2> QED
    BY <2>1, <2>2, <2>3, <2>4, <2>5 DEF Writes
<1>5. ASSUME lost' = 0, NEW i \in DOMAIN rows', rows'[i] # "pending", NEW m \in DOMAIN calls', calls'[m].step = i
      PROVE  \E k \in DOMAIN log' :
                /\ LastEntryOf(i, k)'
                /\ log'[k][2] = "success" <=> rows'[i] = "ok" \/ calls'[k].code = "unverified"
  <2>1. PICK k \in DOMAIN calls' : LastCallOf(i, k)'
    BY <1>5, LastCallsStep DEF LastCalls
  <2>2. /\ calls' \in Seq(Call) /\ log' \in Seq(LogEntry)
        /\ DOMAIN calls' = 1..Len(calls') /\ DOMAIN log' = 1..Len(log') /\ Len(log') = Len(calls')
        /\ \A n \in DOMAIN calls' : log'[n] = <<calls'[n].step, Logged(calls'[n].code)>>
    BY <1>1, <1>5, TypeStep, LenProperties DEF CInv, TypeOK, AllLogged, Logged
  <2>3. LastEntryOf(i, k)'
    <3>1. \A n \in DOMAIN calls' : log'[n][1] = calls'[n].step
      BY <2>2
    <3> QED
      BY <2>1, <2>2, <3>1 DEF LastEntryOf, LastCallOf
  <2>4. rows'[i] = "ok" <=> calls'[k].code = "verified"
    BY <1>5, <2>1, LastCallsStep DEF LastCalls
  <2>5. log'[k][2] = "success" <=> calls'[k].code \in {"verified", "unverified"}
    <3>1. calls'[k] \in Call
      BY <2>2, ElementOfSeq
    <3> QED
      BY <2>2, <3>1 DEF Logged, Call, BodyResult, Refused, Succeeded
  <2> QED
    BY <2>2, <2>3, <2>4, <2>5
<1> HIDE DEF Rows
<1>6. Rows' => \A i \in DOMAIN rows' :
        /\ rows'[i] = "ok" =>
              \E k \in DOMAIN calls' : calls'[k].step = i /\ calls'[k].code = "verified"
        /\ rows'[i] = "pending" /\ planRow' \in {"complete", "failed", "cancelled"} =>
              \A k \in DOMAIN calls' : calls'[k].step # i
  BY DEF Rows
<1>7. lost' = 0 => Len(log') = Len(calls')
  BY <1>1 DEF AllLogged
<1> QED
  BY <1>4, <1>5, <1>6, <1>7 DEF AuditTrail

LEMMA CInvStep == ASSUME CInv, [Next]_vars PROVE CInv'
<1>1. IInv'
  BY TypeStep, PositionStep, ProgressStep, SafetyStep DEF CInv, IInv
<1> QED
  BY <1>1, LetRunStep, CallsSoFarStep, NothingFollowsStep, AllLoggedStep, LastCallsStep,
     CallsSafeStep, AuditTrailStep DEF CInv

\* Where the thread stands, the calls it has made, the log and the rows agree in every
\* reachable state (AgentLoop._run_step, ToolRegistry.invoke).
THEOREM CallsInvariant == Spec => []CInv
<1>1. CInv /\ [Next]_vars => CInv'
  BY CInvStep
<1> QED
  BY <1>1, InitCInv, PTL DEF Spec

\* Whatever rules come and go and however often a step is retried, no body runs unless the
\* policy allows it or that very invocation was approved (ToolRegistry.invoke).
THEOREM NothingUnauthorised == Spec => []Authorised
<1>1. CInv => Authorised
  BY DEF CInv, CallsSafe
<1> QED
  BY <1>1, CallsInvariant, PTL

\* A call that succeeded is the last one of its step (loop.py, "never replay").
THEOREM NeverReplayed == Spec => []NoReplay
<1>1. CInv => NoReplay
  BY DEF CInv, CallsSafe
<1> QED
  BY <1>1, CallsInvariant, PTL

\* A refusal is the last call of the run (loop.py, "never route around").
THEOREM DenialEndsCalls == Spec => []DenialIsFinal
<1>1. CInv => DenialIsFinal
  BY DEF CInv, CallsSafe
<1> QED
  BY <1>1, CallsInvariant, PTL

\* At most one call begins after a cancellation, and none follows it (AgentLoop.run).
THEOREM LateCallIsLast == Spec => []OneLateCall
<1>1. CInv => OneLateCall
  BY DEF CInv, CallsSafe
<1> QED
  BY <1>1, CallsInvariant, PTL

\* Unless an insert was swallowed, the log has every call, and the last entry of a step says
\* "success" exactly if its row says "ok" or its checks failed after a call that succeeded
\* (loop.py, registry.py).
THEOREM RecordsAgree == Spec => []AuditTrail
<1>1. CInv => AuditTrail
  BY DEF CInv
<1> QED
  BY <1>1, CallsInvariant, PTL
-----------------------------------------------------------------------------
(***************************************************************************)
(* The refinement: under Promise's mapping the six writing actions are the   *)
(* actions of AgentRun, and all others stutter.                             *)
(***************************************************************************)

Achieved == {i \in DOMAIN rows : rows[i] = "ok"}

LEMMA AchievedSoFar ==
    ASSUME IInv, pc \in {"next", "settle"} \cup AtStep
    PROVE  /\ Achieved = 1..(idx - 1)
           /\ planRow = "in_progress" /\ Len(rows) = Len(plan) /\ Len(plan) \in Nat
           /\ idx \in 1..(Len(rows) + 1) /\ DOMAIN rows = 1..Len(rows)
<1>1. /\ planRow = "in_progress" /\ Len(rows) = Len(plan)
      /\ \A i \in 1..Len(rows) : (i < idx => rows[i] = "ok") /\ (i > idx => rows[i] = "pending")
  BY DEF IInv, Progress
<1>2. /\ Len(plan) \in Nat /\ DOMAIN rows = 1..Len(rows) /\ idx \in 1..(Len(rows) + 1)
  BY <1>1, LenProperties DEF IInv, TypeOK, Position
<1>3. idx \in 1..Len(rows) => rows[idx] # "ok"
  BY DEF IInv, Progress
<1> QED
  BY <1>1, <1>2, <1>3 DEF Achieved

LEMMA PromiseInit == Init => Promise!Init
BY EmptySeq DEF Init, Promise!Init

LEMMA PromiseStep == ASSUME IInv, [Next]_vars PROVE [Promise!Next]_(Promise!vars)
<1>0. TypeOK /\ Position /\ Progress /\ Len(rows) \in Nat /\ DOMAIN rows = 1..Len(rows)
  BY LenProperties DEF IInv, TypeOK
<1>1. CASE ~Writes
  BY <1>1, QuietStep DEF Promise!vars
<1>2. CASE InsertPlan
  <2>1. Promise!Open
    BY <1>0, <1>2 DEF InsertPlan, Progress, Promise!Open
  <2> QED
    BY <2>1 DEF Promise!Next
<1>3. CASE InsertStep
  <2>1. /\ planRow = "in_progress" /\ planRow' = "in_progress" /\ Len(rows') = Len(rows) + 1
        /\ \A i \in DOMAIN rows : rows[i] = "pending"
    BY <1>0, <1>3, InsertWrites DEF InsertStep, Progress
  <2>2. \A i \in DOMAIN rows' : rows'[i] = "pending"
    <3>1. DOMAIN rows' = 1..Len(rows')
      BY <1>0, <1>3, AppendProperties, LenProperties DEF InsertStep, TypeOK
    <3> QED
      BY <1>3, <3>1, InsertWrites
  <2>3. Promise!AddStep
    BY <2>1, <2>2 DEF Promise!AddStep
  <2> QED
    BY <2>3 DEF Promise!Next
<1>4. CASE Complete \/ CancelledBeforeStep \/ Settle
  <2>1. /\ Achieved = 1..(idx - 1) /\ planRow = "in_progress" /\ Len(rows) = Len(plan)
        /\ idx \in 1..(Len(rows) + 1)
    BY <1>4, AchievedSoFar DEF Complete, CancelledBeforeStep, Settle
  <2>2. UNCHANGED rows
    BY <1>4 DEF Complete, CancelledBeforeStep, Settle, Return
  <2>3. CASE Complete
    <3>1. planRow' = "complete" /\ Achieved = 1..Len(rows)
      BY <1>0, <2>1, <2>3 DEF Complete, Return
    <3>2. Promise!Settle
      BY <2>1, <2>2, <3>1 DEF Promise!Settle, Achieved
    <3> QED
      BY <3>2 DEF Promise!Next
  <2>4. CASE CancelledBeforeStep \/ Settle
    <3>1. planRow' \in {"failed", "cancelled"} /\ idx \in 1..Len(rows)
      BY <1>0, <2>1, <2>4 DEF CancelledBeforeStep, Settle, Return, Position
    <3>2. Len(rows) \in 1..Len(rows) /\ Len(rows) \notin 1..(idx - 1)
      BY <1>0, <3>1
    <3>3. Achieved # 1..Len(rows)
      BY <2>1, <3>2
    <3>4. Promise!Settle
      BY <2>1, <2>2, <3>1, <3>3 DEF Promise!Settle, Achieved
    <3> QED
      BY <3>4 DEF Promise!Next
  <2> QED
    BY <1>4, <2>3, <2>4
<1>5. CASE Record
  <2>1. /\ Achieved = 1..(idx - 1) /\ planRow = "in_progress"
    BY <1>5, AchievedSoFar DEF Record, AtStep
  <2>2. /\ idx \in 1..Len(rows) /\ Len(rows') = Len(rows) /\ DOMAIN rows' = 1..Len(rows)
        /\ \A j \in 1..Len(rows) :
              rows'[j] = IF j = idx THEN IF code = "verified" THEN "ok" ELSE "failed" ELSE rows[j]
    BY <1>5, RecordWrites, LenProperties
  <2>3. UNCHANGED planRow
    BY <1>5 DEF Record
  <2>4. CASE code = "verified"
    <3>1. Achieved' = 1..idx
      BY <1>0, <2>1, <2>2, <2>4 DEF Achieved
    <3>2. Promise!Achieve
      BY <2>1, <2>2, <2>3, <3>1 DEF Promise!Achieve, Achieved
    <3> QED
      BY <3>2 DEF Promise!Next
  <2>5. CASE code # "verified"
    <3>1. Achieved' = Achieved
      BY <1>0, <2>1, <2>2, <2>5 DEF Achieved
    <3> QED
      BY <2>2, <2>3, <3>1 DEF Promise!vars, Achieved
  <2> QED
    BY <2>4, <2>5
<1> QED
  BY <1>1, <1>2, <1>3, <1>4, <1>5 DEF Writes

\* The rows of a run are an implementation of AgentRun: the steps are written first, achieved one
\* after the other, and the status is settled once (PlanRepository, AgentLoop.run).
THEOREM RunKeepsPromise == Spec => KeepsPromise
<1>1. IInv /\ [Next]_vars => [Promise!Next]_(Promise!vars)
  BY PromiseStep
<1> QED
  BY <1>1, PromiseInit, RunInvariant, PTL DEF Spec, KeepsPromise, Promise!Spec

-----------------------------------------------------------------------------
(* RunHistory: the two queries of get_run() beside a run, for every run AgentLoop can make. *)

Settled == {"complete", "failed", "cancelled"}

\* What the reader holds: a settled status is the one in the table, and rows read after it are
\* the rows of the table.
View ==
    /\ rpc \in {"start", "half", "shown"}
    /\ rpc # "start" /\ seenStatus \in Settled => planRow = seenStatus
    /\ rpc = "shown" /\ seenStatus \in Settled => seenRows = rows

HInv == CInv /\ View

\* The last write of a run is its status: a settled run writes nothing more.
LEMMA SettledIsEnded ==
    ASSUME CInv, [Next]_vars, planRow \in Settled
    PROVE  UNCHANGED <<planRow, rows>>
<1>1. ~Writes
  BY DEF CInv, IInv, Progress, AtStep, Settled, Writes, InsertPlan, InsertStep, Complete,
         CancelledBeforeStep, Record, Settle
<1> QED
  BY <1>1, QuietStep

LEMMA HInvStep == ASSUME HInv, [HNext]_<<vars, reader>> PROVE HInv'
<1>1. CInv'
  <2>1. [Next]_vars
    BY DEF HNext, GetRun
  <2> QED
    BY <2>1, CInvStep DEF HInv
<1>2. View'
  <2>1. CASE GetRun
    BY <2>1 DEF HInv, View, GetRun, ReadPlanRow, ReadStepRows, vars
  <2>2. CASE [Next]_vars /\ UNCHANGED reader
    <3>1. planRow \in Settled => UNCHANGED <<planRow, rows>>
      BY <2>2, SettledIsEnded DEF HInv
    <3> QED
      BY <2>2, <3>1 DEF HInv, View, reader
  <2> QED
    BY <2>1, <2>2 DEF HNext
<1> QED
  BY <1>1, <1>2 DEF HInv

LEMMA ShownIsFinal == HInv => SettledViewIsFinal
<1> SUFFICES ASSUME HInv, rpc = "shown", seenStatus \in Settled
             PROVE  /\ seenStatus = planRow /\ seenRows = rows
                    /\ \A i \in DOMAIN seenRows :
                          Shown[i] \notin {"what failed", "completed"} =>
                             \A k \in DOMAIN calls : calls[k].step # i
  BY DEF SettledViewIsFinal, Settled
<1>1. planRow = seenStatus /\ seenRows = rows
  BY DEF HInv, View
<1>2. \A i \in DOMAIN rows : rows[i] \in {"pending", "ok", "failed"}
  BY LenProperties, ElementOfSeq DEF HInv, CInv, IInv, TypeOK
<1>3. \A i \in DOMAIN rows : Shown[i] \notin {"what failed", "completed"} => rows[i] = "pending"
  BY <1>1, <1>2 DEF Shown, MessageOf
<1> QED
  BY <1>1, <1>3 DEF HInv, CInv, AuditTrail, Settled

\* A run shown as settled is shown as it stays, and "not run" is said only of steps that no tool
\* was called for, although status and rows are read in two transactions (get_run in history.py).
THEOREM ViewIsFinal == HSpec => []SettledViewIsFinal
<1>1. HInit => HInv
  BY InitCInv DEF HInit, HInv, View
<1>2. HInv /\ [HNext]_<<vars, reader>> => HInv'
  BY HInvStep
<1> QED
  BY <1>1, <1>2, ShownIsFinal, PTL DEF HSpec

\* A reader beside a run does not disturb it: with it too, the run keeps its types and its promise.
THEOREM ReaderIsHarmless == HSpec => Spec
<1>1. HInit => Init
  BY DEF HInit
<1>2. [HNext]_<<vars, reader>> => [Next]_vars
  BY DEF HNext, GetRun
<1> QED
  BY <1>1, <1>2, PTL DEF HSpec, Spec
=============================================================================
