------------------------------ MODULE AgentLoop ------------------------------
(***************************************************************************)
(* One AgentLoop.run(request) (core/agent/loop.py) with everything it calls *)
(* that changes state: the planner, ToolRegistry.invoke with its policy,    *)
(* trust store and approval gate, the verifier's verdict, the correction    *)
(* retries, and the rows PlanRepository and ExecutionLogRepository write.   *)
(*                                                                         *)
(* Around the agent thread act a user who cancels, a user who answers the   *)
(* approval dialog or prompt, other kanna processes that add and remove     *)
(* trust rules in the shared database, and a crash of the process.          *)
(***************************************************************************)
EXTENDS Permissions, Integers, Sequences

CONSTANTS
    Ref,            \* args of a step that hold a {"$ref": ...} to an earlier result
    ValidArgs,      \* <<tool, args>> pairs the tool's input schema accepts
    Plans,          \* the plans create_plan() may return after validate_plan()
    GrantableRules, \* the trust rules users may add
    MaxCorrections, \* settings.max_corrections
    CanRevise,      \* the planner has revise_step (LLMPlanner), else RuleBasedPlanner
    Gates           \* the fallback gates a process may be built with

PlanStep == [tool : Tools, args : Args \cup {Ref}]

\* validate_plan(): at least one step, references only backwards, literal
\* arguments already accepted by the tool's schema.
ValidPlan(p) ==
    /\ p \in Seq(PlanStep)
    /\ p # <<>>
    /\ p[1].args # Ref
    /\ \A i \in DOMAIN p : p[i].args # Ref => <<p[i].tool, p[i].args>> \in ValidArgs

\* DenyAllGate, CLIPromptGate, DesktopGate.
FallbackGate == {"deny_all", "prompt", "desktop"}

ASSUME LoopAssumption ==
    /\ PermissionAssumption
    /\ Ref \notin Args
    /\ ValidArgs \subseteq Tools \X Args
    /\ \A p \in Plans : ValidPlan(p)
    /\ GrantableRules \subseteq TrustRule
    /\ MaxCorrections \in Int
    /\ CanRevise \in BOOLEAN
    /\ Gates \subseteq FallbackGate

(***************************************************************************)
(* What one call of a tool's body leads to, after output validation and     *)
(* verify(): it succeeded and its postconditions hold, it succeeded and     *)
(* they do not, it succeeded with malformed data, or it failed.             *)
(***************************************************************************)
Succeeded == {"verified", "unverified", "invalid_output"}

BodyResult == Succeeded \cup {"error", "unavailable", "sandbox_violation"}

Refused == {"invalid_input", "permission_denied", "approval_denied"}

\* Fault: a call that succeeded but failed its checks is tried again.
TerminalButFailedChecks == (Refused \cup {"sandbox_violation", "unavailable", "verified", "invalid_output"})

\* Fault: the planner is asked for other arguments after a refusal.
TerminalButDenials == {"sandbox_violation", "unavailable"} \cup Succeeded

\* No retry after these: terminal_errors, a code ending in "_unavailable", or
\* a tool call that itself succeeded.
Terminal == (Refused \cup {"sandbox_violation", "unavailable"}) \cup Succeeded

-----------------------------------------------------------------------------
VARIABLES
    gate,       \* bootstrap(gate=...): the fallback gate of this process
    pc,         \* where the agent thread is
    plan,       \* the plan being executed
    idx,        \* index of the current step
    args,       \* current.args: resolved, then possibly revised
    attempt,    \* the invocation of this step in progress
    code,       \* ToolResult of this invocation, or "none"
    granted,    \* the gate or the trust store approved this invocation
    late,       \* cancellation had been requested when this invocation began
    cancel,     \* the threading.Event passed to run()
    verdict,    \* AgentRunResult.state, or "none"
    trust,      \* table trust_rules
    planRow,    \* plans.status, or "none" before the INSERT
    rows,       \* plan_steps.status, in step order
    log,        \* table execution_log, as <<step index, outcome>>
    lost,       \* execution_log inserts that failed and were swallowed
    calls       \* history: every finished registry.invoke()

ctl     == <<pc, idx, args, attempt, code, granted, late>>
db      == <<planRow, rows, log, lost>>
history == <<calls>>
vars    == <<gate, pc, plan, idx, args, attempt, code, granted, late, cancel, verdict,
             trust, planRow, rows, log, lost, calls>>

\* What the registry can tell when it logs: verify() has not run yet.
Logged(c) == IF c \in {"verified", "unverified"} THEN "success" ELSE c

LogEntry == Nat \X (BodyResult \cup Refused \cup {"success"})

Call == [step : Nat, tool : Tools, args : Args, code : BodyResult \cup Refused,
         granted : BOOLEAN, late : BOOLEAN]

Ended == {"returned", "raised", "crashed"}

Running == pc \notin Ended

Init ==
    /\ gate \in Gates
    /\ pc = "plan" /\ plan = <<>> /\ idx = 0 /\ args = Ref /\ attempt = 0
    /\ code = "none" /\ granted = FALSE /\ late = FALSE
    /\ cancel = FALSE /\ verdict = "none"
    /\ trust \in SUBSET GrantableRules
    /\ planRow = "none" /\ rows = <<>> /\ log = <<>> /\ lost = 0
    /\ calls = <<>>

tool == plan[idx].tool

-----------------------------------------------------------------------------
(* Planning. *)

\* A PlanningError: the planner has no plan, or validate_plan rejects it.
PlanBlocked ==
    /\ pc = "plan"
    /\ pc' = "returned" /\ verdict' = "blocked"
    /\ UNCHANGED <<gate, plan, idx, args, attempt, code, granted, late, cancel, trust, db, history>>

PlanMade ==
    /\ pc = "plan"
    /\ \E p \in Plans : plan' = p
    /\ pc' = "insert"
    /\ UNCHANGED <<gate, idx, args, attempt, code, granted, late, cancel, verdict, trust, db, history>>

\* PlanRepository.create(): the plans row, then one committed INSERT per step.
InsertPlan ==
    /\ pc = "insert"
    /\ planRow' = "in_progress" /\ pc' = "insert_step"
    /\ UNCHANGED <<gate, plan, idx, args, attempt, code, granted, late, cancel, verdict, trust,
                   rows, log, lost, history>>

InsertStep ==
    /\ pc = "insert_step"
    /\ rows' = Append(rows, "pending")
    /\ IF Len(rows') = Len(plan) THEN pc' = "next" /\ idx' = 1
                                 ELSE UNCHANGED <<pc, idx>>
    /\ UNCHANGED <<gate, plan, args, attempt, code, granted, late, cancel, verdict, trust,
                   planRow, log, lost, history>>

-----------------------------------------------------------------------------
(* The loop over the plan's steps. *)

Return(status) ==
    /\ pc' = "returned" /\ verdict' = status /\ planRow' = status
    /\ UNCHANGED <<gate, plan, idx, args, attempt, code, granted, late, cancel, trust,
                   rows, log, lost, history>>

\* Fault: the loop stops one step early.
CompleteEarly ==
    /\ pc = "next" /\ idx >= Len(plan)
    /\ Return("complete")

\* Every step is done: set_status("complete"), with no look at cancel.
Complete ==
    /\ pc = "next" /\ idx > Len(plan)
    /\ Return("complete")

\* cancel.is_set() before the next step: _cancelled().
CancelledBeforeStep ==
    /\ pc = "next" /\ idx <= Len(plan) /\ cancel
    /\ Return("cancelled")

NextStep ==
    /\ pc = "next" /\ idx <= Len(plan) /\ ~cancel
    /\ pc' = "bind"
    /\ UNCHANGED <<gate, plan, idx, args, attempt, code, granted, late, cancel, verdict, trust, db, history>>

\* Fault: the reference itself is passed on.
BindUnresolved ==
    /\ pc = "bind"
    /\ args' = plan[idx].args
    /\ attempt' = 1 /\ pc' = "invoke"
    /\ UNCHANGED <<gate, plan, idx, code, granted, late, cancel, verdict, trust, db, history>>

\* resolve(): literal arguments are copied, a reference becomes whatever the
\* earlier step's result holds.
Bind ==
    /\ pc = "bind"
    /\ args' \in (IF plan[idx].args = Ref THEN Args ELSE {plan[idx].args})
    /\ attempt' = 1 /\ pc' = "invoke"
    /\ UNCHANGED <<gate, plan, idx, code, granted, late, cancel, verdict, trust, db, history>>

\* The referenced key is not in the earlier result: binding_failed, and the
\* step is recorded as failed after 0 attempts.
BindFails ==
    /\ pc = "bind" /\ plan[idx].args = Ref
    /\ code' = "binding_failed" /\ attempt' = 0 /\ pc' = "record"
    /\ UNCHANGED <<gate, plan, idx, args, granted, late, cancel, verdict, trust, db, history>>

-----------------------------------------------------------------------------
(* ToolRegistry.invoke(). *)

Refuse(c) ==
    /\ code' = c /\ granted' = FALSE /\ late' = cancel /\ pc' = "finish"
    /\ UNCHANGED <<gate, plan, idx, args, attempt, cancel, verdict, trust, db, history>>

InvalidInput ==
    /\ pc = "invoke" /\ <<tool, args>> \notin ValidArgs
    /\ Refuse("invalid_input")

PolicyDenies ==
    /\ pc = "invoke" /\ <<tool, args>> \in ValidArgs /\ Decide(tool, args) = "deny"
    /\ Refuse("permission_denied")

\* Fault: an approval given for the first attempt is taken to hold for a retry.
PolicyDecidesOnce ==
    /\ pc = "invoke" /\ <<tool, args>> \in ValidArgs
    /\ \/ (Decide(tool, args) = "allow" \/ attempt > 1) /\ pc' = "execute"
       \/ Decide(tool, args) = "require_approval" /\ attempt = 1 /\ pc' = "trust"
    /\ code' = "none" /\ granted' = FALSE /\ late' = cancel
    /\ UNCHANGED <<gate, plan, idx, args, attempt, cancel, verdict, trust, db, history>>

PolicyDecides ==
    /\ pc = "invoke" /\ <<tool, args>> \in ValidArgs
    /\ \/ Decide(tool, args) = "allow" /\ pc' = "execute"
       \/ Decide(tool, args) = "require_approval" /\ pc' = "trust"
    /\ code' = "none" /\ granted' = FALSE /\ late' = cancel
    /\ UNCHANGED <<gate, plan, idx, args, attempt, cancel, verdict, trust, db, history>>

\* TrustStoreGate.approve(): the rules are read once, then the fallback is asked.
AskTrustStore ==
    /\ pc = "trust"
    /\ granted' = Trusted(trust, tool, args)
    /\ pc' = IF granted' THEN "execute" ELSE "gate"
    /\ UNCHANGED <<gate, plan, idx, args, attempt, code, late, cancel, verdict, trust, db, history>>

\* The user allows. DesktopGate returns allowed /\ ~cancel; DenyAllGate never allows.
GateGrants ==
    /\ pc = "gate"
    /\ gate = "prompt" \/ (gate = "desktop" /\ ~cancel)
    /\ granted' = TRUE /\ pc' = "execute"
    /\ UNCHANGED <<gate, plan, idx, args, attempt, code, late, cancel, verdict, trust, db, history>>

GateAnswersNo ==
    /\ code' = "approval_denied" /\ pc' = "finish"
    /\ UNCHANGED <<gate, plan, idx, args, attempt, granted, late, cancel, verdict, trust, db, history>>

UserDenies ==
    /\ pc = "gate" /\ gate # "deny_all"
    /\ GateAnswersNo

\* Fault: the desktop gate waits for the user, whatever the cancel event says.
GateDeniesAloneDeaf ==
    /\ pc = "gate" /\ gate = "deny_all"
    /\ GateAnswersNo

\* DenyAllGate at once; DesktopGate at its next 0.1 s look at the cancel event.
GateDeniesAlone ==
    /\ pc = "gate" /\ (gate = "deny_all" \/ (gate = "desktop" /\ cancel))
    /\ GateAnswersNo

\* tool.execute(), any exception caught, then output_schema.validate().
Execute ==
    /\ pc = "execute"
    /\ code' \in BodyResult /\ pc' = "finish"
    /\ UNCHANGED <<gate, plan, idx, args, attempt, granted, late, cancel, verdict, trust, db, history>>

\* Fault: only what succeeded is logged.
FinishLogsSuccess ==
    /\ pc = "finish"
    /\ log' = IF code \in Succeeded THEN Append(log, <<idx, Logged(code)>>) ELSE log
    /\ calls' = Append(calls, [step |-> idx, tool |-> tool, args |-> args, code |-> code,
                               granted |-> granted, late |-> late])
    /\ pc' = "check"
    /\ UNCHANGED <<gate, plan, idx, args, attempt, code, granted, late, cancel, verdict, trust,
                   planRow, rows, lost>>

\* _finish(): the execution_log row, whose loss is logged and swallowed.
Finish ==
    /\ pc = "finish"
    /\ \/ log' = Append(log, <<idx, Logged(code)>>) /\ UNCHANGED lost
       \/ lost' = lost + 1 /\ UNCHANGED log
    /\ calls' = Append(calls, [step |-> idx, tool |-> tool, args |-> args, code |-> code,
                               granted |-> granted, late |-> late])
    /\ pc' = "check"
    /\ UNCHANGED <<gate, plan, idx, args, attempt, code, granted, late, cancel, verdict, trust,
                   planRow, rows>>

-----------------------------------------------------------------------------
(* _run_step() after an invocation, and the end of a step. *)

\* Fault: the cancel event is only looked at between steps.
RetryableDespiteCancel == code \notin Terminal /\ attempt <= MaxCorrections

Retryable == code \notin Terminal /\ ~cancel /\ attempt <= MaxCorrections

\* Verified, not to be replayed, cancelled, or out of attempts.
StepOver ==
    /\ pc = "check" /\ ~Retryable
    /\ pc' = "record"
    /\ UNCHANGED <<gate, plan, idx, args, attempt, code, granted, late, cancel, verdict, trust, db, history>>

\* The cancel event was clear: the planner is asked for better arguments.
StartCorrection ==
    /\ pc = "check" /\ Retryable
    /\ pc' = "revise"
    /\ UNCHANGED <<gate, plan, idx, args, attempt, code, granted, late, cancel, verdict, trust, db, history>>

\* _revise(): new valid arguments, or the old ones if the planner has no
\* revise_step or it raised PlanningError. Only the arguments may change.
Revise ==
    /\ pc = "revise"
    /\ \/ UNCHANGED args
       \/ CanRevise /\ \E a \in Args : <<tool, a>> \in ValidArgs /\ args' = a
    /\ attempt' = attempt + 1 /\ pc' = "invoke"
    /\ UNCHANGED <<gate, plan, idx, code, granted, late, cancel, verdict, trust, db, history>>

\* Fault: the run goes on with the next step after a failed one.
RecordAndGoOn ==
    /\ pc = "record"
    /\ rows' = [rows EXCEPT ![idx] = IF code = "verified" THEN "ok" ELSE "failed"]
    /\ pc' = "next" /\ idx' = idx + 1
    /\ UNCHANGED <<gate, plan, args, attempt, code, granted, late, cancel, verdict, trust,
                   planRow, log, lost, history>>

\* record_step_result().
Record ==
    /\ pc = "record"
    /\ rows' = [rows EXCEPT ![idx] = IF code = "verified" THEN "ok" ELSE "failed"]
    /\ IF code = "verified" THEN pc' = "next" /\ idx' = idx + 1
                            ELSE pc' = "settle" /\ UNCHANGED idx
    /\ UNCHANGED <<gate, plan, args, attempt, code, granted, late, cancel, verdict, trust,
                   planRow, log, lost, history>>

\* A failed step ends the run, as cancelled if that was asked for meanwhile.
Settle ==
    /\ pc = "settle"
    /\ Return(IF cancel THEN "cancelled" ELSE "failed")

-----------------------------------------------------------------------------
(* What the agent thread does not choose. *)

\* An exception run() does not catch: the provider's own error in create_plan
\* or revise_step, end of file at the CLI prompt, or a database access that
\* fails outside _finish().
Raise ==
    /\ \/ pc \in {"plan", "revise"} /\ CanRevise
       \/ pc = "gate" /\ gate = "prompt"
       \/ pc \in {"insert", "insert_step", "trust", "record", "settle"}
       \/ pc = "next" /\ (idx > Len(plan) \/ cancel)
    /\ pc' = "raised"
    /\ UNCHANGED <<gate, plan, idx, args, attempt, code, granted, late, cancel, verdict, trust, db, history>>

Crash ==
    /\ Running
    /\ pc' = "crashed"
    /\ UNCHANGED <<gate, plan, idx, args, attempt, code, granted, late, cancel, verdict, trust, db, history>>

\* Only the desktop worker passes a cancel event to run().
RequestCancel ==
    /\ Running /\ gate = "desktop" /\ ~cancel
    /\ cancel' = TRUE
    /\ UNCHANGED <<gate, plan, verdict, trust, ctl, db, history>>

\* `kanna trust add` and `kanna trust remove`, in another process.
EditTrust ==
    /\ Running
    /\ \E r \in GrantableRules :
          trust' = IF r \in trust THEN trust \ {r} ELSE trust \cup {r}
    /\ UNCHANGED <<gate, plan, verdict, cancel, ctl, db, history>>

Planning == PlanBlocked \/ PlanMade \/ InsertPlan \/ InsertStep

Stepping == Complete \/ CancelledBeforeStep \/ NextStep \/ Bind \/ BindFails

Invoking ==
    \/ InvalidInput \/ PolicyDenies \/ PolicyDecides \/ AskTrustStore
    \/ GateDeniesAlone \/ Execute \/ Finish

Judging == StepOver \/ StartCorrection \/ Revise \/ Record \/ Settle

\* The steps the agent thread takes without waiting for a person.
Agent == Planning \/ Stepping \/ Invoking \/ Judging

User == GateGrants \/ UserDenies \/ RequestCancel \/ EditTrust

Next == Agent \/ User \/ Raise \/ Crash

Spec == Init /\ [][Next]_vars

\* The thread is scheduled, tools and provider calls end (they carry timeouts);
\* nobody is obliged to answer a dialog.
FairSpec == Spec /\ WF_vars(Agent)

-----------------------------------------------------------------------------
(* Properties. *)

TypeOK ==
    /\ gate \in FallbackGate
    /\ pc \in {"plan", "insert", "insert_step", "next", "bind", "invoke", "trust", "gate",
               "execute", "finish", "check", "revise", "record", "settle"} \cup Ended
    /\ plan \in Seq(PlanStep)
    /\ idx \in Nat
    /\ args \in Args \cup {Ref}
    /\ attempt \in Nat
    /\ code \in BodyResult \cup Refused \cup {"none", "binding_failed"}
    /\ granted \in BOOLEAN /\ late \in BOOLEAN /\ cancel \in BOOLEAN
    /\ verdict \in {"none", "blocked", "complete", "failed", "cancelled"}
    /\ trust \in SUBSET TrustRule
    /\ planRow \in {"none", "in_progress", "complete", "failed", "cancelled"}
    /\ rows \in Seq({"pending", "ok", "failed"})
    /\ log \in Seq(LogEntry)
    /\ lost \in Nat
    /\ calls \in Seq(Call)

\* A REVIEW call's body runs only if that very invocation, with the arguments
\* it runs with, was approved by a trust rule or the gate; a denied call's body
\* never runs (registry.invoke() as the single choke point, on every retry).
Authorised ==
    \A i \in DOMAIN calls :
        calls[i].code \in BodyResult =>
            \/ Decide(calls[i].tool, calls[i].args) = "allow"
            \/ Decide(calls[i].tool, calls[i].args) = "require_approval" /\ calls[i].granted

\* A tool call that itself succeeded is never made again for the same step,
\* whatever its checks said ("never replay a successful side effect").
NoReplay ==
    \A i, j \in DOMAIN calls :
        i < j /\ calls[i].step = calls[j].step => calls[i].code \notin Succeeded

\* Nothing is invoked after a denial: no retry of the step with other
\* arguments and no later step ("never route around an approval denial").
DenialIsFinal ==
    \A i \in DOMAIN calls : calls[i].code \in Refused => i = Len(calls)

\* At most one invocation begins after cancellation was requested, and it is
\* the run's last.
OneLateCall ==
    \A i \in DOMAIN calls : calls[i].late => i = Len(calls)

\* The persisted step rows are a run of "ok", then at most one "failed", then
\* "pending" only, whenever and however the process stops.
RowsInOrder ==
    \A i, j \in DOMAIN rows : i < j /\ rows[j] # "pending" => rows[i] = "ok"

\* The persisted status never claims more than the rows show: complete means
\* every step of the plan is ok, failed means some step failed.
StatusHonest ==
    /\ planRow = "complete" => Len(rows) = Len(plan) /\ \A i \in DOMAIN rows : rows[i] = "ok"
    /\ planRow = "failed" => \E i \in DOMAIN rows : rows[i] = "failed"

\* The k-th entry of the log is the last one of step i.
LastEntryOf(i, k) ==
    /\ k \in DOMAIN log /\ log[k][1] = i
    /\ \A m \in DOMAIN log : m > k => log[m][1] # i

\* plan_steps and execution_log agree although separate transactions write them.
\* "ok" is persisted only for a step with a verified call, and in a settled run
\* "pending" only for a step that was never invoked. Unless an insert was
\* swallowed, the log has one entry for each call, and the last entry of a step
\* that was invoked and recorded says "success" if its row says "ok" and a failure
\* if its row says "failed". The one exception is a call that succeeded and whose
\* checks failed: the registry logs before verify() is asked (registry.py), so a row
\* "failed" (verification_failed, loop.py) then stands beside a "success".
AuditTrail ==
    /\ \A i \in DOMAIN rows :
        /\ rows[i] = "ok" =>
              \E k \in DOMAIN calls : calls[k].step = i /\ calls[k].code = "verified"
        /\ rows[i] = "pending" /\ planRow \in {"complete", "failed", "cancelled"} =>
              \A k \in DOMAIN calls : calls[k].step # i
    /\ lost = 0 =>
        /\ Len(log) = Len(calls)
        /\ \A i \in DOMAIN rows :
            rows[i] # "pending" /\ (\E k \in DOMAIN calls : calls[k].step = i) =>
               \E k \in DOMAIN log :
                  /\ LastEntryOf(i, k)
                  /\ log[k][2] = "success" <=> rows[i] = "ok" \/ calls[k].code = "unverified"

\* Cancelling always ends the run, even with an approval dialog that nobody
\* answers: the gate looks at the event itself. A run without a person in it
\* (the scheduler's, behind DenyAllGate) ends by itself.
RunEnds == (cancel \/ gate = "deny_all") ~> ~Running

\* The persisted record is an implementation of AgentRun.
Promise == INSTANCE AgentRun WITH
    status <- planRow,
    total  <- Len(rows),
    done   <- {i \in DOMAIN rows : rows[i] = "ok"}

KeepsPromise == Promise!Spec
=============================================================================
