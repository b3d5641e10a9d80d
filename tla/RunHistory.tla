----------------------------- MODULE RunHistory -----------------------------
(***************************************************************************)
(* The history reader (core/agent/history.py, get_run) beside the run it     *)
(* reports on. The desktop's history browser and `kanna history` call it     *)
(* from another thread or process: it reads the plans row and then, in a     *)
(* second query, the plan_steps rows, while the agent goes on between them.  *)
(***************************************************************************)
EXTENDS AgentLoop

VARIABLES
    rpc,        \* where get_run() is
    seenStatus, \* plan_row["status"]
    seenRows    \* the status of every row of step_rows

reader == <<rpc, seenStatus, seenRows>>

HInit == Init /\ rpc = "start" /\ seenStatus = "none" /\ seenRows = <<>>

\* query_one on plans; an unknown id returns None.
ReadPlanRow == planRow # "none" /\ seenStatus' = planRow /\ UNCHANGED seenRows

\* query on plan_steps.
ReadStepRows == seenRows' = rows /\ UNCHANGED seenStatus

\* Fault: the two queries in the other order.
GetRunStepsFirst ==
    /\ \/ rpc = "start" /\ planRow # "none" /\ ReadStepRows /\ rpc' = "half"
       \/ rpc = "half" /\ ReadPlanRow /\ rpc' = "shown"
    /\ UNCHANGED vars

GetRun ==
    /\ \/ rpc = "start" /\ ReadPlanRow /\ rpc' = "half"
       \/ rpc = "half" /\ ReadStepRows /\ rpc' = "shown"
    /\ UNCHANGED vars

HNext == GetRun \/ (Next /\ UNCHANGED reader)

HSpec == HInit /\ [][HNext]_<<vars, reader>>

\* The fairness of AgentLoop; the reader may stop anywhere.
FairHSpec == HSpec /\ WF_vars(Agent)

\* The message chosen for a step.
MessageOf(status) ==
    CASE status = "failed" -> "what failed"
      [] status = "ok" -> "completed"
      [] status = "pending" /\ seenStatus = "cancelled" -> "not run: cancelled first"
      [] OTHER -> "not run: an earlier step failed first"

Shown == [i \in DOMAIN seenRows |-> MessageOf(seenRows[i])]

\* The two queries are not one transaction, yet a settled status is never shown with step rows
\* older than it: a run reported as settled is reported as it will be on every later look, and
\* "not run" is only said of its steps that were not invoked (history.py:93-122).
SettledViewIsFinal ==
    rpc = "shown" /\ seenStatus \in {"complete", "failed", "cancelled"} =>
        /\ seenStatus = planRow /\ seenRows = rows
        /\ \A i \in DOMAIN seenRows :
            Shown[i] \notin {"what failed", "completed"} =>
                \A k \in DOMAIN calls : calls[k].step # i
=============================================================================
