------------------------------ MODULE AgentRun ------------------------------
(***************************************************************************)
(* What the persisted record of a run promises to whoever reads it later    *)
(* (kanna history, the desktop's history browser, a person with sqlite):    *)
(* the steps are written first, they are achieved one after the other in    *)
(* plan order, and the status is settled once, to "complete" exactly when   *)
(* everything was achieved. A run whose process died simply stops.          *)
(***************************************************************************)
EXTENDS Integers

VARIABLES
    status,     \* "none", "in_progress", or the settled status
    total,      \* steps written
    done        \* the steps reported ok

vars == <<status, total, done>>

Init == status = "none" /\ total = 0 /\ done = {}

Open ==
    /\ status = "none" /\ status' = "in_progress"
    /\ UNCHANGED <<total, done>>

AddStep ==
    /\ status = "in_progress" /\ done = {}
    /\ total' = total + 1
    /\ UNCHANGED <<status, done>>

Achieve ==
    /\ status = "in_progress"
    /\ \E s \in 1..total : done = 1..(s - 1) /\ done' = 1..s
    /\ UNCHANGED <<status, total>>

Settle ==
    /\ status = "in_progress"
    /\ IF done = 1..total THEN status' = "complete" ELSE status' \in {"failed", "cancelled"}
    /\ UNCHANGED <<total, done>>

Next == Open \/ AddStep \/ Achieve \/ Settle

Spec == Init /\ [][Next]_vars
=============================================================================
