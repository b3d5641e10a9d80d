----------------------------- MODULE MCAgentLoop -----------------------------
(***************************************************************************)
(* A small instance of AgentLoop and of the reader beside it: a LOW reader, a *)
(* REVIEW file writer that the policy lets create but not overwrite, a REVIEW *)
(* mover and a RESTRICTED tool; two argument objects, one of which           *)
(* overwrites; plans of one or two steps, two of them with a reference to    *)
(* the first step's result.                                                 *)
(***************************************************************************)
EXTENDS RunHistory

CONSTANTS fresh, over

MCTools == {"read", "write", "move", "wipe"}

MCArgs == {fresh, over}

MCLevel == [read |-> "LOW", write |-> "REVIEW", move |-> "REVIEW", wipe |-> "RESTRICTED"]

MCCreateTools == {"write"}

MCOverwriteArgs == {over}

\* "move" does not accept the overwriting arguments.
MCValidArgs == (MCTools \X MCArgs) \ {<<"move", over>>}

MCStep(t, a) == [tool |-> t, args |-> a]

MCPlans ==
    {<<MCStep("write", over), MCStep("move", Ref)>>,
     <<MCStep("read", fresh), MCStep("write", Ref)>>,
     <<MCStep("write", fresh), MCStep("wipe", fresh)>>,
     <<MCStep("move", fresh)>>}

MCGrantableRules == {[tool |-> "write", covers |-> {fresh, over}]}
=============================================================================
