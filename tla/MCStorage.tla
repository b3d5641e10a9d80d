----------------------------- MODULE MCStorage -----------------------------
(* Three processes, two migrations, the first of two tables. *)
EXTENDS Storage

CONSTANTS p1, p2, p3

MCProc == {p1, p2, p3}

MCScripts == <<<<"plans", "jobs">>, <<"trust_rules">>>>
=============================================================================
