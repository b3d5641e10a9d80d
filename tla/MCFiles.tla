------------------------------ MODULE MCFiles ------------------------------
(* Files for TLC: two plain files and a project of two. *)
EXTENDS Files, TLC

MCTemplate == <<"src/main.c", "Makefile">>

\* Processes differ in nothing; the properties are invariants.
Symmetry == Permutations(Proc)
=============================================================================
