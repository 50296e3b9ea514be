---- MODULE MCAppMessages ----
(***************************************************************************)
(* Two tasks; tasks and payloads are interchangeable.                      *)
(***************************************************************************)
EXTENDS AppMessages

Symmetry == Permutations(Task) \cup Permutations(Ptr)
====
