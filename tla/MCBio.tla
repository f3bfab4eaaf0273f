------------------------------- MODULE MCBio -------------------------------
(* Instances of Bio for TLC. *)
EXTENDS Bio

\* Processes and contents are interchangeable.
Symmetry == Permutations(Proc) \cup Permutations(Val)
=============================================================================
