------------------------------ MODULE MCTaskTree ------------------------------
(* Instances of TaskTree for TLC. *)
EXTENDS TaskTree, TLC

\* The ids tasks get and the callers are interchangeable.
Symmetric == Permutations(Tasks) \cup Permutations(Callers)
===============================================================================
