--------------------------- MODULE MCFileRefresh ---------------------------
(* Instances of FileRefresh for TLC. *)
EXTENDS FileRefresh, TLC

CONSTANTS f1, w1, w2, r1, r2

\* Workers are interchangeable.
Perms == Permutations(Workers)
=============================================================================
