--------------------------- MODULE MCSnapshotCache ---------------------------
(* Instances of SnapshotCache for TLC. *)
EXTENDS SnapshotCache, TLC

CONSTANTS a, b, c, w1, w2

\* Workspaces, and workers, are interchangeable.
Perms == Permutations(Workspaces) \cup Permutations(Workers)
==============================================================================
