------------------------------ MODULE Positions ------------------------------
(***************************************************************************)
(* Parts of a sequence, told by positions: what the filters of the code    *)
(* (retain, a loop that skips) leave.  Unlike SelectSeq, AtPositions is    *)
(* not recursive, so it can be reasoned about.                             *)
(***************************************************************************)
EXTENDS Integers, SequencesExt

\* The elements of s at the positions S, in their order.
AtPositions(s, S) ==
    [k \in 1 .. Cardinality(S) |->
        s[CHOOSE i \in S : Cardinality({j \in S : j <= i}) = k]]
==============================================================================
