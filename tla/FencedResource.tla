---------------------------- MODULE FencedResource ----------------------------
(***************************************************************************)
(* What a lease with a fencing counter promises to the resource it guards: *)
(* each grant opens a new epoch and ends the one before, a write is        *)
(* accepted only from the live epoch, and an epoch that ended never comes  *)
(* back.  An epoch is named by its fencing counter; 0 stands for none.     *)
(***************************************************************************)
EXTENDS Naturals

VARIABLES
    epoch,      \* the newest epoch ever granted
    live,       \* the epoch that may write, 0 if none
    written     \* the epoch of the last accepted write

Init == epoch = 0 /\ live = 0 /\ written = 0

Grant ==
    /\ epoch' = epoch + 1
    /\ live' = epoch'
    /\ UNCHANGED written

Revoke ==
    /\ live' = 0
    /\ UNCHANGED <<epoch, written>>

Write ==
    /\ live # 0
    /\ written' = live
    /\ UNCHANGED <<epoch, live>>

Next == Grant \/ Revoke \/ Write

Spec == Init /\ [][Next]_<<epoch, live, written>>
=============================================================================
