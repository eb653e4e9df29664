------------------------------ MODULE MCTaskWork ------------------------------
(* Instances of TaskWork for TLC. *)
EXTENDS TaskWork, TLC

CONSTANTS e1, e2, r1, a1, host, guest

RoleOfCrew == e1 :> "executor" @@ e2 :> "executor" @@ r1 :> "reviewer" @@ a1 :> "adjudicator"
OwnerOfCrew == e1 :> host @@ e2 :> guest @@ r1 :> host @@ a1 :> host
===============================================================================
