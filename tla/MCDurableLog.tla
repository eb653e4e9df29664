----------------------------- MODULE MCDurableLog -----------------------------
(* Instances of DurableLog for TLC. *)
EXTENDS DurableLog

CONSTANTS h1, h2
===============================================================================
