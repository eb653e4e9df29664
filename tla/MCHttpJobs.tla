------------------------------ MODULE MCHttpJobs ------------------------------
(* Instances of HttpJobs for TLC. *)
EXTENDS HttpJobs, TLC

CONSTANTS j1, j2, j3, r1
===============================================================================
