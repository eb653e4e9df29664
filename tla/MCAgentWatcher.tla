---------------------------- MODULE MCAgentWatcher ----------------------------
(* Instances of AgentWatcher for TLC. *)
EXTENDS AgentWatcher, TLC

CONSTANTS f1, f2, t1, t2

TwoFiles == {f1, f2}
TwoThreads == {t1, t2}
===============================================================================
