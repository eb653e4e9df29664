----------------------------- MODULE MCLeaseHolder ------------------------------
EXTENDS LeaseHolder, TLC

\* Two workers' rows from a release that stored runtime role names: both are
\* still marked active, and each alias counted its own fencing counters.
OldRows(a, s) ==
    << [role |-> "implementer", holder |-> [agent |-> a, session |-> s],
        counter |-> 2, expires |-> 1, status |-> "active"],
       [role |-> "tester", holder |-> [agent |-> a, session |-> s],
        counter |-> 1, expires |-> 1, status |-> "active"] >>

NoRows == <<>>

CONSTANTS a1, a2, s1, s2

TwoOldRows == OldRows(a1, s1)

AgentSymmetry == Permutations(Agents)
=============================================================================
