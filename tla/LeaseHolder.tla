------------------------------ MODULE LeaseHolder ------------------------------
(***************************************************************************)
(* TaskLease with a history variable: how long each agent has really been  *)
(* silent, in true time, whatever the daemon's clocks say.  It states what *)
(* orphan recovery owes to a holder that is still at work.                 *)
(***************************************************************************)
EXTENDS TaskLease

VARIABLE quiet      \* true time since the agent registered or beat, counted
                    \* up to Stale + 1

HolderInit == Init /\ quiet = [a \in Agents |-> 0]

\* An agent is heard of when it registers or beats.
Heard(a) == AgentHeartbeat(a) \/ \E s \in Sessions : AgentRegister(a, s)

Grow(n) == IF n > Stale THEN n ELSE n + 1

HolderNext ==
    \/ /\ Tick
       /\ quiet' = [a \in Agents |-> Grow(quiet[a])]
    \/ \E a \in Agents : Heard(a) /\ quiet' = [quiet EXCEPT ![a] = 0]
    \/ /\ \/ ReadNow
          \/ StepBack
          \/ Restart
          \/ \E h \in Holder, ttl \in Ttls : Acquire(h, ttl)
          \/ \E i \in DOMAIN leases, ttl \in Ttls : Extend(i, ttl)
          \/ \E i \in DOMAIN leases : Release(i)
          \/ \E g \in Governors : Recover(g)
          \/ \E i, j \in DOMAIN leases : ProtectedWrite(i, leases[j].counter)
       /\ UNCHANGED quiet

HolderSpec == HolderInit /\ [][HolderNext]_<<vars, quiet>>

\* A step takes an unexpired lease away from a holder whose session is still
\* the registered one.
Evicted(i) ==
    LET h == leases[i].holder
    IN  /\ leases[i].status = "active"
        /\ leases'[i].status = "expired"
        /\ ~Expired(i)
        /\ reg[h.agent] = h.session

ReallySilent(i) == quiet[leases[i].holder.agent] > Stale

\* While the daemon's clock is not held ahead of a wall clock that was set
\* back, an unexpired lease is taken only from a registered holder who has
\* really been silent for longer than Stale, across restarts and earlier
\* settings of the clock.
HolderProtected ==
    [][\A i \in DOMAIN leases :
            Evicted(i) /\ wall >= last => ReallySilent(i)]_<<vars, quiet>>
=============================================================================
