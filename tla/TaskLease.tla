------------------------------- MODULE TaskLease -------------------------------
(***************************************************************************)
(* The lease table of one task and one governance role, as the daemon      *)
(* keeps it: lease.acquire, lease.extend (alias lease.renew),              *)
(* lease.release, lease.recover, and the check every protected write makes *)
(* (validate_lease_for_mutation), together with agent registration and     *)
(* heartbeats and the two clocks the handlers read.                        *)
(*                                                                         *)
(* Every handler runs alone: the methods are PROTECTED_MUTATION_METHODS    *)
(* executed at the SerializationPoint, under one connection lock, in one   *)
(* SQLite transaction.  So a handler is one action, and a request that is  *)
(* refused rolls back and only advances the authoritative clock (ReadNow). *)
(***************************************************************************)
EXTENDS Integers, Sequences, FiniteSets

CONSTANTS
    Agents,       \* agent ids
    Sessions,     \* session ids an agent may register or acquire under
    Governors,    \* the agents registered with role planner or adjudicator
    NoSession,    \* an agent without a row in agent_registrations
    CanonRole,    \* the governance role new rows are stored under
    Variants,     \* the runtime role names that are looked up with CanonRole
    Legacy,       \* the rows an older release left, stored by runtime role
    Ttls,         \* the ttl_seconds a request may carry
    Stale,        \* ORPHAN_CLAIM_STALE_SECS
    WallSteps,    \* how far the wall clock may be set back (0: never)
    MaxWall,      \* bound: the wall clock stops there
    MaxLeases     \* bound: length of the lease table

Holder == [agent : Agents, session : Sessions]

Status == {"active", "expired", "released"}

\* A row of task_leases.  The row's position is its id; gen_lease_token draws
\* a fresh token for every row, so the id also stands for the token.
Lease == [role : Variants, holder : Holder, counter : Nat \ {0},
          expires : Nat, status : Status]

\* The partial unique index idx_task_leases_active_unique: one active row per
\* stored role name.
ActiveUnique(table) ==
    \A i, j \in DOMAIN table :
        /\ i # j
        /\ table[i].status = "active"
        /\ table[j].status = "active"
        => table[i].role # table[j].role

ASSUME LeaseAssumption ==
    /\ NoSession \notin Sessions
    /\ Governors \subseteq Agents
    /\ CanonRole \in Variants
    /\ Legacy \in Seq(Lease)
    /\ ActiveUnique(Legacy)
    /\ Ttls \subseteq Nat \ {0}
    /\ Stale \in Nat
    /\ WallSteps \in Nat
    /\ MaxWall \in Nat
    /\ MaxLeases \in Nat

VARIABLES
    leases,     \* task_leases, in id order
    reg,        \* the session of each agent in agent_registrations
    beat,       \* last_heartbeat, written from the wall clock
    wall,       \* SystemTime::now
    last,       \* AuthoritativeClock.last_secs, 0 after a restart
    writer      \* history: the lease whose write was accepted last, 0 if none

vars == <<leases, reg, beat, wall, last, writer>>

TypeOK ==
    /\ leases \in Seq(Lease)
    /\ reg \in [Agents -> Sessions \cup {NoSession}]
    /\ beat \in [Agents -> Nat]
    /\ wall \in Nat
    /\ last \in Nat
    /\ writer \in 0 .. Len(leases)

Init ==
    /\ leases = Legacy
    /\ reg = [a \in Agents |-> NoSession]
    /\ beat = [a \in Agents |-> 0]
    /\ wall = 0
    /\ last = 0
    /\ writer = 0

-----------------------------------------------------------------------------
(* The clocks *)

\* Mutant: the daemon reads the system clock as it stands.
NowUnguarded == wall

\* AuthoritativeClock.now_secs: the wall clock, never less than before.
Now == IF wall >= last THEN wall ELSE last

\* A request that reads the clock and is refused: an acquire under a lease that
\* is held, a write that shows an old token.
ReadNow ==
    /\ last' = Now
    /\ UNCHANGED <<leases, reg, beat, wall, writer>>

Tick ==
    /\ wall < MaxWall
    /\ wall' = wall + 1
    /\ UNCHANGED <<leases, reg, beat, last, writer>>

\* The system clock is set back (NTP, an operator).
StepBack ==
    /\ \E d \in 1 .. WallSteps :
        /\ d <= wall
        /\ wall' = wall - d
    /\ UNCHANGED <<leases, reg, beat, last, writer>>

\* The daemon dies and starts again: the tables are on disk, the clock's
\* memory is not.
Restart ==
    /\ last' = 0
    /\ UNCHANGED <<leases, reg, beat, wall, writer>>

-----------------------------------------------------------------------------
(* Registrations: stamped by task_now_ts, the raw wall clock *)

\* INSERT OR REPLACE by agent_id: a new session replaces the old row.
AgentRegister(a, s) ==
    /\ reg' = [reg EXCEPT ![a] = s]
    /\ beat' = [beat EXCEPT ![a] = wall]
    /\ UNCHANGED <<leases, wall, last, writer>>

\* UPDATE by agent_id alone, whatever session the caller is in.
AgentHeartbeat(a) ==
    /\ reg[a] # NoSession
    /\ beat' = [beat EXCEPT ![a] = wall]
    /\ UNCHANGED <<leases, reg, wall, last, writer>>

-----------------------------------------------------------------------------
(* The lease table *)

ActiveIds(table) == {i \in DOMAIN table : table[i].status = "active"}

HasActive == ActiveIds(leases) # {}

\* SELECT ... AND status = 'active' ORDER BY id ASC LIMIT 1, over every role
\* name of the variant set.
Current ==
    CHOOSE i \in ActiveIds(leases) : \A j \in ActiveIds(leases) : i <= j

Expired(i) == Now > leases[i].expires

\* Mutant: a heartbeat exactly Stale old counts as stale.
HolderGoneEarly(i) ==
    LET h == leases[i].holder
    IN  \/ reg[h.agent] # h.session
        \/ Now - beat[h.agent] >= Stale

\* The holder's registration row is gone, or its heartbeat is stale.
HolderGone(i) ==
    LET h == leases[i].holder
    IN  \/ reg[h.agent] # h.session
        \/ Now - beat[h.agent] > Stale

\* orphan_recovery_reason
Orphaned(i) == Expired(i) \/ HolderGone(i)

\* The table once its current lease, if any, is closed with status s.
Closed(s) ==
    IF HasActive THEN [leases EXCEPT ![Current].status = s] ELSE leases

\* Mutant: the maximum is taken over the rows stored under the canonical role.
LastCounterCanon ==
    LET rows == {i \in DOMAIN leases : leases[i].role = CanonRole}
        counters == {0} \cup {leases[i].counter : i \in rows}
    IN  CHOOSE m \in counters : \A c \in counters : c <= m

\* COALESCE(MAX(fencing_counter), 0) over the history of the variant set.
LastCounter ==
    LET counters == {0} \cup {leases[i].counter : i \in DOMAIN leases}
    IN  CHOOSE m \in counters : \A c \in counters : c <= m

\* Mutant: the new row repeats the last counter.
GrantedSame(h, ttl) ==
    [role |-> CanonRole, holder |-> h, counter |-> LastCounter,
     expires |-> Now + ttl, status |-> "active"]

Granted(h, ttl) ==
    [role |-> CanonRole, holder |-> h, counter |-> LastCounter + 1,
     expires |-> Now + ttl, status |-> "active"]

\* The current lease closed, the new row inserted.
WithGrant(h, ttl) == Append(Closed("expired"), Granted(h, ttl))

\* handle_lease_acquire.  The identity is what the request says: nothing
\* asks that it be registered.  A refused INSERT rolls back the closing too.
Acquire(h, ttl) ==
    /\ Len(leases) < MaxLeases
    /\ HasActive => Orphaned(Current)
    /\ ActiveUnique(WithGrant(h, ttl))
    /\ leases' = WithGrant(h, ttl)
    /\ last' = Now
    /\ UNCHANGED <<reg, beat, wall, writer>>

\* Mutant: the row is looked up by its token, whatever its status.
ShowsAnyToken(i) == i \in DOMAIN leases

\* Mutant: the token of any active row is accepted.
ShowsActiveToken(i) == i \in ActiveIds(leases)

\* The caller shows the token of lease i: it must be the current one's.
ShowsToken(i) == HasActive /\ i = Current

\* handle_lease_extend: the UPDATE reaches every active row of the variant set.
Extend(i, ttl) ==
    /\ ShowsToken(i)
    /\ ~Expired(i)
    /\ leases' = [k \in DOMAIN leases |->
                    IF leases[k].status = "active"
                    THEN [leases[k] EXCEPT !.expires = Now + ttl]
                    ELSE leases[k]]
    /\ last' = Now
    /\ UNCHANGED <<reg, beat, wall, writer>>

\* handle_lease_release: the expiry is not looked at.  (A repeated release is
\* answered from the history row and changes nothing.)
Release(i) ==
    /\ ShowsToken(i)
    /\ leases' = Closed("released")
    /\ last' = Now
    /\ UNCHANGED <<reg, beat, wall, writer>>

\* handle_lease_recover: a registered planner or adjudicator takes the current
\* lease away from a holder that is gone.  (In the same transaction the handler
\* appends claim and assignment events, which no lease handler reads.)
Recover(g) ==
    /\ reg[g] # NoSession
    /\ HasActive
    /\ Orphaned(Current)
    /\ leases' = Closed("expired")
    /\ last' = Now
    /\ UNCHANGED <<reg, beat, wall, writer>>

\* validate_lease_for_mutation, then the write it guards: the caller shows
\* token i and fencing counter c.
ProtectedWrite(i, c) ==
    /\ ShowsToken(i)
    /\ ~Expired(i)
    /\ c = leases[i].counter
    /\ writer' = i
    /\ last' = Now
    /\ UNCHANGED <<leases, reg, beat, wall>>

-----------------------------------------------------------------------------

Next ==
    \/ ReadNow
    \/ Tick
    \/ StepBack
    \/ Restart
    \/ \E a \in Agents, s \in Sessions : AgentRegister(a, s)
    \/ \E a \in Agents : AgentHeartbeat(a)
    \/ \E h \in Holder, ttl \in Ttls : Acquire(h, ttl)
    \/ \E i \in DOMAIN leases, ttl \in Ttls : Extend(i, ttl)
    \/ \E i \in DOMAIN leases : Release(i)
    \/ \E g \in Governors : Recover(g)
    \/ \E i, j \in DOMAIN leases : ProtectedWrite(i, leases[j].counter)

Spec == Init /\ [][Next]_vars

-----------------------------------------------------------------------------
(* Safety *)

\* Once a write has been accepted under a lease, every lease granted before
\* it is dead: a holder that was replaced can never write again, whatever
\* the clocks do, across restarts, and with rows of an older release.
Fenced == \A i \in 1 .. writer - 1 : leases[i].status # "active"

\* Every lease the daemon grants carries a larger fencing counter than all
\* leases before it, those of an older release and of any role alias included.
CountersIncrease ==
    \A i, j \in DOMAIN leases :
        i < j /\ j > Len(Legacy) => leases[i].counter < leases[j].counter

\* Expiry is final within one life of the daemon: once now_secs has passed a
\* lease's expiry, neither a renewal nor a write revives it, even after the
\* system clock is set back.
ExpiryFinal ==
    [][\A i \in DOMAIN leases :
            last > leases[i].expires =>
                /\ leases'[i].expires = leases[i].expires
                /\ writer' = i => writer = i]_vars

-----------------------------------------------------------------------------
(* The fenced resource the table implements, on a database without old rows *)

Abstract == INSTANCE FencedResource WITH
    epoch <- LastCounter,
    live <- IF HasActive THEN leases[Current].counter ELSE 0,
    written <- IF writer = 0 THEN 0 ELSE leases[writer].counter

\* The lease table implements a fenced resource: grants carry a new epoch, a
\* write is accepted only from the live epoch, a dead epoch never comes back.
ImplementsFencedResource == Abstract!Spec
=============================================================================
