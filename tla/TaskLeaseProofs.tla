---------------------------- MODULE TaskLeaseProofs ----------------------------
(***************************************************************************)
(* Proofs about TaskLease and LeaseHolder for all constants: any number of *)
(* agents and sessions, any time to live, any clock steps, any table left  *)
(* by an older release.                                                    *)
(***************************************************************************)
EXTENDS LeaseHolder, SequenceTheorems, WellFoundedInduction, TLAPS

(* Operators of the table *)

\* A nonempty set of naturals has a least element.
LEMMA NatHasMin ==
    ASSUME NEW S \in SUBSET Nat, S # {}
    PROVE  \E m \in S : \A x \in S : m <= x
<1> DEFINE R == OpToRel(<, Nat)
<1>1. IsWellFoundedOn(R, Nat)
  BY NatLessThanWellFounded
<1>2. \A x, y \in Nat : x < y => <<x, y>> \in R
  BY DEF OpToRel
<1> HIDE DEF R
<1>3. PICK m \in S : \A y \in S : ~ (<<y, m>> \in R)
  BY <1>1, WFMin
<1>4. ASSUME NEW y \in S PROVE m <= y
  <2>1. m \in Nat /\ y \in Nat
    OBVIOUS
  <2>2. ~ (y < m)
    BY <2>1, <1>2, <1>3
  <2> QED
    BY <2>1, <2>2
<1> QED
  BY <1>4

\* A set of naturals that is bounded has a largest element.
LEMMA BoundedSetHasMax ==
    ASSUME NEW S \in SUBSET Nat, S # {}, NEW b \in Nat, \A x \in S : x <= b
    PROVE  \E m \in S : \A x \in S : x <= m
<1> DEFINE Bounds == {n \in Nat : \A x \in S : x <= n}
<1>1. Bounds \in SUBSET Nat /\ b \in Bounds
  OBVIOUS
<1>2. PICK m \in Bounds : \A n \in Bounds : m <= n
  BY <1>1, NatHasMin
<1>3. m \in Nat /\ \A x \in S : x <= m
  BY <1>2
<1>4. m \in S
  <2>1. SUFFICES ASSUME m \notin S PROVE FALSE
    OBVIOUS
  <2>2. \A x \in S : x \in Nat /\ x < m
    BY <2>1, <1>3
  <2>3. m # 0
    <3>1. PICK x \in S : TRUE
      OBVIOUS
    <3> QED
      BY <3>1, <2>2, <1>3
  <2>4. m - 1 \in Bounds
    BY <2>2, <2>3, <1>3
  <2> QED
    BY <2>4, <1>2, <1>3
<1> QED
  BY <1>3, <1>4

\* What it means for a row to be in a lease table.
LEMMA TableRow ==
    ASSUME NEW table \in Seq(Lease), NEW i \in DOMAIN table
    PROVE  /\ i \in Nat /\ 1 <= i /\ i <= Len(table)
           /\ table[i] \in Lease
           /\ table[i].counter \in Nat /\ table[i].counter # 0
           /\ table[i].expires \in Nat
           /\ table[i].status \in Status
<1>1. i \in 1 .. Len(table) /\ Len(table) \in Nat
  BY LenProperties
<1>2. table[i] \in Lease
  BY <1>1, ElementOfSeq
<1> QED
  BY <1>1, <1>2 DEF Lease

\* A finite list of naturals has a bound.
LEMMA ListBounded ==
    ASSUME NEW N \in Nat, NEW f \in [1 .. N -> Nat]
    PROVE  \E b \in Nat : \A i \in 1 .. N : f[i] <= b
<1> DEFINE BoundedTo(n) == \E b \in Nat : \A i \in 1 .. N : i <= n => f[i] <= b
           Bad == {n \in Nat : ~ BoundedTo(n)}
<1>1. ASSUME NEW n \in Nat, BoundedTo(n) PROVE BoundedTo(n + 1)
  <2>1. PICK b \in Nat : \A i \in 1 .. N : i <= n => f[i] <= b
    BY <1>1
  <2>2. CASE n + 1 \in 1 .. N
    <3>1. PICK c \in Nat : f[n + 1] <= c /\ b <= c
      <4>1. f[n + 1] \in Nat
        BY <2>2
      <4> QED
        BY <4>1
    <3>2. ASSUME NEW i \in 1 .. N, i <= n + 1 PROVE f[i] <= c
      <4>1. CASE i = n + 1
        BY <4>1, <3>1
      <4>2. CASE i <= n
        <5>1. f[i] <= b /\ f[i] \in Nat
          BY <4>2, <2>1
        <5> QED
          BY <5>1, <3>1
      <4> QED
        BY <4>1, <4>2, <3>2
    <3> QED
      BY <3>2
  <2>3. CASE n + 1 \notin 1 .. N
    <3>1. \A i \in 1 .. N : i <= n + 1 => f[i] <= b
      BY <2>1, <2>3
    <3> QED
      BY <3>1
  <2> QED
    BY <2>2, <2>3
<1>2. BoundedTo(0)
  OBVIOUS
<1> HIDE DEF BoundedTo
<1>3. Bad = {}
  <2>1. SUFFICES ASSUME Bad # {} PROVE FALSE
    OBVIOUS
  <2>2. PICK n \in Bad : \A k \in Bad : n <= k
    <3>1. Bad \in SUBSET Nat
      OBVIOUS
    <3> QED
      BY <2>1, <3>1, NatHasMin
  <2>3. n \in Nat /\ ~ BoundedTo(n)
    BY <2>2
  <2>4. n # 0
    BY <2>3, <1>2
  <2>5. n - 1 \in Nat /\ n - 1 \notin Bad
    BY <2>2, <2>3, <2>4
  <2>6. BoundedTo(n - 1)
    BY <2>5
  <2> QED
    BY <2>3, <2>5, <2>6, <1>1
<1>4. PICK b \in Nat : \A i \in 1 .. N : i <= N => f[i] <= b
  BY <1>3 DEF BoundedTo
<1> QED
  BY <1>4

\* The counters of a lease table have a bound.
LEMMA CountersBounded ==
    ASSUME NEW table \in Seq(Lease)
    PROVE  \E b \in Nat : \A i \in DOMAIN table : table[i].counter <= b
<1> DEFINE f == [i \in 1 .. Len(table) |-> table[i].counter]
<1>1. DOMAIN table = 1 .. Len(table) /\ Len(table) \in Nat
  BY LenProperties
<1>2. f \in [1 .. Len(table) -> Nat]
  BY <1>1, TableRow
<1>3. PICK b \in Nat : \A i \in 1 .. Len(table) : f[i] <= b
  BY <1>1, <1>2, ListBounded
<1> QED
  BY <1>1, <1>3

\* LastCounter is a natural number that no counter of the table exceeds.
LEMMA LastCounterBounds ==
    ASSUME leases \in Seq(Lease)
    PROVE  /\ LastCounter \in Nat
           /\ LastCounter \in {0} \cup {leases[i].counter : i \in DOMAIN leases}
           /\ \A i \in DOMAIN leases : leases[i].counter <= LastCounter
<1> DEFINE counters == {0} \cup {leases[i].counter : i \in DOMAIN leases}
<1>1. \A i \in DOMAIN leases : leases[i].counter \in Nat
  BY TableRow
<1>2. PICK b \in Nat : \A i \in DOMAIN leases : leases[i].counter <= b
  BY CountersBounded
<1>3. counters \in SUBSET Nat /\ counters # {} /\ \A x \in counters : x <= b
  BY <1>1, <1>2
<1>4. \E m \in counters : \A c \in counters : c <= m
  BY <1>3, BoundedSetHasMax
<1>5. LastCounter \in counters /\ \A c \in counters : c <= LastCounter
  BY <1>4 DEF LastCounter
<1> QED
  BY <1>3, <1>5

\* Current is the active row with the smallest id.
LEMMA CurrentIsFirst ==
    ASSUME leases \in Seq(Lease), HasActive
    PROVE  /\ Current \in DOMAIN leases
           /\ leases[Current].status = "active"
           /\ \A j \in DOMAIN leases : leases[j].status = "active" => Current <= j
<1>1. ActiveIds(leases) \in SUBSET Nat /\ ActiveIds(leases) # {}
  BY TableRow DEF ActiveIds, HasActive
<1>2. \E i \in ActiveIds(leases) : \A j \in ActiveIds(leases) : i <= j
  BY <1>1, NatHasMin
<1>3. /\ Current \in ActiveIds(leases)
      /\ \A j \in ActiveIds(leases) : Current <= j
  BY <1>2 DEF Current
<1> QED
  BY <1>3 DEF ActiveIds

\* Closing the current lease touches no other row and no counter.
LEMMA ClosedTable ==
    ASSUME leases \in Seq(Lease), NEW s \in {"expired", "released"}
    PROVE  /\ Closed(s) \in Seq(Lease)
           /\ Len(Closed(s)) = Len(leases)
           /\ DOMAIN Closed(s) = DOMAIN leases
           /\ \A i \in DOMAIN leases :
                 /\ Closed(s)[i].counter = leases[i].counter
                 /\ Closed(s)[i].expires = leases[i].expires
                 /\ Closed(s)[i].status = "active" =>
                       leases[i].status = "active" /\ i # Current
<1>1. CASE ~ HasActive
  BY <1>1 DEF Closed, HasActive, ActiveIds
<1>2. CASE HasActive
  <2>1. Current \in 1 .. Len(leases)
    BY <1>2, CurrentIsFirst, LenProperties
  <2>2. leases[Current] \in Lease
    BY <2>1, ElementOfSeq
  <2>3. [leases[Current] EXCEPT !.status = s] \in Lease
    BY <2>2 DEF Lease, Status
  <2>4. Closed(s) = [leases EXCEPT ![Current] = [leases[Current] EXCEPT !.status = s]]
    BY <1>2 DEF Closed
  <2>5. /\ Closed(s) \in Seq(Lease)
        /\ Len(Closed(s)) = Len(leases)
        /\ \A i \in 1 .. Len(leases) :
              Closed(s)[i] = IF i = Current THEN [leases[Current] EXCEPT !.status = s]
                                            ELSE leases[i]
    BY <2>1, <2>3, <2>4, ExceptSeq
  <2>6. DOMAIN leases = 1 .. Len(leases) /\ DOMAIN Closed(s) = 1 .. Len(leases)
    BY <2>5, LenProperties
  <2>7. ASSUME NEW i \in DOMAIN leases
        PROVE  /\ Closed(s)[i].counter = leases[i].counter
               /\ Closed(s)[i].expires = leases[i].expires
               /\ Closed(s)[i].status = "active" =>
                     leases[i].status = "active" /\ i # Current
    <3>1. CASE i = Current
      BY <3>1, <2>5, <2>6, <2>2 DEF Lease
    <3>2. CASE i # Current
      BY <3>2, <2>5, <2>6
    <3> QED
      BY <3>1, <3>2
  <2> QED
    BY <2>5, <2>6, <2>7
<1> QED
  BY <1>1, <1>2

\* Now is a time.
LEMMA NowType ==
    ASSUME TypeOK
    PROVE  Now \in Nat /\ Now >= last
BY DEF TypeOK, Now

\* A grant closes the current lease and adds one row with a larger counter.
LEMMA GrantTable ==
    ASSUME TypeOK, NEW h \in Holder, NEW ttl \in Ttls
    PROVE  /\ WithGrant(h, ttl) \in Seq(Lease)
           /\ Len(WithGrant(h, ttl)) = Len(leases) + 1
           /\ DOMAIN WithGrant(h, ttl) = 1 .. Len(leases) + 1
           /\ \A i \in DOMAIN leases : WithGrant(h, ttl)[i] = Closed("expired")[i]
           /\ WithGrant(h, ttl)[Len(leases) + 1] = Granted(h, ttl)
           /\ \A i \in DOMAIN leases :
                 leases[i].counter < WithGrant(h, ttl)[Len(leases) + 1].counter
<1>1. leases \in Seq(Lease)
  BY DEF TypeOK
<1>2. LastCounter \in Nat /\ \A i \in DOMAIN leases : leases[i].counter <= LastCounter
  BY <1>1, LastCounterBounds
<1>3. Granted(h, ttl) \in Lease
  BY <1>2, NowType, LeaseAssumption DEF Granted, Lease, Status
<1>4. /\ Closed("expired") \in Seq(Lease)
      /\ Len(Closed("expired")) = Len(leases)
      /\ DOMAIN leases = 1 .. Len(leases)
      /\ Len(leases) \in Nat
  BY <1>1, ClosedTable, LenProperties
<1>5. /\ WithGrant(h, ttl) \in Seq(Lease)
      /\ Len(WithGrant(h, ttl)) = Len(leases) + 1
      /\ \A i \in 1 .. Len(leases) : WithGrant(h, ttl)[i] = Closed("expired")[i]
      /\ WithGrant(h, ttl)[Len(leases) + 1] = Granted(h, ttl)
  BY <1>3, <1>4, AppendProperties DEF WithGrant
<1>6. DOMAIN WithGrant(h, ttl) = 1 .. Len(leases) + 1
  BY <1>5, LenProperties
<1>7. \A i \in DOMAIN leases : leases[i].counter < Granted(h, ttl).counter
  <2>1. Granted(h, ttl).counter = LastCounter + 1
    BY DEF Granted
  <2>2. \A i \in DOMAIN leases : leases[i].counter \in Nat
    BY <1>1, TableRow
  <2> QED
    BY <2>1, <2>2, <1>2
<1> QED
  BY <1>4, <1>5, <1>6, <1>7

\* An extension changes nothing but the expiry of active rows.
LEMMA ExtendedTable ==
    ASSUME TypeOK, NEW i \in DOMAIN leases, NEW ttl \in Ttls, Extend(i, ttl)
    PROVE  /\ leases' \in Seq(Lease)
           /\ Len(leases') = Len(leases)
           /\ \A k \in DOMAIN leases :
                 /\ leases'[k].counter = leases[k].counter
                 /\ leases'[k].status = leases[k].status
                 /\ leases[k].status # "active" => leases'[k] = leases[k]
<1>1. leases \in Seq(Lease) /\ DOMAIN leases = 1 .. Len(leases) /\ Len(leases) \in Nat
  BY LenProperties DEF TypeOK
<1>2. Now + ttl \in Nat
  BY NowType, LeaseAssumption
<1>3. \A k \in DOMAIN leases : leases[k] \in Lease
  BY <1>1, TableRow
<1>4. leases' = [k \in 1 .. Len(leases) |->
                   IF leases[k].status = "active"
                   THEN [leases[k] EXCEPT !.expires = Now + ttl]
                   ELSE leases[k]]
  BY <1>1 DEF Extend
<1>5. \A k \in 1 .. Len(leases) : leases'[k] \in Lease
  BY <1>1, <1>2, <1>3, <1>4 DEF Lease
<1>6. leases' \in Seq(Lease) /\ Len(leases') = Len(leases)
  BY <1>1, <1>4, <1>5, IsASeq, LenProperties
<1>7. ASSUME NEW k \in DOMAIN leases
      PROVE  /\ leases'[k].counter = leases[k].counter
             /\ leases'[k].status = leases[k].status
             /\ leases[k].status # "active" => leases'[k] = leases[k]
  BY <1>1, <1>3, <1>4 DEF Lease
<1> QED
  BY <1>6, <1>7

-----------------------------------------------------------------------------
(* Type correctness *)

\* The variables keep their types.
LEMMA TypeStep == TypeOK /\ [Next]_vars => TypeOK'
<1> SUFFICES ASSUME TypeOK, [Next]_vars PROVE TypeOK'
  OBVIOUS
<1> USE DEF TypeOK
<1>1. Now \in Nat
  BY NowType
<1>2. Len(leases) \in Nat
  BY LenProperties
<1>3. CASE UNCHANGED vars
  BY <1>3 DEF vars
<1>4. CASE ReadNow
  BY <1>4, <1>1 DEF ReadNow
<1>5. CASE Tick
  BY <1>5 DEF Tick
<1>6. CASE StepBack
  <2>1. wall' \in Nat
    BY <1>6, LeaseAssumption DEF StepBack
  <2> QED
    BY <1>6, <2>1 DEF StepBack
<1>7. CASE Restart
  BY <1>7 DEF Restart
<1>8. ASSUME NEW a \in Agents, NEW s \in Sessions, AgentRegister(a, s) PROVE TypeOK'
  BY <1>8 DEF AgentRegister
<1>9. ASSUME NEW a \in Agents, AgentHeartbeat(a) PROVE TypeOK'
  BY <1>9 DEF AgentHeartbeat
<1>10. ASSUME NEW h \in Holder, NEW ttl \in Ttls, Acquire(h, ttl) PROVE TypeOK'
  <2>1. leases' \in Seq(Lease) /\ Len(leases') = Len(leases) + 1
    BY <1>10, GrantTable DEF Acquire
  <2> QED
    BY <1>10, <1>1, <1>2, <2>1 DEF Acquire
<1>11. ASSUME NEW i \in DOMAIN leases, NEW ttl \in Ttls, Extend(i, ttl) PROVE TypeOK'
  <2>1. leases' \in Seq(Lease) /\ Len(leases') = Len(leases)
    BY <1>11, ExtendedTable
  <2> QED
    BY <1>11, <1>1, <2>1 DEF Extend
<1>12. ASSUME NEW i \in DOMAIN leases, Release(i) PROVE TypeOK'
  <2>1. leases' \in Seq(Lease) /\ Len(leases') = Len(leases)
    BY <1>12, ClosedTable DEF Release
  <2> QED
    BY <1>12, <1>1, <2>1 DEF Release
<1>13. ASSUME NEW g \in Governors, Recover(g) PROVE TypeOK'
  <2>1. leases' \in Seq(Lease) /\ Len(leases') = Len(leases)
    BY <1>13, ClosedTable DEF Recover
  <2> QED
    BY <1>13, <1>1, <2>1 DEF Recover
<1>14. ASSUME NEW i \in DOMAIN leases, NEW c, ProtectedWrite(i, c) PROVE TypeOK'
  <2>1. i \in 0 .. Len(leases)
    BY <1>2, TableRow
  <2> QED
    BY <1>14, <1>1, <2>1 DEF ProtectedWrite
<1> QED
  BY <1>3, <1>4, <1>5, <1>6, <1>7, <1>8, <1>9, <1>10, <1>11, <1>12, <1>13, <1>14
     DEF Next

\* Type correctness of the lease table and the clocks.
THEOREM TypeCorrect == Spec => []TypeOK
<1>1. Init => TypeOK
  BY LeaseAssumption, LenProperties DEF Init, TypeOK
<1> QED
  BY <1>1, TypeStep, PTL DEF Spec

-----------------------------------------------------------------------------
(* Fencing *)

\* A step never revives a lease, never changes a counter, and adds at most
\* one row, which is active and has a counter above all others.
Kept == /\ Len(leases') \in {Len(leases), Len(leases) + 1}
        /\ \A i \in 1 .. Len(leases) :
              /\ leases'[i].counter = leases[i].counter
              /\ leases'[i].status = "active" => leases[i].status = "active"

Added == LET n == Len(leases) + 1
         IN  Len(leases') = n =>
                \A i \in 1 .. Len(leases) : leases[i].counter < leases'[n].counter

LEMMA TableStep == TypeOK /\ [Next]_vars => Kept /\ Added
<1> SUFFICES ASSUME TypeOK, [Next]_vars PROVE Kept /\ Added
  OBVIOUS
<1>1. /\ leases \in Seq(Lease)
      /\ Len(leases) \in Nat
      /\ DOMAIN leases = 1 .. Len(leases)
  BY LenProperties DEF TypeOK
<1>2. CASE leases' = leases
  <2>1. Len(leases') = Len(leases) /\ Len(leases') # Len(leases) + 1
    <3>1. PICK n \in Nat : n = Len(leases)
      BY <1>1
    <3>2. n # n + 1
      OBVIOUS
    <3> QED
      BY <1>2, <3>1, <3>2
  <2>2. Kept
    BY <1>2, <2>1 DEF Kept
  <2>3. Added
    BY <2>1 DEF Added
  <2> QED
    BY <2>2, <2>3
<1>3. CASE \E s \in {"expired", "released"} : leases' = Closed(s)
  BY <1>1, <1>3, ClosedTable DEF Kept, Added
<1>4. ASSUME NEW h \in Holder, NEW ttl \in Ttls, Acquire(h, ttl) PROVE Kept /\ Added
  <2>1. leases' = WithGrant(h, ttl)
    BY <1>4 DEF Acquire
  <2>2. \A i \in 1 .. Len(leases) :
          /\ Closed("expired")[i].counter = leases[i].counter
          /\ Closed("expired")[i].status = "active" => leases[i].status = "active"
    BY <1>1, ClosedTable
  <2> QED
    BY <1>1, <2>1, <2>2, GrantTable DEF Kept, Added
<1>5. ASSUME NEW i \in DOMAIN leases, NEW ttl \in Ttls, Extend(i, ttl) PROVE Kept /\ Added
  BY <1>1, <1>5, ExtendedTable DEF Kept, Added
<1> QED
  BY <1>2, <1>3, <1>4, <1>5
     DEF Next, vars, ReadNow, Tick, StepBack, Restart, AgentRegister, AgentHeartbeat,
         Release, Recover, ProtectedWrite

\* Fencing is inductive on its own: rows below the last writer never become
\* active, and a write comes only from the first active row.
LEMMA FencedStep == TypeOK /\ Fenced /\ [Next]_vars => Fenced'
<1> SUFFICES ASSUME TypeOK, Fenced, [Next]_vars PROVE Fenced'
  OBVIOUS
<1>1. /\ Len(leases) \in Nat
      /\ DOMAIN leases = 1 .. Len(leases)
      /\ writer \in 0 .. Len(leases)
  BY LenProperties DEF TypeOK
<1>2. Kept
  BY TableStep
<1>3. CASE writer' = writer
  BY <1>1, <1>2, <1>3 DEF Fenced, Kept
<1>4. ASSUME NEW i \in DOMAIN leases, NEW c, ProtectedWrite(i, c) PROVE Fenced'
  <2>1. HasActive /\ i = Current /\ writer' = i /\ leases' = leases
    BY <1>4 DEF ProtectedWrite, ShowsToken
  <2>2. \A j \in DOMAIN leases : leases[j].status = "active" => i <= j
    BY <2>1, CurrentIsFirst DEF TypeOK
  <2> QED
    BY <1>1, <2>1, <2>2 DEF Fenced
<1> QED
  BY <1>3, <1>4
     DEF Next, vars, ReadNow, Tick, StepBack, Restart, AgentRegister, AgentHeartbeat,
         Acquire, Extend, Release, Recover

\* A replaced holder never writes again (Fenced), for any old rows, any clock
\* steps and restarts: validate_lease_for_mutation admits the first active row
\* only, and no handler makes a row active again.
THEOREM FencingHolds == Spec => []Fenced
<1>1. Init => Fenced
  BY DEF Init, Fenced
<1> QED
  BY <1>1, TypeCorrect, FencedStep, PTL DEF Spec

\* The counters the daemon hands out grow, whatever an older release left.
LEMMA CountersStep == TypeOK /\ CountersIncrease /\ [Next]_vars => CountersIncrease'
<1> SUFFICES ASSUME TypeOK, CountersIncrease, [Next]_vars,
                    NEW i \in DOMAIN leases', NEW j \in DOMAIN leases',
                    i < j, j > Len(Legacy)
             PROVE  leases'[i].counter < leases'[j].counter
  BY DEF CountersIncrease
<1>1. TypeOK'
  BY TypeStep
<1>2. /\ Len(leases) \in Nat /\ DOMAIN leases = 1 .. Len(leases)
      /\ DOMAIN leases' = 1 .. Len(leases')
  BY <1>1, LenProperties DEF TypeOK
<1>3. Kept /\ Added
  BY TableStep
<1>4. CASE j \in 1 .. Len(leases)
  <2>1. i \in 1 .. Len(leases)
    BY <1>2, <1>4
  <2> QED
    BY <1>2, <1>3, <1>4, <2>1 DEF CountersIncrease, Kept
<1>5. CASE j \notin 1 .. Len(leases)
  <2>1. j = Len(leases) + 1 /\ Len(leases') = Len(leases) + 1
    <3>1. Len(leases') = Len(leases) \/ Len(leases') = Len(leases) + 1
      BY <1>3 DEF Kept
    <3>2. j \in 1 .. Len(leases') /\ j \notin 1 .. Len(leases)
      BY <1>2, <1>5
    <3>3. PICK n \in Nat : n = Len(leases)
      BY <1>2
    <3>4. j = n + 1 /\ Len(leases') = n + 1
      BY <3>1, <3>2, <3>3
    <3> QED
      BY <3>3, <3>4
  <2>2. i \in 1 .. Len(leases)
    BY <1>2, <2>1
  <2> QED
    BY <1>3, <2>1, <2>2 DEF Kept, Added
<1> QED
  BY <1>4, <1>5

\* Every granted lease has a larger fencing counter than all before it.
THEOREM CountersHold == Spec => []CountersIncrease
<1>1. Init => CountersIncrease
  <2>1. Legacy \in Seq(Lease) /\ DOMAIN Legacy = 1 .. Len(Legacy)
    BY LeaseAssumption, LenProperties
  <2> QED
    BY <2>1 DEF Init, CountersIncrease
<1> QED
  BY <1>1, TypeCorrect, CountersStep, PTL DEF Spec

-----------------------------------------------------------------------------
(* Databases without old rows *)

\* On a database without old rows a task and role never have two active
\* leases, under whatever alias of the role they were asked for.
OneActive == \A i, j \in ActiveIds(leases) : i = j

\* At most one lease is active, and it is the one every lookup finds.
LEMMA OneActiveStep == TypeOK /\ OneActive /\ [Next]_vars => OneActive'
<1> SUFFICES ASSUME TypeOK, OneActive, [Next]_vars PROVE OneActive'
  OBVIOUS
<1>1. /\ leases \in Seq(Lease)
      /\ Len(leases) \in Nat
      /\ DOMAIN leases = 1 .. Len(leases)
  BY LenProperties DEF TypeOK
<1>2. Kept /\ DOMAIN leases' = 1 .. Len(leases')
  BY TypeStep, TableStep, LenProperties DEF TypeOK
<1>3. CASE Len(leases') = Len(leases)
  BY <1>1, <1>2, <1>3 DEF OneActive, ActiveIds, Kept
<1>4. ASSUME NEW h \in Holder, NEW ttl \in Ttls, Acquire(h, ttl) PROVE OneActive'
  <2>1. \A i \in 1 .. Len(leases) : leases'[i] = Closed("expired")[i]
    BY <1>1, <1>4, GrantTable DEF Acquire
  <2>2. \A i \in 1 .. Len(leases) : leases'[i].status # "active"
    <3>1. ASSUME NEW i \in 1 .. Len(leases), leases'[i].status = "active" PROVE FALSE
      <4>1. leases[i].status = "active" /\ i # Current
        BY <1>1, <2>1, <3>1, ClosedTable
      <4>2. HasActive
        BY <1>1, <4>1 DEF HasActive, ActiveIds
      <4>3. i = Current
        BY <1>1, <4>1, <4>2, CurrentIsFirst DEF OneActive, ActiveIds
      <4> QED
        BY <4>1, <4>3
    <3> QED
      BY <3>1
  <2>3. DOMAIN leases' = 1 .. Len(leases) + 1
    BY <1>4, GrantTable DEF Acquire
  <2>4. \A i \in DOMAIN leases' : leases'[i].status = "active" => i = Len(leases) + 1
    BY <1>1, <2>2, <2>3
  <2> QED
    BY <2>4 DEF OneActive, ActiveIds
<1>5. CASE \A h \in Holder, ttl \in Ttls : ~ Acquire(h, ttl)
  <2>1. \/ leases' = leases
        \/ \E s \in {"expired", "released"} : leases' = Closed(s)
        \/ \E i \in DOMAIN leases, ttl \in Ttls : Extend(i, ttl)
    BY <1>5 DEF Next, vars, ReadNow, Tick, StepBack, Restart, AgentRegister,
                AgentHeartbeat, Release, Recover, ProtectedWrite
  <2>2. Len(leases') = Len(leases)
    BY <1>1, <2>1, ClosedTable, ExtendedTable
  <2> QED
    BY <2>2, <1>3
<1> QED
  BY <1>4, <1>5

\* One task and role never have two active leases, under any alias.
THEOREM OneActiveHolds ==
    ASSUME Legacy = <<>>
    PROVE  Spec => []OneActive
<1>1. Init => OneActive
  BY DEF Init, OneActive, ActiveIds
<1> QED
  BY <1>1, TypeCorrect, OneActiveStep, PTL DEF Spec

\* Once now_secs has passed the expiry of the one active lease, nothing but a
\* restart of the daemon lets it be renewed or written under again.
LEMMA ExpiryFinalStep ==
    ASSUME TypeOK, OneActive, [Next]_vars,
           NEW i \in DOMAIN leases, last > leases[i].expires
    PROVE  leases'[i].expires = leases[i].expires /\ (writer' = i => writer = i)
<1>1. /\ leases \in Seq(Lease)
      /\ Len(leases) \in Nat
      /\ DOMAIN leases = 1 .. Len(leases)
      /\ leases[i].expires \in Nat
  BY LenProperties, TableRow DEF TypeOK
<1>2. Expired(i)
  <2>1. Now \in Nat /\ Now >= last /\ last \in Nat
    BY NowType DEF TypeOK
  <2> QED
    BY <1>1, <2>1 DEF Expired
<1>3. ASSUME NEW h \in Holder, NEW ttl \in Ttls, Acquire(h, ttl)
      PROVE  leases'[i].expires = leases[i].expires /\ writer' = writer
  <2>1. leases'[i] = Closed("expired")[i] /\ writer' = writer
    BY <1>3, GrantTable DEF Acquire
  <2> QED
    BY <1>1, <2>1, ClosedTable
<1>4. ASSUME NEW k \in DOMAIN leases, NEW ttl \in Ttls, Extend(k, ttl)
      PROVE  leases'[i].expires = leases[i].expires /\ writer' = writer
  <2>1. k \in ActiveIds(leases) /\ k # i
    BY <1>1, <1>2, <1>4, CurrentIsFirst DEF Extend, ShowsToken, ActiveIds
  <2>2. leases[i].status # "active"
    BY <2>1 DEF OneActive, ActiveIds
  <2> QED
    BY <1>4, <2>2, ExtendedTable DEF Extend
<1>5. ASSUME NEW k \in DOMAIN leases, NEW c, ProtectedWrite(k, c)
      PROVE  leases' = leases /\ writer' # i
  BY <1>2, <1>5 DEF ProtectedWrite
<1>6. ASSUME \E s \in {"expired", "released"} : leases' = Closed(s), writer' = writer
      PROVE  leases'[i].expires = leases[i].expires /\ writer' = writer
  BY <1>1, <1>6, ClosedTable
<1> QED
  BY <1>3, <1>4, <1>5, <1>6
     DEF Next, vars, ReadNow, Tick, StepBack, Restart, AgentRegister, AgentHeartbeat,
         Release, Recover

\* Expiry is final within one life of the daemon.
THEOREM ExpiryFinalHolds ==
    ASSUME Legacy = <<>>
    PROVE  Spec => ExpiryFinal
<1>1. TypeOK /\ OneActive /\ [Next]_vars
        => [\A i \in DOMAIN leases :
              last > leases[i].expires =>
                  /\ leases'[i].expires = leases[i].expires
                  /\ writer' = i => writer = i]_vars
  BY ExpiryFinalStep
<1> QED
  BY <1>1, TypeCorrect, OneActiveHolds, PTL DEF Spec, ExpiryFinal

-----------------------------------------------------------------------------
(* The lease table implements a fenced resource *)

\* Without old rows the counters number the leases.
CountersAreIds == \A i \in DOMAIN leases : leases[i].counter = i

LEMMA LastCounterIsLen == TypeOK /\ CountersAreIds => LastCounter = Len(leases)
<1> SUFFICES ASSUME TypeOK, CountersAreIds PROVE LastCounter = Len(leases)
  OBVIOUS
<1>1. /\ leases \in Seq(Lease)
      /\ DOMAIN leases = 1 .. Len(leases)
  BY LenProperties DEF TypeOK
<1>2. PICK n \in Nat : n = Len(leases)
  BY <1>1, LenProperties
<1>3. /\ LastCounter \in {0} \cup {leases[i].counter : i \in DOMAIN leases}
      /\ \A i \in DOMAIN leases : leases[i].counter <= LastCounter
      /\ LastCounter \in Nat
  BY <1>1, LastCounterBounds
<1>4. LastCounter <= n
  BY <1>1, <1>2, <1>3 DEF CountersAreIds
<1>5. n = 0 \/ n <= LastCounter
  BY <1>1, <1>2, <1>3 DEF CountersAreIds
<1> QED
  BY <1>2, <1>3, <1>4, <1>5

\* The current lease in terms of the table alone.
LEMMA CurrentIsId ==
    TypeOK /\ OneActive /\ CountersAreIds =>
        \A n \in DOMAIN leases : leases[n].status = "active" =>
            HasActive /\ Current = n /\ leases[Current].counter = n
<1> SUFFICES ASSUME TypeOK, OneActive, CountersAreIds,
                    NEW n \in DOMAIN leases, leases[n].status = "active"
             PROVE  HasActive /\ Current = n /\ leases[Current].counter = n
  OBVIOUS
<1>1. n \in ActiveIds(leases) /\ HasActive
  BY DEF ActiveIds, HasActive
<1>2. Current \in ActiveIds(leases)
  BY <1>1, CurrentIsFirst DEF ActiveIds, TypeOK
<1>3. Current = n
  BY <1>1, <1>2 DEF OneActive
<1> QED
  BY <1>1, <1>3 DEF CountersAreIds

LEMMA IdsStep == TypeOK /\ CountersAreIds /\ [Next]_vars => CountersAreIds'
<1> SUFFICES ASSUME TypeOK, CountersAreIds, [Next]_vars PROVE CountersAreIds'
  OBVIOUS
<1>1. DOMAIN leases = 1 .. Len(leases)
  BY LenProperties DEF TypeOK
<1>2. PICK n \in Nat : n = Len(leases)
  BY LenProperties DEF TypeOK
<1>3. ASSUME NEW h \in Holder, NEW ttl \in Ttls, Acquire(h, ttl) PROVE CountersAreIds'
  <2>1. /\ DOMAIN leases' = 1 .. n + 1
        /\ leases'[n + 1].counter = n + 1
    <3>1. leases' = WithGrant(h, ttl)
      BY <1>3 DEF Acquire
    <3>2. DOMAIN leases' = 1 .. n + 1 /\ leases'[n + 1] = Granted(h, ttl)
      BY <1>2, <3>1, GrantTable
    <3>3. Granted(h, ttl).counter = LastCounter + 1
      BY DEF Granted
    <3>4. LastCounter = n
      BY <1>2, LastCounterIsLen
    <3> QED
      BY <3>2, <3>3, <3>4
  <2>2. \A i \in 1 .. n : leases'[i].counter = i
    BY <1>1, <1>2, TableStep DEF Kept, CountersAreIds
  <2> QED
    BY <2>1, <2>2 DEF CountersAreIds
<1>4. CASE DOMAIN leases' = DOMAIN leases
  BY <1>1, <1>4, TableStep DEF Kept, CountersAreIds
<1>5. ASSUME NEW i \in DOMAIN leases, NEW ttl \in Ttls, Extend(i, ttl)
      PROVE  DOMAIN leases' = DOMAIN leases
  BY <1>5 DEF Extend
<1>6. ASSUME \E s \in {"expired", "released"} : leases' = Closed(s)
      PROVE  DOMAIN leases' = DOMAIN leases
  BY <1>6, ClosedTable DEF TypeOK
<1> QED
  BY <1>3, <1>4, <1>5, <1>6
     DEF Next, vars, ReadNow, Tick, StepBack, Restart, AgentRegister, AgentHeartbeat,
         Release, Recover, ProtectedWrite

\* The inductive invariant of the refinement.
Mapped == TypeOK /\ OneActive /\ CountersAreIds

Live == IF HasActive THEN leases[Current].counter ELSE 0

Written == IF writer = 0 THEN 0 ELSE leases[writer].counter

\* The three mapped values read off the table, without a choice.
ReadsOff ==
    /\ LastCounter = Len(leases)
    /\ Written = writer
    /\ \A n \in DOMAIN leases : leases[n].status = "active" => Live = n
    /\ (\A n \in DOMAIN leases : leases[n].status # "active") => Live = 0

LEMMA LiveIs == Mapped => ReadsOff
<1> SUFFICES ASSUME Mapped PROVE ReadsOff
  OBVIOUS
<1>1. LastCounter = Len(leases)
  BY LastCounterIsLen DEF Mapped
<1>2. Written = writer
  <2>1. DOMAIN leases = 1 .. Len(leases) /\ writer \in 0 .. Len(leases)
    BY LenProperties DEF Mapped, TypeOK
  <2>2. Len(leases) \in Nat
    BY LenProperties DEF Mapped, TypeOK
  <2> QED
    BY <2>1, <2>2 DEF Written, Mapped, CountersAreIds
<1>3. \A n \in DOMAIN leases : leases[n].status = "active" => Live = n
  BY CurrentIsId DEF Mapped, Live
<1>4. (\A n \in DOMAIN leases : leases[n].status # "active") => Live = 0
  BY DEF Live, HasActive, ActiveIds
<1> QED
  BY <1>1, <1>2, <1>3, <1>4 DEF ReadsOff

\* Each step of the table is a grant, a revocation, a write or a stutter.
LEMMA StepMaps ==
    ASSUME Mapped, Mapped', [Next]_vars
    PROVE  [Abstract!Next]_<<LastCounter, Live, Written>>
<1> DEFINE Frame == <<LastCounter, Live, Written>>
<1>1. /\ LastCounter = Len(leases)
      /\ Written = writer
      /\ \A n \in DOMAIN leases : leases[n].status = "active" => Live = n
      /\ (\A n \in DOMAIN leases : leases[n].status # "active") => Live = 0
  BY LiveIs DEF ReadsOff
<1>2. /\ LastCounter' = Len(leases')
      /\ Written' = writer'
      /\ \A n \in DOMAIN leases' : leases'[n].status = "active" => Live' = n
      /\ (\A n \in DOMAIN leases' : leases'[n].status # "active") => Live' = 0
  <2>1. ReadsOff'
    BY LiveIs, PTL
  <2> QED
    BY <2>1 DEF ReadsOff
<1>3. TypeOK /\ leases \in Seq(Lease) /\ DOMAIN leases = 1 .. Len(leases)
  BY LenProperties DEF Mapped, TypeOK
<1>4. CASE leases' = leases /\ writer' = writer
  <2>1. Live' = Live
    BY <1>1, <1>2, <1>4
  <2> QED
    BY <1>1, <1>2, <1>4, <2>1
<1>5. ASSUME NEW h \in Holder, NEW ttl \in Ttls, Acquire(h, ttl) PROVE Abstract!Grant
  <2>1. /\ Len(leases') = Len(leases) + 1
        /\ Len(leases) + 1 \in DOMAIN leases'
        /\ leases'[Len(leases) + 1].status = "active"
        /\ writer' = writer
    <3>1. leases' = WithGrant(h, ttl) /\ writer' = writer
      BY <1>5 DEF Acquire
    <3>2. PICK n \in Nat : n = Len(leases)
      BY <1>3, LenProperties
    <3>3. /\ Len(leases') = n + 1
          /\ DOMAIN leases' = 1 .. n + 1
          /\ leases'[n + 1] = Granted(h, ttl)
      BY <1>3, <3>1, <3>2, GrantTable
    <3>4. Granted(h, ttl).status = "active"
      BY DEF Granted
    <3>5. n + 1 \in 1 .. n + 1
      OBVIOUS
    <3> QED
      BY <3>1, <3>2, <3>3, <3>4, <3>5
  <2>2. Live' = Len(leases) + 1
    BY <1>2, <2>1
  <2> QED
    BY <1>1, <1>2, <2>1, <2>2 DEF Abstract!Grant, Live, Written
<1>6. ASSUME NEW i \in DOMAIN leases, NEW ttl \in Ttls, Extend(i, ttl)
      PROVE  UNCHANGED Frame
  <2>1. /\ Len(leases') = Len(leases)
        /\ DOMAIN leases' = DOMAIN leases
        /\ \A n \in DOMAIN leases : leases'[n].status = leases[n].status
        /\ writer' = writer
    BY <1>3, <1>6, ExtendedTable DEF Extend
  <2>2. Live' = Live
    BY <1>1, <1>2, <2>1
  <2> QED
    BY <1>1, <1>2, <2>1, <2>2
<1>7. ASSUME NEW s \in {"expired", "released"}, HasActive, leases' = Closed(s),
             writer' = writer
      PROVE  Abstract!Revoke
  <2>1. /\ DOMAIN leases' = DOMAIN leases
        /\ Len(leases') = Len(leases)
        /\ \A n \in DOMAIN leases : leases'[n].status = "active" =>
              leases[n].status = "active" /\ n # Current
    BY <1>3, <1>7, ClosedTable
  <2>2. \A n \in DOMAIN leases : leases[n].status = "active" => n = Current
    BY CurrentIsId DEF Mapped
  <2>3. Live' = 0
    BY <1>2, <2>1, <2>2
  <2> QED
    BY <1>1, <1>2, <1>7, <2>1, <2>3 DEF Abstract!Revoke, Live, Written
<1>8. ASSUME NEW i \in DOMAIN leases, NEW c, ProtectedWrite(i, c) PROVE Abstract!Write
  <2>1. HasActive /\ i = Current /\ leases' = leases /\ writer' = i
    BY <1>8 DEF ProtectedWrite, ShowsToken
  <2>2. leases[i].status = "active"
    BY <1>3, <2>1, CurrentIsFirst
  <2>3. i # 0
    BY <1>3, TableRow
  <2>4. Live = i /\ Live' = Live
    BY <1>1, <1>2, <2>1, <2>2
  <2> QED
    BY <1>1, <1>2, <2>1, <2>3, <2>4 DEF Abstract!Write, Live, Written
<1> QED
  BY <1>4, <1>5, <1>6, <1>7, <1>8
     DEF Next, vars, ReadNow, Tick, StepBack, Restart, AgentRegister, AgentHeartbeat,
         Release, Recover, ShowsToken, Abstract!Next

\* The lease table implements the fenced resource.
THEOREM Refinement ==
    ASSUME Legacy = <<>>
    PROVE  Spec => ImplementsFencedResource
<1>1. Init => CountersAreIds
  BY DEF Init, CountersAreIds
<1>2. Init /\ Mapped => Abstract!Init
  <2>1. ASSUME Init, Mapped PROVE LastCounter = 0 /\ Live = 0 /\ Written = 0
    <3>1. DOMAIN leases = {} /\ Len(leases) = 0 /\ writer = 0
      BY <2>1 DEF Init
    <3> QED
      BY <2>1, <3>1, LiveIs DEF ReadsOff
  <2> QED
    BY <2>1 DEF Abstract!Init, Live, Written
<1>3. Spec => []Mapped
  BY <1>1, TypeCorrect, OneActiveHolds, IdsStep, PTL DEF Spec, Mapped
<1>4. Mapped /\ Mapped' /\ [Next]_vars => [Abstract!Next]_<<LastCounter, Live, Written>>
  BY StepMaps
<1> QED
  BY <1>2, <1>3, <1>4, PTL DEF Spec, ImplementsFencedResource, Abstract!Spec, Live, Written

-----------------------------------------------------------------------------
(* What orphan recovery owes to a holder that still beats (LeaseHolder) *)

\* The time an agent has been silent is known up to Stale.
QuietType == quiet \in [Agents -> 0 .. Stale + 1]

\* Steps of the clock back only make a heartbeat look younger: by the wall
\* clock it is never older than the agent has really been silent.
BeatsYoung == \A a \in Agents : quiet[a] <= Stale => wall - beat[a] <= quiet[a]

\* The inductive invariant behind HolderProtected.
HolderInv == TypeOK /\ QuietType /\ BeatsYoung

\* At first nobody has been silent, and no clock has moved.
LEMMA HolderInitInv == HolderInit => HolderInv
<1> SUFFICES ASSUME HolderInit PROVE HolderInv
  OBVIOUS
<1>1. TypeOK
  BY LeaseAssumption, LenProperties DEF HolderInit, Init, TypeOK
<1>2. QuietType /\ BeatsYoung
  BY LeaseAssumption DEF HolderInit, Init, QuietType, BeatsYoung
<1> QED
  BY <1>1, <1>2 DEF HolderInv

\* A step of the detailed specification is one of TaskLease.
LEMMA HolderStepIsStep == [HolderNext]_<<vars, quiet>> => [Next]_vars
  BY DEF HolderNext, Next, Heard

\* No step but Tick moves the wall clock forward, and only Heard sets a beat.
LEMMA QuietStep ==
    ASSUME HolderInv, [HolderNext]_<<vars, quiet>>
    PROVE  QuietType' /\ BeatsYoung'
<1> USE DEF HolderInv, QuietType, BeatsYoung, TypeOK
<1>1. Stale \in Nat
  BY LeaseAssumption
<1>2. CASE Tick /\ quiet' = [a \in Agents |-> Grow(quiet[a])]
  <2>1. \A a \in Agents : /\ quiet[a] \in 0 .. Stale + 1
                          /\ quiet'[a] = IF quiet[a] > Stale THEN quiet[a] ELSE quiet[a] + 1
    BY <1>2 DEF Grow
  <2>2. quiet' \in [Agents -> 0 .. Stale + 1]
    BY <1>1, <1>2 DEF Grow
  <2>3. ASSUME NEW a \in Agents, quiet'[a] <= Stale PROVE wall' - beat'[a] <= quiet'[a]
    <3>1. quiet[a] <= Stale /\ quiet'[a] = quiet[a] + 1
      BY <1>1, <2>1, <2>3
    <3>2. wall' = wall + 1 /\ beat' = beat /\ beat[a] \in Nat /\ wall \in Nat
      BY <1>2 DEF Tick
    <3> QED
      BY <2>1, <3>1, <3>2
  <2> QED
    BY <2>2, <2>3
<1>3. ASSUME NEW a \in Agents, Heard(a), quiet' = [quiet EXCEPT ![a] = 0]
      PROVE  QuietType' /\ BeatsYoung'
  <2>1. beat' = [beat EXCEPT ![a] = wall] /\ wall' = wall
    BY <1>3 DEF Heard, AgentRegister, AgentHeartbeat
  <2>2. quiet' \in [Agents -> 0 .. Stale + 1]
    BY <1>1, <1>3
  <2>3. ASSUME NEW b \in Agents, quiet'[b] <= Stale PROVE wall' - beat'[b] <= quiet'[b]
    <3>1. CASE b = a
      BY <1>3, <2>1, <3>1
    <3>2. CASE b # a
      BY <1>3, <2>1, <2>3, <3>2
    <3> QED
      BY <3>1, <3>2
  <2> QED
    BY <2>2, <2>3
<1>4. CASE StepBack /\ UNCHANGED quiet
  <2>1. PICK d \in 1 .. WallSteps : wall' = wall - d
    BY <1>4 DEF StepBack
  <2>2. d \in Nat /\ beat' = beat
    BY <1>4, <2>1, LeaseAssumption DEF StepBack
  <2> QED
    BY <1>4, <2>1, <2>2
<1>5. CASE UNCHANGED <<wall, beat, quiet>>
  BY <1>5
<1> QED
  BY <1>2, <1>3, <1>4, <1>5
     DEF HolderNext, vars, ReadNow, Restart, Acquire, Extend, Release, Recover, ProtectedWrite

\* HolderInv holds at every step.
LEMMA HolderInvStep == HolderInv /\ [HolderNext]_<<vars, quiet>> => HolderInv'
<1> SUFFICES ASSUME HolderInv, [HolderNext]_<<vars, quiet>> PROVE HolderInv'
  OBVIOUS
<1>1. TypeOK'
  BY HolderStepIsStep, TypeStep DEF HolderInv
<1> QED
  BY <1>1, QuietStep DEF HolderInv

\* A heartbeat is never older than the silence: the detailed types.
THEOREM BeatsHold == HolderSpec => []HolderInv
  BY HolderInitInv, HolderInvStep, PTL DEF HolderSpec

\* Only a grant or a recovery expires a lease, and only the current one, as an
\* orphan.
LEMMA EvictedIsOrphan ==
    ASSUME TypeOK, [HolderNext]_<<vars, quiet>>, NEW i \in DOMAIN leases, Evicted(i)
    PROVE  Orphaned(i)
<1>1. /\ leases \in Seq(Lease)
      /\ DOMAIN leases = 1 .. Len(leases)
      /\ leases[i].status = "active"
      /\ leases'[i].status = "expired"
      /\ HasActive
  BY LenProperties DEF TypeOK, Evicted, HasActive, ActiveIds
<1>2. ASSUME leases' = leases PROVE FALSE
  BY <1>1, <1>2
<1>3. ASSUME NEW h \in Holder, NEW ttl \in Ttls, Acquire(h, ttl) PROVE Orphaned(i)
  <2>1. leases'[i] = Closed("expired")[i]
    BY <1>1, <1>3, GrantTable DEF Acquire
  <2>2. i = Current
    BY <1>1, <2>1 DEF Closed
  <2> QED
    BY <1>1, <1>3, <2>2 DEF Acquire
<1>4. ASSUME NEW g \in Governors, Recover(g) PROVE Orphaned(i)
  <2>1. i = Current
    BY <1>1, <1>4 DEF Recover, Closed
  <2> QED
    BY <1>4, <2>1 DEF Recover
<1>5. ASSUME NEW k \in DOMAIN leases, Release(k) PROVE FALSE
  <2>1. CASE i = Current
    <3>1. Closed("released")[i].status = "released"
      BY <1>1, <2>1, TableRow DEF Closed, Lease
    <3> QED
      BY <1>1, <1>5, <3>1 DEF Release
  <2>2. CASE i # Current
    BY <1>1, <1>5, <2>2 DEF Release, Closed
  <2> QED
    BY <2>1, <2>2
<1>6. ASSUME NEW k \in DOMAIN leases, NEW ttl \in Ttls, Extend(k, ttl) PROVE FALSE
  <2>1. leases'[i] = [leases[i] EXCEPT !.expires = Now + ttl]
    BY <1>1, <1>6 DEF Extend
  <2>2. leases'[i].status = leases[i].status
    BY <1>1, <2>1, TableRow DEF Lease
  <2> QED
    BY <1>1, <2>2
<1> QED
  BY <1>2, <1>3, <1>4, <1>5, <1>6
     DEF HolderNext, Heard, vars, ReadNow, Tick, StepBack, Restart, AgentRegister,
         AgentHeartbeat, ProtectedWrite

\* An eviction by a clock that is not held ahead is of a silent holder.
LEMMA EvictedIsSilent ==
    ASSUME HolderInv, [HolderNext]_<<vars, quiet>>, NEW i \in DOMAIN leases,
           Evicted(i), wall >= last
    PROVE  ReallySilent(i)
<1> DEFINE a == leases[i].holder.agent
<1>1. a \in Agents
  BY TableRow DEF HolderInv, TypeOK, Lease, Holder
<1>2. HolderGone(i)
  BY EvictedIsOrphan DEF HolderInv, Orphaned, Evicted
<1>3. wall - beat[a] > Stale
  BY <1>2 DEF HolderGone, Evicted, Now
<1>4. /\ quiet[a] \in 0 .. Stale + 1 /\ Stale \in Nat
      /\ wall \in Nat /\ beat[a] \in Nat
      /\ quiet[a] <= Stale => wall - beat[a] <= quiet[a]
  BY <1>1, LeaseAssumption DEF HolderInv, QuietType, BeatsYoung, TypeOK
<1>5. quiet[a] > Stale
  BY <1>3, <1>4
<1> QED
  BY <1>5 DEF ReallySilent

\* While the daemon's clock is not held ahead of a wall clock that was set
\* back, orphan recovery and takeover leave a registered holder alone that has
\* beaten within Stale: across restarts, any steps of the clock, any staleness
\* limit and any rows of an older release (orphan_recovery_reason).
THEOREM HolderProtectedHolds == HolderSpec => HolderProtected
<1>1. HolderInv /\ [HolderNext]_<<vars, quiet>>
        => [\A i \in DOMAIN leases :
              Evicted(i) /\ wall >= last => ReallySilent(i)]_<<vars, quiet>>
  BY EvictedIsSilent
<1> QED
  BY <1>1, BeatsHold, PTL DEF HolderSpec, HolderProtected
=============================================================================
