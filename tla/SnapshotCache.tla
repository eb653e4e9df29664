----------------------------- MODULE SnapshotCache -----------------------------
(***************************************************************************)
(* The in-memory snapshots of the daemon (snapshot.rs): one manager for    *)
(* each cached workspace, which publishes generations of the CodeGraph     *)
(* database while queries read them (snapshot_state.rs).  All workers      *)
(* share the cache; each runs one handler at a time.  Publications of      *)
(* workspace.file.delete, snapshot.evict and gc.snapshots do not pass the  *)
(* serialization point, so they meet any other.                            *)
(*                                                                         *)
(* A manager or a snapshot lives as long as something refers to it.  A     *)
(* snapshot holds its database file open, and queries open the database    *)
(* again under the number of that file (/proc/self/fd/N).                  *)
(*                                                                         *)
(* A module can extend this one beside others: CacheInit, CacheNext and    *)
(* so on are its Init and Next.                                            *)
(***************************************************************************)
EXTENDS Integers, SequencesExt, Positions

CONSTANTS
    Workspaces,    \* workspace instances
    Workers,       \* threads that run handlers
    Capacity,      \* max_workspaces of the cache
    MaxManagers,   \* bound: managers made
    MaxGen         \* bound: generations of a manager

ASSUME SnapshotCacheAssumption ==
    /\ Capacity \in Nat \ {0}
    /\ MaxManagers \in Nat /\ MaxGen \in Nat

Snapshot == [ws : Workspaces, gen : Nat, fd : Nat]

\* current has at most one element; newest first in history.
Manager == [ws : Workspaces, next : Nat, current : SUBSET Snapshot, history : Seq(Snapshot)]

VARIABLES
    mgr,      \* every manager made, by its number
    cached,   \* the manager of each workspace in the cache; 0 when there is none
    order,    \* the order queue
    work      \* what each worker is doing

cacheVars == <<mgr, cached, order, work>>

NoWork == [pc |-> "idle", mgr |-> 0, held |-> {}, fd |-> 0, todo |-> <<>>]

\* held is the snapshot in hand: a new one, a replaced one, or one under guard.
Work == [pc : {"idle", "load", "alloc", "swap", "push", "gc", "evict", "find", "guard", "open", "meta"},
        mgr : Nat, held : SUBSET Snapshot, fd : Nat, todo : Seq(Workspaces)]

CacheTypeOK ==
    /\ mgr \in Seq(Manager)
    /\ \A m \in DOMAIN mgr : \A s \in mgr[m].current \cup ToSet(mgr[m].history) :
          s.ws = mgr[m].ws /\ s.gen \in 1 .. mgr[m].next - 1
    /\ cached \in [Workspaces -> 0 .. Len(mgr)]
    /\ order \in Seq(Workspaces)
    /\ work \in [Workers -> Work]

CacheInit ==
    /\ mgr = <<>>
    /\ cached = [ws \in Workspaces |-> 0]
    /\ order = <<>>
    /\ work = [w \in Workers |-> NoWork]

-----------------------------------------------------------------------------

Starts(w) == work[w].pc = "idle"
At(w, pc) == work[w].pc = pc
Goto(w, pc) == work' = [work EXCEPT ![w].pc = pc]
End(w) == work' = [work EXCEPT ![w] = NoWork]

InCache == {ws \in Workspaces : cached[ws] # 0}

\* The managers and the snapshots something refers to.
Referenced == {cached[ws] : ws \in InCache} \cup ({work[w].mgr : w \in Workers} \ {0})
Alive ==
    UNION ({mgr[m].current \cup ToSet(mgr[m].history) : m \in Referenced}
               \cup {work[w].held : w \in Workers})

-----------------------------------------------------------------------------
(* The cache *)

Full == Cardinality(InCache) >= Capacity

\* The places in the queue that are not stale: the first of them is evicted,
\* and what is before it is dropped.
Victims == {i \in DOMAIN order : order[i] \in InCache}

\* Mutant: the evicted workspace stays in the queue.
EvictedListed ==
    IF ~ Full THEN [cache |-> cached, queue |-> order]
    ELSE IF Victims = {} THEN [cache |-> cached, queue |-> <<>>]
    ELSE [cache |-> [cached EXCEPT ![order[Min(Victims)]] = 0],
          queue |-> SubSeq(order, Min(Victims), Len(order))]

Evicted ==
    IF ~ Full THEN [cache |-> cached, queue |-> order]
    ELSE IF Victims = {} THEN [cache |-> cached, queue |-> <<>>]
    ELSE [cache |-> [cached EXCEPT ![order[Min(Victims)]] = 0],
          queue |-> SubSeq(order, Min(Victims) + 1, Len(order))]

\* SnapshotCache::get_or_create, under the lock of the map, and the start of a
\* publication.
Find(w, ws) ==
    /\ Starts(w)
    /\ \/ /\ ws \in InCache
          /\ work' = [work EXCEPT ![w].pc = "load", ![w].mgr = cached[ws]]
          /\ UNCHANGED <<mgr, cached, order>>
       \/ /\ ws \notin InCache
          /\ Len(mgr) < MaxManagers
          /\ mgr' = Append(mgr, [ws |-> ws, next |-> 1, current |-> {}, history |-> <<>>])
          /\ cached' = [Evicted.cache EXCEPT ![ws] = Len(mgr) + 1]
          /\ order' = Append(Evicted.queue, ws)
          /\ work' = [work EXCEPT ![w].pc = "load", ![w].mgr = Len(mgr) + 1]

\* snapshot.evict: the map first, the order queue under a lock of its own.
Evict(w, ws) ==
    /\ Starts(w)
    /\ ws \in InCache
    /\ cached' = [cached EXCEPT ![ws] = 0]
    /\ work' = [work EXCEPT ![w].pc = "evict", ![w].todo = <<ws>>]
    /\ UNCHANGED <<mgr, order>>

EvictOrder(w) ==
    /\ At(w, "evict")
    /\ order' = AtPositions(order, {i \in DOMAIN order : order[i] # Head(work[w].todo)})
    /\ End(w)
    /\ UNCHANGED <<mgr, cached>>

\* gc.snapshots: the histories of the listed workspaces, one after the other.
Collect(w) ==
    /\ Starts(w)
    /\ work' = [work EXCEPT ![w].pc = "gc",
                          ![w].todo = AtPositions(order, Victims)]
    /\ UNCHANGED <<mgr, cached, order>>

Truncated(h, keep) == SubSeq(h, 1, IF keep < Len(h) THEN keep ELSE Len(h))

CollectOne(w) ==
    /\ At(w, "gc")
    /\ \/ work[w].todo = <<>> /\ End(w) /\ UNCHANGED mgr
       \/ /\ work[w].todo # <<>>
          /\ LET m == cached[Head(work[w].todo)] IN
             \E keep \in 0 .. 1 :
                mgr' = IF m = 0 THEN mgr
                       ELSE [mgr EXCEPT ![m].history = Truncated(@, keep)]
          /\ work' = [work EXCEPT ![w].todo = Tail(@)]
    /\ UNCHANGED <<cached, order>>

-----------------------------------------------------------------------------
(* build_and_publish_blocking *)

\* The database is loaded, or the publication fails.
Load(w) ==
    /\ At(w, "load")
    /\ Goto(w, "alloc") \/ End(w)
    /\ UNCHANGED <<mgr, cached, order>>

\* The system gives the lowest file number that is free.
FreeFd(n) ==
    /\ \A s \in Alive : s.fd # n
    /\ \A k \in 1 .. n - 1 : \E s \in Alive : s.fd = k

\* Mutant: the counter after the increment.
NextOfAfter(m) == mgr[m].next + 1

\* Mutant: the generation after the current one.
NextOfCurrent(m) ==
    IF mgr[m].current = {} THEN 1 ELSE (CHOOSE s \in mgr[m].current : TRUE).gen + 1

\* alloc_generation: the counter before the increment.
NextGen(m) == mgr[m].next

\* The generation is taken and the database file opened.
Alloc(w) ==
    LET m == work[w].mgr IN
    /\ At(w, "alloc")
    /\ mgr[m].next <= MaxGen
    /\ \E n \in 1 .. Cardinality(Alive) + 1 :
          /\ FreeFd(n)
          /\ work' = [work EXCEPT
                ![w].pc = "swap",
                ![w].held = {[ws |-> mgr[m].ws, gen |-> NextGen(m), fd |-> n]}]
    /\ mgr' = [mgr EXCEPT ![m].next = @ + 1]
    /\ UNCHANGED <<cached, order>>

\* publish: the new snapshot replaces the current one, which the publisher
\* now holds.
Swap(w) ==
    LET m == work[w].mgr IN
    /\ At(w, "swap")
    /\ mgr' = [mgr EXCEPT ![m].current = work[w].held]
    /\ IF mgr[m].current = {} THEN End(w)
       ELSE work' = [work EXCEPT ![w].pc = "push", ![w].held = mgr[m].current]
    /\ UNCHANGED <<cached, order>>

Pushed(h, S) == SetToSeq(S) \o h

\* A reader's guard keeps the publisher from owning the replaced snapshot, and
\* then it is dropped; otherwise it goes to the front of the history.
Guarded(S) == \E w \in Workers : At(w, "guard") /\ work[w].held = S

Push(w) ==
    /\ At(w, "push")
    /\ mgr' = IF Guarded(work[w].held) THEN mgr
              ELSE [mgr EXCEPT ![work[w].mgr].history = Pushed(@, work[w].held)]
    /\ End(w)
    /\ UNCHANGED <<cached, order>>

-----------------------------------------------------------------------------
(* Queries *)

\* get: without a manager the answer is snapshot_not_ready.
Query(w, ws) ==
    /\ Starts(w)
    /\ ws \in InCache
    /\ work' = [work EXCEPT ![w].pc = "find", ![w].mgr = cached[ws],
                          ![w].todo = <<ws>>]
    /\ UNCHANGED <<mgr, cached, order>>

\* The current snapshot is loaded under a guard: for its path or its store.
Guard(w) ==
    LET S == mgr[work[w].mgr].current IN
    /\ At(w, "find")
    /\ \/ S = {} /\ End(w)
       \/ S # {} /\ work' = [work EXCEPT ![w].pc = "guard", ![w].held = S]
    /\ UNCHANGED <<mgr, cached, order>>

\* current_query_db_path: the path outlives the guard.  query.symbol keeps the
\* manager; open_query_connection, which most queries use, does not.
TakePath(w) ==
    /\ At(w, "guard")
    /\ \E m \in {0, work[w].mgr} :
          work' = [work EXCEPT ![w].pc = "open", ![w].mgr = m, ![w].held = {},
                                ![w].fd = (CHOOSE s \in work[w].held : TRUE).fd]
    /\ UNCHANGED <<mgr, cached, order>>

\* The database is opened by its path and read; a path to nothing is an error.
OpenPath(w) ==
    /\ At(w, "open")
    /\ End(w)
    /\ UNCHANGED <<mgr, cached, order>>

\* query.stats: the store is kept, the guard and the manager are dropped, and
\* the generation is looked up afterwards.
TakeStore(w) ==
    /\ At(w, "guard")
    /\ work' = [work EXCEPT ![w].pc = "meta", ![w].mgr = 0, ![w].held = {}]
    /\ UNCHANGED <<mgr, cached, order>>

\* The manager is looked up again.
Meta(w) ==
    /\ At(w, "meta")
    /\ End(w)
    /\ UNCHANGED <<mgr, cached, order>>

-----------------------------------------------------------------------------

WorkerStep(w) ==
    \/ EvictOrder(w) \/ CollectOne(w)
    \/ Load(w) \/ Alloc(w) \/ Swap(w) \/ Push(w)
    \/ Guard(w) \/ TakePath(w) \/ OpenPath(w) \/ TakeStore(w) \/ Meta(w)

CacheNext ==
    \/ \E w \in Workers, ws \in Workspaces : Find(w, ws) \/ Evict(w, ws) \/ Query(w, ws)
    \/ \E w \in Workers : Collect(w) \/ WorkerStep(w)

CacheSpec == CacheInit /\ [][CacheNext]_cacheVars

-----------------------------------------------------------------------------
(* Properties *)

\* Worker w has a snapshot of manager m in hand that is not in its history yet.
Publishing(w, m) == work[w].mgr = m /\ work[w].pc \in {"swap", "push"}

\* No generation of a manager is there twice, whichever publications pass each
\* other: neither two publishers, nor a publisher and the manager, nor the
\* current one and the history, nor two places of the history hold the same
\* (alloc_generation, SnapshotManager::publish).
GenerationsDistinct ==
    \A m \in 1 .. Len(mgr) :
        LET C == mgr[m].current
            h == mgr[m].history
        IN  /\ \A s \in C, i \in DOMAIN h : s.gen # h[i].gen
            /\ \A i, j \in DOMAIN h : i # j => h[i].gen # h[j].gen
            /\ \A w \in Workers : Publishing(w, m) =>
                  \A s \in work[w].held :
                    /\ \A c \in C : s.gen # c.gen
                    /\ \A i \in DOMAIN h : s.gen # h[i].gen
                    /\ \A v \in Workers \ {w} : Publishing(v, m) =>
                          \A x \in work[v].held : s.gen # x.gen

\* The queue lists a workspace that is not cached, or one twice, only while an
\* eviction of it is under way: no stale entry stays behind, whatever caches
\* the workspace again in between (SnapshotCache::evict, get_or_create).
QueueCleared ==
    \A i \in DOMAIN order :
        \/ \E w \in Workers : At(w, "evict") /\ Head(work[w].todo) = order[i]
        \/ order[i] \in InCache /\ \A j \in DOMAIN order \ {i} : order[j] # order[i]

-----------------------------------------------------------------------------
(* What comments of snapshot.rs say and several workers do not keep *)

\* The current snapshot is the newest, and the history is sorted, newest
\* first (SnapshotManager: "current" is always the newest generation).  Two
\* publications can pass each other between the generation and the swap.
CurrentIsNewest ==
    \A m \in 1 .. Len(mgr) :
        LET h == mgr[m].history
        IN  /\ \A s \in mgr[m].current, i \in DOMAIN h : s.gen > h[i].gen
            /\ \A i, j \in DOMAIN h : i < j => h[i].gen > h[j].gen

\* Whenever no eviction is under way, every cached workspace is in the queue
\* that evictions and collections go by, and the cache is within its capacity
\* (SnapshotCache.order is in step with managers).  A workspace cached again
\* between the two halves of its eviction is taken out of the queue.
OrderMatches ==
    (\A w \in Workers : ~ At(w, "evict")) =>
        /\ InCache \subseteq ToSet(order)
        /\ Cardinality(InCache) <= Capacity

\* The path a query opens still leads to a database of its workspace
\* (current_query_db_path: a stable path).  The number of a closed file is
\* given to another.
PathIsOwn ==
    \A w \in Workers : At(w, "open") =>
        \E s \in Alive : s.fd = work[w].fd /\ s.ws = Head(work[w].todo)
================================================================================
