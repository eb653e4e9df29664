--------------------------- MODULE AgentWatcherProofs ---------------------------
(***************************************************************************)
(* Proofs about AgentWatcher for any files, threads and bounds.            *)
(***************************************************************************)
EXTENDS AgentWatcher, TLAPS

\* What a thread goes on with is a thread.
LEMMA ListedThread ==
  ASSUME NEW left \in SUBSET Files
  PROVE  /\ Listed(left) \in Thread /\ Listed(left).todo = left
         /\ Listed(left).at \in {"idle", "next"}
         /\ Listed(left).at = "idle" <=> left = {}
  BY DEF Listed, Idle, Thread

-----------------------------------------------------------------------------

\* Types of what a thread's step reads.
LEMMA ThreadParts ==
  ASSUME TypeOK, NEW t \in Threads
  PROVE  /\ threads[t].todo \in SUBSET Files /\ threads[t].again \in BOOLEAN
         /\ threads[t].at \in {"idle", "take", "next", "call", "reconnect", "connect"}
         /\ threads[t].at = "next" => threads[t].todo # {}
         /\ DOMAIN threads = Threads
         /\ DOMAIN threads[t] = {"at", "todo", "again"}
<1>1. /\ threads[t] \in Thread /\ DOMAIN threads = Threads
      /\ threads[t].at = "next" => threads[t].todo # {}
  BY DEF TypeOK
<1> QED
  BY <1>1 DEF Thread

\* A step that puts a thread in the place of another keeps the types.
LEMMA ThreadTypes ==
  ASSUME TypeOK, NEW t \in Threads, NEW new \in Thread,
         new.at = "next" => new.todo # {},
         threads' = [threads EXCEPT ![t] = new]
  PROVE  /\ threads' \in [Threads -> Thread]
         /\ \A u \in Threads : threads'[u].at = "next" => threads'[u].todo # {}
  BY DEF TypeOK

\* The initial state has the types.
LEMMA TypeInit == Init => TypeOK
<1> SUFFICES ASSUME Init PROVE TypeOK
  OBVIOUS
<1>1. Idle \in Thread /\ Idle.at = "idle"
  BY DEF Idle, Thread
<1>2. /\ threads \in [Threads -> Thread]
      /\ \A t \in Threads : threads[t].at = "next" => threads[t].todo # {}
  BY <1>1 DEF Init
<1>3. disk \in [Files -> Nat] /\ looked \in [Files -> Nat]
  BY DEF Init, Gone
<1>4. edits \in 0 .. MaxEdits /\ faults \in 0 .. MaxFaults
  BY AgentWatcherAssumption DEF Init
<1>5. /\ events \subseteq Files /\ calling \in Files \cup {NoFile} /\ pending \subseteq Files
      /\ armed \in BOOLEAN /\ active \in BOOLEAN /\ handshake \in Threads \cup {NoThread}
  BY DEF Init
<1> QED
  BY <1>2, <1>3, <1>4, <1>5 DEF TypeOK

\* Every step of a thread keeps the types.
LEMMA WorkTypes ==
  ASSUME TypeOK, NEW t \in Threads, Work(t)
  PROVE  TypeOK'
<1> USE AgentWatcherAssumption
<1> DEFINE th == threads[t]
<1> DEFINE Good(new) == new \in Thread /\ (new.at = "next" => new.todo # {})
<1>0. th \in Thread /\ th.todo \in SUBSET Files /\ th.again \in BOOLEAN
  BY DEF TypeOK, Thread
<1>9. \A left \in SUBSET Files : Good(Listed(left)) /\ Good(Done(left))
  BY ListedThread DEF Done
<1>1. CASE Take(t)
  <2>1. Good(Listed(pending))
    BY <1>9 DEF TypeOK
  <2>2. /\ threads' = [threads EXCEPT ![t] = Listed(pending)]
        /\ UNCHANGED <<files, events, calling, armed, handshake, active, faults, looked>>
        /\ pending' = {}
    BY <1>1 DEF Take
  <2> QED
    BY <2>1, <2>2, ThreadTypes DEF TypeOK, files
<1>2. ASSUME NEW f \in Files, Read(t, f) PROVE TypeOK'
  <2>1. th.todo \ {f} \in SUBSET Files
    BY <1>0
  <2>2. Good(Done(th.todo \ {f}))
    BY <1>9, <2>1
  <2>3. Good([th EXCEPT !.at = "call", !.todo = th.todo \ {f}])
    BY <1>0, <2>1 DEF Thread
  <2>4. PICK new : Good(new) /\ threads' = [threads EXCEPT ![t] = new]
    <3>1. \/ threads' = [threads EXCEPT ![t].at = "call", ![t].todo = th.todo \ {f}]
          \/ threads' = [threads EXCEPT ![t] = Done(th.todo \ {f})]
      BY <1>2 DEF Read
    <3>2. [threads EXCEPT ![t].at = "call", ![t].todo = th.todo \ {f}]
            = [threads EXCEPT ![t] = [th EXCEPT !.at = "call", !.todo = th.todo \ {f}]]
      BY DEF TypeOK
    <3> QED
      BY <2>2, <2>3, <3>1, <3>2
  <2>5. faults' \in 0 .. MaxFaults
    BY <1>2 DEF Read, Fault, TypeOK
  <2>6. looked' \in [Files -> Nat]
    BY <1>2 DEF Read, TypeOK
  <2>7. UNCHANGED <<files, queue, handshake, active>>
    BY <1>2 DEF Read
  <2> QED
    BY <2>4, <2>5, <2>6, <2>7, ThreadTypes DEF TypeOK, files, queue
<1>3. CASE Call(t)
  <2>1. Good([th EXCEPT !.at = "reconnect", !.again = TRUE])
    BY <1>0 DEF Thread
  <2>2. Good(Done(th.todo))
    BY <1>0, <1>9
  <2>3. PICK new : Good(new) /\ threads' = [threads EXCEPT ![t] = new]
    BY <1>3, <2>1, <2>2 DEF Call, TypeOK
  <2>4. UNCHANGED <<files, queue, handshake, active, faults, looked>>
    BY <1>3 DEF Call
  <2> QED
    BY <2>3, <2>4, ThreadTypes DEF TypeOK, files, queue
<1>4. CASE Reconnect(t)
  <2>1. Good([th EXCEPT !.at = "connect"]) /\ Good([th EXCEPT !.at = "call"])
    BY <1>0 DEF Thread
  <2>2. PICK new : Good(new) /\ threads' = [threads EXCEPT ![t] = new]
    BY <1>4, <2>1 DEF Reconnect, TypeOK
  <2>3. UNCHANGED <<files, queue, active, faults, looked>> /\ handshake' \in Threads \cup {NoThread}
    BY <1>4 DEF Reconnect, TypeOK
  <2> QED
    BY <2>2, <2>3, ThreadTypes DEF TypeOK, files, queue
<1>5. CASE Connect(t)
  <2>1. Good(Done(th.todo)) /\ threads' = [threads EXCEPT ![t] = Done(th.todo)]
    BY <1>0, <1>5, <1>9 DEF Connect, TypeOK
  <2>2. UNCHANGED <<files, queue, active, faults, looked>> /\ handshake' = NoThread
    BY <1>5 DEF Connect
  <2> QED
    BY <2>1, <2>2, ThreadTypes DEF TypeOK, files, queue
<1> QED
  BY <1>1, <1>2, <1>3, <1>4, <1>5 DEF Work

\* The other agent, the editor, the dispatcher and the timer take no part in a
\* handshake.
Outside ==
    \/ \E f \in Files : Write(f) \/ Remove(f)
    \/ Revoke \/ Dispatch
    \/ \E t \in Threads : Fire(t)

LEMMA OutsideKeeps ==
  ASSUME TypeOK, Outside
  PROVE  /\ TypeOK' /\ UNCHANGED handshake
         /\ \A t \in Threads : threads'[t].at = "connect" <=> threads[t].at = "connect"
<1> USE AgentWatcherAssumption
<1>1. ASSUME NEW f \in Files, Write(f) PROVE TypeOK' /\ UNCHANGED <<threads, handshake>>
  <2>1. edits' \in 0 .. MaxEdits /\ edits' \in Nat
    BY <1>1 DEF Write, TypeOK
  <2>2. disk' \in [Files -> Nat]
    BY <1>1, <2>1 DEF Write, TypeOK
  <2> QED
    BY <1>1, <2>1, <2>2 DEF Write, TypeOK
<1>2. ASSUME NEW f \in Files, Remove(f) PROVE TypeOK' /\ UNCHANGED <<threads, handshake>>
  <2>1. disk' \in [Files -> Nat]
    BY <1>2 DEF Remove, TypeOK, Gone
  <2> QED
    BY <1>2, <2>1 DEF Remove, TypeOK, queue
<1>3. CASE Revoke
  <2>1. active' \in BOOLEAN /\ UNCHANGED <<files, queue, threads, handshake, faults, looked>>
    BY <1>3 DEF Revoke
  <2> QED
    BY <2>1 DEF TypeOK, files, queue
<1>4. CASE Dispatch
  BY <1>4 DEF Dispatch, Schedule, Scheduled, OnChange, TypeOK, files
<1>5. ASSUME NEW t \in Threads, Fire(t)
      PROVE  /\ TypeOK' /\ UNCHANGED handshake
             /\ \A u \in Threads : threads'[u].at = "connect" <=> threads[u].at = "connect"
  <2>1. [threads[t] EXCEPT !.at = "take"] \in Thread /\ [threads[t] EXCEPT !.at = "take"].at = "take"
    BY DEF TypeOK, Thread
  <2>2. threads' = [threads EXCEPT ![t] = [threads[t] EXCEPT !.at = "take"]] /\ armed' \in BOOLEAN
    BY <1>5 DEF Fire, TypeOK
  <2>3. UNCHANGED <<files, events, calling, pending, handshake, active, faults, looked>>
    BY <1>5 DEF Fire
  <2>4. TypeOK'
    BY <2>1, <2>2, <2>3, ThreadTypes DEF TypeOK, files
  <2>5. /\ \A u \in Threads \ {t} : threads'[u] = threads[u]
        /\ threads'[t].at = "take" /\ threads[t].at = "idle"
    BY <1>5, ThreadParts DEF Fire
  <2> QED
    BY <2>3, <2>4, <2>5
<1> QED
  BY <1>1, <1>2, <1>3, <1>4, <1>5 DEF Outside

LEMMA NextSplit == Next <=> Outside \/ \E t \in Threads : Work(t)
  BY DEF Next, Outside

LEMMA TypeStep == TypeOK /\ [Next]_vars => TypeOK'
<1> SUFFICES ASSUME TypeOK, [Next]_vars PROVE TypeOK'
  OBVIOUS
<1>1. CASE UNCHANGED vars
  BY <1>1 DEF vars, TypeOK, files, queue
<1> QED
  BY <1>1, NextSplit, OutsideKeeps, WorkTypes

\* Every variable keeps its type, for any number of threads and of faults.
THEOREM TypeCorrect == Spec => []TypeOK
  BY TypeInit, TypeStep, PTL DEF Spec

-----------------------------------------------------------------------------
(* The reconnection *)

LEMMA HandshakeInit == Init => HandshakeHeld
  BY AgentWatcherAssumption DEF Init, HandshakeHeld, Idle

\* A step of a thread that is not at its handshake, and does not begin one.
LEMMA HandshakeApart ==
  ASSUME TypeOK, HandshakeHeld, NEW t \in Threads,
         \A u \in Threads \ {t} : threads'[u] = threads[u],
         threads[t].at # "connect", threads'[t].at # "connect",
         handshake' = handshake
  PROVE  HandshakeHeld'
  BY DEF HandshakeHeld

LEMMA HandshakeWork ==
  ASSUME TypeOK, HandshakeHeld, NEW t \in Threads, Work(t)
  PROVE  HandshakeHeld'
<1>0. t # NoThread
  BY AgentWatcherAssumption
<1>1. CASE Take(t)
  <2>1. Listed(pending).at \in {"idle", "next"}
    BY ListedThread DEF TypeOK
  <2>2. /\ \A u \in Threads \ {t} : threads'[u] = threads[u]
        /\ threads[t].at = "take" /\ threads'[t] = Listed(pending) /\ handshake' = handshake
    BY <1>1, ThreadParts DEF Take
  <2> QED
    BY <2>1, <2>2, HandshakeApart
<1>2. ASSUME NEW f \in Files, Read(t, f) PROVE HandshakeHeld'
  <2>1. Done(threads[t].todo \ {f}).at \in {"idle", "next"}
    BY ThreadParts, ListedThread DEF Done
  <2>2. /\ \A u \in Threads \ {t} : threads'[u] = threads[u]
        /\ threads[t].at = "next" /\ threads'[t].at \in {"idle", "next", "call"}
        /\ handshake' = handshake
    BY <1>2, <2>1, ThreadParts DEF Read
  <2> QED
    BY <2>2, HandshakeApart
<1>3. CASE Call(t)
  <2>1. Done(threads[t].todo).at \in {"idle", "next"}
    BY ThreadParts, ListedThread DEF Done
  <2>2. [threads[t] EXCEPT !.at = "reconnect", !.again = TRUE].at = "reconnect"
    BY ThreadParts
  <2>3. PICK new : threads' = [threads EXCEPT ![t] = new] /\ new.at \in {"idle", "next", "reconnect"}
    BY <1>3, <2>1, <2>2, ThreadParts DEF Call
  <2>4. /\ \A u \in Threads \ {t} : threads'[u] = threads[u]
        /\ threads[t].at = "call" /\ threads'[t] = new
        /\ handshake' = handshake
    BY <1>3, <2>3, ThreadParts DEF Call
  <2> QED
    BY <2>3, <2>4, HandshakeApart
<1>4. CASE Reconnect(t)
  <2>1. /\ \A u \in Threads \ {t} : threads'[u] = threads[u]
        /\ threads[t].at = "reconnect"
    BY <1>4, ThreadParts DEF Reconnect
  <2>2. CASE LockFree
    <3>1. handshake = NoThread /\ handshake' = t /\ threads'[t].at = "connect"
      BY <1>4, <2>2, ThreadParts DEF Reconnect, LockFree
    <3> QED
      BY <1>0, <2>1, <3>1, AgentWatcherAssumption DEF HandshakeHeld
  <2>3. CASE ~ LockFree
    <3>1. handshake' = handshake /\ threads'[t].at = "call"
      BY <1>4, <2>3, ThreadParts DEF Reconnect
    <3> QED
      BY <2>1, <3>1, HandshakeApart
  <2> QED
    BY <2>2, <2>3
<1>5. CASE Connect(t)
  <2>1. Done(threads[t].todo).at \in {"idle", "next"}
    BY ThreadParts, ListedThread DEF Done
  <2>2. /\ \A u \in Threads \ {t} : threads'[u] = threads[u]
        /\ threads'[t].at \in {"idle", "next"}
        /\ threads[t].at = "connect" /\ handshake' = NoThread
    BY <1>5, <2>1, ThreadParts DEF Connect
  <2>3. \A u \in Threads \ {t} : threads[u].at # "connect"
    BY <2>2 DEF HandshakeHeld
  <2> QED
    BY <1>0, <2>2, <2>3, AgentWatcherAssumption DEF HandshakeHeld
<1> QED
  BY <1>1, <1>2, <1>3, <1>4, <1>5 DEF Work

LEMMA HandshakeStep == TypeOK /\ HandshakeHeld /\ [Next]_vars => HandshakeHeld'
<1> SUFFICES ASSUME TypeOK, HandshakeHeld, [Next]_vars PROVE HandshakeHeld'
  OBVIOUS
<1>1. CASE UNCHANGED vars
  BY <1>1 DEF vars, HandshakeHeld
<1>2. CASE Outside
  BY <1>2, OutsideKeeps DEF HandshakeHeld
<1> QED
  BY <1>1, <1>2, HandshakeWork, NextSplit

\* One thread shakes hands at a time, and it gives the lock back however the
\* handshake ends, for any number of threads that meet a revoked session.
THEOREM HandshakeIsHeld == Spec => []HandshakeHeld
  BY HandshakeInit, HandshakeStep, TypeCorrect, PTL DEF Spec

-----------------------------------------------------------------------------
(* What is pending *)

\* A thread that has not taken its files has none.
EmptyHanded == \A t \in Threads : threads[t].at \in {"idle", "take"} => threads[t].todo = {}

\* What becomes of a change that was noticed but not yet looked at.
Noticed(f) ==
    \/ f \in events
    \/ /\ f \in pending
       /\ armed \/ calling # NoFile \/ \E t \in Threads : threads[t].at = "take"
    \/ \E t \in Threads : f \in threads[t].todo

NoticedInv == EmptyHanded /\ ChangeNoticed

LEMMA NoticedInit == Init => NoticedInv
  BY DEF Init, NoticedInv, EmptyHanded, ChangeNoticed, Idle

\* A step that leaves the files, the queue and what is on the threads' lists.
LEMMA NoticedApart ==
  ASSUME TypeOK, NoticedInv, NEW t \in Threads,
         UNCHANGED <<files, queue, looked>>,
         \A u \in Threads \ {t} : threads'[u] = threads[u],
         threads'[t].todo = threads[t].todo,
         threads[t].at # "take",
         threads'[t].at = "idle" => threads'[t].todo = {},
         threads'[t].at # "take"
  PROVE  NoticedInv'
<1>1. EmptyHanded'
  BY DEF NoticedInv, EmptyHanded
<1>2. \A u \in Threads : threads'[u].todo = threads[u].todo
  OBVIOUS
<1>3. \A u \in Threads : threads[u].at = "take" => threads'[u].at = "take"
  OBVIOUS
<1>4. ChangeNoticed'
  BY <1>2, <1>3 DEF NoticedInv, ChangeNoticed, files, queue
<1> QED
  BY <1>1, <1>4 DEF NoticedInv

LEMMA NoticedWork ==
  ASSUME TypeOK, NoticedInv, NEW t \in Threads, Work(t)
  PROVE  NoticedInv'
<1> DEFINE th == threads[t]
<1>1. CASE Take(t)
  <2>1. /\ Listed(pending).todo = pending
        /\ Listed(pending).at \in {"idle", "next"}
        /\ Listed(pending).at = "idle" => pending = {}
    BY ListedThread DEF TypeOK
  <2>2. /\ th.at = "take"
        /\ threads'[t] = Listed(pending)
        /\ \A u \in Threads \ {t} : threads'[u] = threads[u]
        /\ UNCHANGED <<files, events, calling, armed, looked>>
    BY <1>1, ThreadParts DEF Take
  <2>3. th.todo = {}
    BY <2>2 DEF NoticedInv, EmptyHanded
  <2>4. EmptyHanded'
    BY <2>1, <2>2 DEF NoticedInv, EmptyHanded
  <2>5. ASSUME NEW f \in Files, disk'[f] \notin {Gone, looked'[f]}
        PROVE  f \in events' \/ \E u \in Threads : f \in threads'[u].todo
    <3>1. f \in events \/ f \in pending \/ \E u \in Threads : f \in threads[u].todo
      BY <2>2, <2>5 DEF NoticedInv, ChangeNoticed, files
    <3> QED
      BY <2>1, <2>2, <2>3, <3>1
  <2>6. ChangeNoticed'
    BY <2>5 DEF ChangeNoticed
  <2> QED
    BY <2>4, <2>6 DEF NoticedInv
<1>2. ASSUME NEW f \in Files, Read(t, f) PROVE NoticedInv'
  <2> DEFINE left == th.todo \ {f}
  <2>0. left \in SUBSET Files
    BY ThreadParts
  <2>1. Done(left).todo = left /\ Done(left).at \in {"idle", "next"} /\ (Done(left).at = "idle" => left = {})
    BY <2>0, ListedThread DEF Done
  <2>2. /\ th.at = "next"
        /\ threads'[t].todo = left
        /\ threads'[t].at \in {"call", "idle", "next"}
        /\ threads'[t].at = "idle" => left = {}
        /\ \A u \in Threads \ {t} : threads'[u] = threads[u]
        /\ UNCHANGED <<files, queue>>
    BY <1>2, <2>1, ThreadParts DEF Read
  <2>3. looked' = [looked EXCEPT ![f] = disk[f]]
    BY <1>2 DEF Read
  <2>4. EmptyHanded'
    BY <2>2 DEF NoticedInv, EmptyHanded
  <2>5. ASSUME NEW g \in Files, disk'[g] \notin {Gone, looked'[g]} PROVE Noticed(g)'
    <3>1. g # f /\ looked'[g] = looked[g] /\ disk'[g] = disk[g]
      BY <2>2, <2>3, <2>5 DEF TypeOK, files
    <3>2. Noticed(g)
      BY <2>5, <3>1 DEF NoticedInv, ChangeNoticed, Noticed
    <3>3. \A u \in Threads : g \in threads[u].todo => g \in threads'[u].todo
      BY <2>2, <3>1
    <3>4. \A u \in Threads : threads[u].at = "take" => threads'[u].at = "take"
      BY <2>2
    <3> QED
      BY <2>2, <3>2, <3>3, <3>4 DEF Noticed, queue
  <2>6. ChangeNoticed'
    BY <2>5 DEF ChangeNoticed, Noticed
  <2> QED
    BY <2>4, <2>6 DEF NoticedInv
<1>3. CASE Call(t) \/ Reconnect(t) \/ Connect(t)
  <2>1. /\ Done(th.todo).todo = th.todo /\ Done(th.todo).at \in {"idle", "next"}
        /\ Done(th.todo).at = "idle" => th.todo = {}
    BY ThreadParts, ListedThread DEF Done
  <2>2. /\ UNCHANGED <<files, queue, looked>>
        /\ th.at # "take"
    BY <1>3 DEF Call, Reconnect, Connect
  <2>3. /\ \A u \in Threads \ {t} : threads'[u] = threads[u]
        /\ threads'[t].todo = th.todo
        /\ threads'[t].at # "take"
        /\ threads'[t].at = "idle" => threads'[t].todo = {}
    <3>1. CASE Call(t)
      <4>1. /\ [th EXCEPT !.at = "reconnect", !.again = TRUE].at = "reconnect"
            /\ [th EXCEPT !.at = "reconnect", !.again = TRUE].todo = th.todo
        BY DEF TypeOK, Thread
      <4>2. PICK new : /\ threads' = [threads EXCEPT ![t] = new]
                       /\ new.at \in {"reconnect", "idle", "next"}
                       /\ new.todo = th.todo
                       /\ new.at = "idle" => th.todo = {}
        BY <2>1, <3>1, <4>1, ThreadParts DEF Call
      <4> QED
        BY <4>2, ThreadParts
    <3>2. CASE Reconnect(t)
      BY <3>2, ThreadParts DEF Reconnect
    <3>3. CASE Connect(t)
      BY <2>1, <3>3, ThreadParts DEF Connect
    <3> QED
      BY <1>3, <3>1, <3>2, <3>3
  <2> QED
    BY <2>2, <2>3, NoticedApart
<1> QED
  BY <1>1, <1>2, <1>3 DEF Work

LEMMA NoticedOutside ==
  ASSUME TypeOK, NoticedInv, Outside
  PROVE  NoticedInv'
<1>0. EmptyHanded /\ \A f \in Files : disk[f] \notin {Gone, looked[f]} => Noticed(f)
  BY DEF NoticedInv, ChangeNoticed, Noticed
<1> SUFFICES EmptyHanded' /\ \A f \in Files : disk'[f] \notin {Gone, looked'[f]} => Noticed(f)'
  BY DEF NoticedInv, ChangeNoticed, Noticed
<1>1. ASSUME NEW f \in Files, Write(f)
      PROVE  EmptyHanded' /\ \A g \in Files : disk'[g] \notin {Gone, looked'[g]} => Noticed(g)'
  BY <1>0, <1>1 DEF Write, EmptyHanded, Noticed, TypeOK
<1>2. ASSUME NEW f \in Files, Remove(f)
      PROVE  EmptyHanded' /\ \A g \in Files : disk'[g] \notin {Gone, looked'[g]} => Noticed(g)'
  BY <1>0, <1>2 DEF Remove, EmptyHanded, Noticed, TypeOK, queue
<1>3. CASE Revoke
  BY <1>0, <1>3 DEF Revoke, EmptyHanded, Noticed, files, queue
<1>4. CASE Dispatch
  <2>1. UNCHANGED <<files, threads, looked>>
    BY <1>4 DEF Dispatch, Schedule, OnChange
  <2>2. EmptyHanded'
    BY <1>0, <2>1 DEF EmptyHanded
  <2>3. CASE Schedule
    <3>1. UNCHANGED <<events, pending>> /\ armed'
      BY <2>3 DEF Schedule, Scheduled
    <3> QED
      BY <1>0, <2>1, <2>2, <3>1 DEF Noticed, files
  <2>4. ASSUME NEW f \in Files, OnChange(f)
        PROVE  \A g \in Files : disk'[g] \notin {Gone, looked'[g]} => Noticed(g)'
    <3>1. /\ events' = events \ {f} /\ pending' = pending \cup {f} /\ calling' = f
          /\ f # NoFile
      BY <2>4, AgentWatcherAssumption DEF OnChange
    <3> QED
      BY <1>0, <2>1, <3>1 DEF Noticed, files
  <2> QED
    BY <1>4, <2>2, <2>3, <2>4 DEF Dispatch
<1>5. ASSUME NEW t \in Threads, Fire(t)
      PROVE  EmptyHanded' /\ \A g \in Files : disk'[g] \notin {Gone, looked'[g]} => Noticed(g)'
  <2>1. /\ \A u \in Threads : threads'[u].todo = threads[u].todo
        /\ threads'[t].at = "take" /\ threads[t].at = "idle"
        /\ \A u \in Threads \ {t} : threads'[u] = threads[u]
        /\ UNCHANGED <<files, events, calling, pending, looked>>
    BY <1>5, ThreadParts DEF Fire
  <2> QED
    BY <1>0, <2>1 DEF EmptyHanded, Noticed, files
<1> QED
  BY <1>1, <1>2, <1>3, <1>4, <1>5 DEF Outside

LEMMA NoticedStep == TypeOK /\ NoticedInv /\ [Next]_vars => NoticedInv'
<1> SUFFICES ASSUME TypeOK, NoticedInv, [Next]_vars PROVE NoticedInv'
  OBVIOUS
<1>1. CASE UNCHANGED vars
  BY <1>1 DEF vars, NoticedInv, EmptyHanded, ChangeNoticed, files, queue
<1> QED
  BY <1>1, NoticedWork, NoticedOutside, NextSplit

\* No change is lost between the dispatcher, the debounce timer and the threads
\* it starts, for any files and any number of threads at work at once.
THEOREM Noticing == Spec => []ChangeNoticed
<1>1. NoticedInv => ChangeNoticed
  BY DEF NoticedInv
<1> QED
  BY <1>1, NoticedInit, NoticedStep, TypeCorrect, PTL DEF Spec
===============================================================================
