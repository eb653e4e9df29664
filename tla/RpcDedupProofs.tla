---------------------------- MODULE RpcDedupProofs ----------------------------
(***************************************************************************)
(* Proofs about RpcDedup for any number of attempts, ids, params, and any  *)
(* retention.                                                              *)
(***************************************************************************)
EXTENDS RpcDedup, TLAPS

\* The attempts that reserved a row and may take effect, or have.
Reserver(a) == a \in ran \/ InFlight(a)

\* The row of a's id is the one that a reserved.
Holds(a) ==
    LET row == rows[req[a].id]
    IN  row # NoRow /\ row.at = born[a] /\ row.params = req[a].params

Apart(a, b) == born[a] + Retention < born[b] \/ born[b] + Retention < born[a]

\* Until its retention has passed, a reserver's row is there.
RowHeld ==
    \A a \in Attempts : Reserver(a) => Holds(a) \/ born[a] + Retention < wall

Spaced ==
    \A a, b \in Attempts :
        Reserver(a) /\ Reserver(b) /\ a # b /\ req[a].id = req[b].id => Apart(a, b)

Prompt == \A a \in Attempts : InFlight(a) => wall <= born[a] + Retention

\* An outcome is written once, by its own attempt.
OutOwn ==
    \A a \in Attempts :
        /\ pc[a] \in {"idle", "check", "queue", "enter"} => out[a] = Null
        /\ pc[a] = "store" => out[a] # Null
        /\ a \in ran => out[a] # Null
        /\ out[a] # Null => out[a].by = a /\ (out[a].kind = "ok" => a \in ran)

\* A stored response is the outcome of an attempt with the row's id and params.
RowExact ==
    \A k \in Ids :
        rows[k] # NoRow /\ rows[k].response # Null =>
            LET o == rows[k].response
            IN  /\ o = out[o.by]
                /\ req[o.by] = [id |-> k, params |-> rows[k].params]

-----------------------------------------------------------------------------
(* Type correctness *)

\* The variables keep their types: what is stored is an outcome.
LEMMA TypeStep == TypeOK /\ OutOwn /\ [Next]_vars => TypeOK'
<1> SUFFICES ASSUME TypeOK, OutOwn, [Next]_vars PROVE TypeOK'
  OBVIOUS
<1> USE DEF TypeOK
<1>1. Purged \in [Ids -> Row \cup {NoRow}]
  BY DEF Purged, Kept
<1>2. CASE UNCHANGED vars
  BY <1>2 DEF vars
<1>3. ASSUME NEW a \in Attempts, Send(a) PROVE TypeOK'
  BY <1>3 DEF Send
<1>4. ASSUME NEW a \in Attempts, NEW async \in BOOLEAN, First(a, async) PROVE TypeOK'
  <2>1. [params |-> req[a].params, response |-> Null, at |-> wall] \in Row
    BY DEF Row, Request
  <2>2. rows' \in [Ids -> Row \cup {NoRow}]
    BY <1>1, <1>4, <2>1 DEF First, Reserved
  <2>3. Told("accepted") \in Notice
    BY DEF Told, Notice
  <2>4. reply' \in [Attempts -> Outcome \cup Notice \cup {Null}]
    BY <1>4, <2>3 DEF First
  <2>5. detached' \subseteq Attempts
    BY <1>4 DEF First
  <2> QED
    BY <1>4, <2>2, <2>4, <2>5 DEF First
<1>5. ASSUME NEW a \in Attempts, NEW r \in Outcome \cup Notice, Answer(a, r)
      PROVE  TypeOK'
  BY <1>1, <1>5 DEF Answer
<1>6. ASSUME NEW a \in Attempts, Replay(a) PROVE TypeOK'
  <2>1. RowOf(a) \in Row \cup {NoRow} /\ RowOf(a) # NoRow
    BY <1>6 DEF Replay, SameParams, RowOf, Kept, Request
  <2>2. RowOf(a).response \in Outcome
    BY <1>6, <2>1 DEF Replay, Row
  <2> QED
    BY <1>5, <1>6, <2>2 DEF Replay
<1>7. ASSUME NEW a \in Attempts, Mismatch(a) \/ GiveUp(a) PROVE TypeOK'
  BY <1>5, <1>7 DEF Mismatch, GiveUp, Told, Notice
<1>8. ASSUME NEW a \in Attempts, LockState(a) PROVE TypeOK'
  BY <1>8 DEF LockState
<1>9. ASSUME NEW a \in Attempts, NEW kind \in {"ok", "error", "request_timeout"},
             Dispatched(a, kind), ran' \subseteq Attempts
      PROVE  TypeOK'
  <2>1. [by |-> a, kind |-> kind] \in Outcome
    BY DEF Outcome
  <2> QED
    BY <1>9, <2>1 DEF Dispatched
<1>10. ASSUME NEW a \in Attempts, Dispatch(a) PROVE TypeOK'
  BY <1>9, <1>10 DEF Dispatch, Run, Fail, TimeOut
<1>11. ASSUME NEW a \in Attempts, NEW kept \in BOOLEAN, Store(a, kept) PROVE TypeOK'
  <2>1. out[a] \in Outcome
    BY <1>11 DEF Store, OutOwn
  <2>2. rows[req[a].id] # NoRow =>
          [rows[req[a].id] EXCEPT !.response = out[a]] \in Row
    BY <2>1 DEF Row, Request
  <2>3. rows' \in [Ids -> Row \cup {NoRow}]
    BY <1>11, <2>2 DEF Store
  <2>4. reply' \in [Attempts -> Outcome \cup Notice \cup {Null}]
    BY <1>11, <2>1 DEF Store
  <2> QED
    BY <1>11, <2>3, <2>4 DEF Store
<1>12. ASSUME NEW a \in Attempts, Drop(a) \/ Panic(a) PROVE TypeOK'
  BY <1>12 DEF Drop, Panic
<1>13. CASE Crash
  BY <1>13 DEF Crash
<1>14. CASE OtherBegin \/ OtherEnd
  BY <1>14 DEF OtherBegin, OtherEnd
<1>15. CASE Tick
  BY <1>15 DEF Tick
<1> QED
  BY <1>2, <1>3, <1>4, <1>6, <1>7, <1>8, <1>10, <1>11, <1>12, <1>13, <1>14, <1>15
     DEF Next, Check

\* An attempt's outcome is written once, by its dispatch.
LEMMA OutStep == TypeOK /\ OutOwn /\ [Next]_vars => OutOwn'
<1> SUFFICES ASSUME TypeOK, OutOwn, [Next]_vars PROVE OutOwn'
  OBVIOUS
<1> USE DEF TypeOK, OutOwn
<1>1. CASE UNCHANGED <<pc, out, ran>>
  BY <1>1
<1>2. ASSUME NEW a \in Attempts,
             NEW s \in {"check", "queue", "enter", "done", "dropped"},
             pc' = [pc EXCEPT ![a] = s],
             s \in {"check", "queue", "enter"} =>
                pc[a] \in {"idle", "check", "queue", "enter"},
             UNCHANGED <<out, ran>>
      PROVE  OutOwn'
  BY <1>2
<1>3. ASSUME NEW a \in Attempts, NEW kind \in {"ok", "error", "request_timeout"},
             Dispatched(a, kind),
             ran' = IF kind = "ok" THEN ran \cup {a} ELSE ran
      PROVE  OutOwn'
  <2>1. [by |-> a, kind |-> kind] # Null
    BY NullAssumption DEF Outcome
  <2>2. out' = [out EXCEPT ![a] = [by |-> a, kind |-> kind]]
        /\ pc' = [pc EXCEPT ![a] = "store"]
        /\ pc[a] = "enter"
    BY <1>3 DEF Dispatched
  <2>3. ASSUME NEW b \in Attempts, b # a
        PROVE  out'[b] = out[b] /\ pc'[b] = pc[b] /\ (b \in ran' <=> b \in ran)
    BY <1>3, <2>2, <2>3
  <2>4. out'[a] = [by |-> a, kind |-> kind] /\ pc'[a] = "store"
    BY <2>2
  <2>5. a \in ran' => kind = "ok"
    BY <1>3, <2>2
  <2>6. kind = "ok" => a \in ran'
    BY <1>3
  <2> QED
    BY <2>1, <2>3, <2>4, <2>5, <2>6
<1>4. CASE Crash
  BY <1>4 DEF Crash
<1>5. ASSUME NEW a \in Attempts, Send(a) PROVE OutOwn'
  BY <1>2, <1>5 DEF Send
<1>6. ASSUME NEW a \in Attempts, Check(a) PROVE OutOwn'
  BY <1>2, <1>6 DEF Check, First, Replay, Mismatch, GiveUp, Answer
<1>7. ASSUME NEW a \in Attempts, LockState(a) PROVE OutOwn'
  BY <1>2, <1>7 DEF LockState
<1>8. ASSUME NEW a \in Attempts, Dispatch(a) PROVE OutOwn'
  BY <1>3, <1>8 DEF Dispatch, Run, Fail, TimeOut
<1>9. ASSUME NEW a \in Attempts, NEW kept \in BOOLEAN, Store(a, kept) PROVE OutOwn'
  BY <1>2, <1>9 DEF Store
<1>10. ASSUME NEW a \in Attempts, Drop(a) \/ Panic(a) PROVE OutOwn'
  BY <1>2, <1>10 DEF Drop, Panic
<1> QED
  BY <1>1, <1>4, <1>5, <1>6, <1>7, <1>8, <1>9, <1>10
     DEF Next, vars, OtherBegin, OtherEnd, Tick

\* The empty table and idle attempts have the right types.
LEMMA InitType == Init => TypeOK /\ OutOwn
<1> SUFFICES ASSUME Init PROVE TypeOK /\ OutOwn
  OBVIOUS
<1>1. rows \in [Ids -> Row \cup {NoRow}] /\ req \in [Attempts -> Request]
  BY DEF Init
<1>2. pc \in [Attempts -> {"idle", "check", "queue", "enter", "store", "done", "dropped"}]
  BY DEF Init
<1>3. born \in [Attempts -> Nat] /\ wall \in Nat
  BY DEF Init
<1>4. /\ out \in [Attempts -> Outcome \cup {Null}]
      /\ reply \in [Attempts -> Outcome \cup Notice \cup {Null}]
  BY DEF Init
<1>5. /\ detached \subseteq Attempts
      /\ lock \in Attempts \cup {NoAttempt}
      /\ other \in BOOLEAN
      /\ ran \subseteq Attempts
  BY Zenon DEF Init
<1>6. TypeOK
  BY <1>1, <1>2, <1>3, <1>4, <1>5 DEF TypeOK
<1>7. OutOwn
  BY DEF Init, OutOwn
<1> QED
  BY <1>6, <1>7

\* The type invariant of the dedup table and its attempts.
THEOREM TypeCorrect == Spec => []TypeOK
BY InitType, TypeStep, OutStep, PTL DEF Spec

-----------------------------------------------------------------------------
(* At most once *)

\* What a step does to the reservations: it leaves them alone, except for one
\* first attempt, and no attempt becomes a reserver by any other step.
Unreserved ==
    /\ \A k \in Ids :
          \/ rows'[k] = rows[k]
          \/ rows'[k] = Kept(k)
          \/ /\ rows[k] # NoRow /\ rows'[k] # NoRow
             /\ rows'[k].at = rows[k].at /\ rows'[k].params = rows[k].params
    /\ born' = born
    /\ req' = req
    /\ wall <= wall'
    /\ \A a \in Attempts : Reserver(a)' => Reserver(a)

LEMMA ReserveStep ==
    ASSUME TypeOK, OutOwn, [Next]_vars
    PROVE  \/ Unreserved
           \/ \E a \in Attempts, async \in BOOLEAN : First(a, async)
<1> USE DEF TypeOK
<1>1. CASE UNCHANGED <<rows, born, req, wall, ran, pc>>
  BY <1>1 DEF Unreserved, Reserver, InFlight
<1>2. ASSUME NEW a \in Attempts, NEW s \in {"check", "enter", "done", "dropped"},
             pc' = [pc EXCEPT ![a] = s],
             s = "enter" => InFlight(a),
             rows' = Purged \/ rows' = rows,
             UNCHANGED <<born, req, wall, ran>>
      PROVE  Unreserved
  <2>1. \A b \in Attempts : Reserver(b)' => Reserver(b)
    BY <1>2 DEF Reserver, InFlight
  <2>2. \A k \in Ids : rows'[k] = rows[k] \/ rows'[k] = Kept(k)
    BY <1>2 DEF Purged
  <2> QED
    BY <1>2, <2>1, <2>2 DEF Unreserved
<1>3. ASSUME NEW a \in Attempts, Dispatch(a) PROVE Unreserved
  <2>1. pc[a] = "enter" /\ ran' \subseteq ran \cup {a} /\ pc' = [pc EXCEPT ![a] = "store"]
    BY <1>3 DEF Dispatch, Run, Fail, TimeOut, Dispatched
  <2>2. \A b \in Attempts : Reserver(b)' => Reserver(b)
    BY <2>1 DEF Reserver, InFlight
  <2>3. UNCHANGED <<rows, born, req, wall>>
    BY <1>3 DEF Dispatch, Run, Fail, TimeOut, Dispatched
  <2> QED
    BY <2>2, <2>3 DEF Unreserved
<1>4. ASSUME NEW a \in Attempts, NEW kept \in BOOLEAN, Store(a, kept) PROVE Unreserved
  <2>1. \A b \in Attempts : Reserver(b)' => Reserver(b)
    BY <1>4 DEF Store, Reserver, InFlight
  <2>2. ASSUME NEW k \in Ids
        PROVE  \/ rows'[k] = rows[k]
               \/ /\ rows[k] # NoRow /\ rows'[k] # NoRow
                  /\ rows'[k].at = rows[k].at /\ rows'[k].params = rows[k].params
    <3>1. CASE rows' = rows
      BY <3>1
    <3>2. CASE /\ rows[req[a].id] # NoRow
               /\ rows' = [rows EXCEPT ![req[a].id].response = out[a]]
      <4>1. req[a].id \in Ids /\ rows[req[a].id] \in Row
        BY <3>2 DEF Request
      <4>2. out[a] \in Outcome
        BY <1>4 DEF Store, OutOwn
      <4>3. CASE k = req[a].id
        <5>1. rows'[k] = [rows[k] EXCEPT !.response = out[a]]
          BY <3>2, <4>1, <4>3
        <5>2. rows'[k] \in Row
          BY <4>1, <4>2, <4>3, <5>1 DEF Row
        <5>3. rows'[k].at = rows[k].at /\ rows'[k].params = rows[k].params
          BY <4>1, <4>3, <5>1 DEF Row
        <5> QED
          BY <3>2, <4>3, <5>2, <5>3, NullAssumption DEF Row
      <4>4. CASE k # req[a].id
        BY <3>2, <4>4
      <4> QED
        BY <4>3, <4>4
    <3> QED
      BY <1>4, <3>1, <3>2 DEF Store
  <2> QED
    BY <1>4, <2>1, <2>2 DEF Unreserved, Store
<1>5. CASE Crash
  BY <1>5 DEF Crash, Unreserved, Reserver, InFlight
<1>6. CASE Tick
  BY <1>6 DEF Tick, Unreserved, Reserver, InFlight
<1>7. ASSUME NEW a \in Attempts, Check(a), \A async \in BOOLEAN : ~ First(a, async)
      PROVE  Unreserved
  BY <1>2, <1>7 DEF Check, Replay, Mismatch, GiveUp, Answer
<1>8. ASSUME NEW a \in Attempts, Send(a) \/ Drop(a) \/ Panic(a) \/ LockState(a)
      PROVE  Unreserved
  BY <1>2, <1>8 DEF Send, Drop, Panic, LockState, InFlight
<1> QED
  BY <1>1, <1>3, <1>4, <1>5, <1>6, <1>7, <1>8
     DEF Next, vars, OtherBegin, OtherEnd

\* Reservations of one id are spaced by the retention.
LEMMA SpacedStep ==
    ASSUME TypeOK, TypeOK', OutOwn, RowHeld, Spaced, [Next]_vars
    PROVE  RowHeld' /\ Spaced'
<1> USE DEF TypeOK
<1>1. CASE Unreserved
  <2>1. Spaced'
    BY <1>1 DEF Spaced, Unreserved, Apart
  <2>2. ASSUME NEW a \in Attempts, Reserver(a)'
        PROVE  Holds(a)' \/ born'[a] + Retention < wall'
    <3>1. Reserver(a) /\ born' = born /\ req' = req /\ wall <= wall'
      BY <1>1, <2>2 DEF Unreserved
    <3>2. CASE born[a] + Retention < wall
      <4>1. born[a] \in Nat /\ wall \in Nat /\ wall' \in Nat /\ Retention \in Nat
        BY DedupAssumption
      <4> QED
        BY <3>1, <3>2, <4>1
    <3>3. CASE Holds(a) /\ ~ (born[a] + Retention < wall)
      <4>1. req[a].id \in Ids
        BY DEF Request
      <4>2. Kept(req[a].id) = rows[req[a].id]
        BY <3>3 DEF Holds, Kept
      <4> QED
        BY <1>1, <3>1, <3>3, <4>1, <4>2 DEF Holds, Unreserved
    <3> QED
      BY <3>1, <3>2, <3>3 DEF RowHeld
  <2> QED
    BY <2>1, <2>2 DEF RowHeld
<1>2. ASSUME NEW a \in Attempts, NEW async \in BOOLEAN, First(a, async)
      PROVE  RowHeld' /\ Spaced'
  <2>1. /\ req' = req /\ wall' = wall /\ ran' = ran
        /\ born' = [born EXCEPT ![a] = wall]
        /\ pc' = [pc EXCEPT ![a] = "queue"]
        /\ Kept(req[a].id) = NoRow
        /\ rows' = Reserved(a)
    BY <1>2 DEF First, RowOf
  <2>2. req[a].id \in Ids
    BY DEF Request
  <2>3. Holds(a)'
    <3>1. rows'[req[a].id] = [params |-> req[a].params, response |-> Null, at |-> wall]
      BY <2>1, <2>2 DEF Reserved, Purged
    <3>2. rows'[req[a].id] # NoRow
      BY <3>1, NullAssumption DEF Request
    <3> QED
      BY <2>1, <3>1, <3>2 DEF Holds
  <2>4. ASSUME NEW b \in Attempts, b # a, Reserver(b)'
        PROVE  /\ Reserver(b) /\ born'[b] = born[b]
               /\ req[b].id = req[a].id => born[b] + Retention < wall
               /\ Holds(b)' \/ born[b] + Retention < wall
    <3>1. Reserver(b) /\ born'[b] = born[b]
      BY <2>1, <2>4 DEF Reserver, InFlight
    <3>2. CASE born[b] + Retention < wall
      BY <3>1, <3>2
    <3>3. CASE Holds(b) /\ ~ (born[b] + Retention < wall)
      <4>1. req[b].id \in Ids /\ Kept(req[b].id) = rows[req[b].id] /\ rows[req[b].id] # NoRow
        BY <3>3 DEF Holds, Kept, Request
      <4>2. req[b].id # req[a].id
        BY <2>1, <4>1
      <4>3. rows'[req[b].id] = rows[req[b].id]
        BY <2>1, <4>1, <4>2 DEF Reserved, Purged
      <4> QED
        BY <2>1, <3>1, <3>3, <4>2, <4>3 DEF Holds
    <3> QED
      BY <3>1, <3>2, <3>3 DEF RowHeld
  <2>5. RowHeld'
    BY <2>1, <2>3, <2>4 DEF RowHeld
  <2>6. Spaced'
    <3>1. \A b \in Attempts : b # a /\ Reserver(b)' /\ req[b].id = req[a].id
              => born'[b] + Retention < born'[a]
      BY <2>1, <2>4
    <3> QED
      BY <2>1, <2>4, <3>1 DEF Spaced, Apart
  <2> QED
    BY <2>5, <2>6
<1> QED
  BY <1>1, <1>2, ReserveStep

\* A request id takes effect at most once while its row is retained.
THEOREM AtMostOnce == Spec => []RunsApart
<1>1. Init => TypeOK /\ OutOwn /\ RowHeld /\ Spaced
  <2>1. Init => RowHeld /\ Spaced
    BY DEF Init, RowHeld, Spaced, Reserver, InFlight
  <2> QED
    BY <2>1, InitType
<1>2. TypeOK /\ OutOwn /\ RowHeld /\ Spaced /\ [Next]_vars
        => TypeOK' /\ OutOwn' /\ RowHeld' /\ Spaced'
  BY TypeStep, OutStep, SpacedStep
<1>3. TypeOK /\ Spaced => RunsApart
  BY DEF Spaced, RunsApart, Reserver, Apart, TypeOK
<1> QED
  BY <1>1, <1>2, <1>3, PTL DEF Spec

-----------------------------------------------------------------------------
(* Answers *)

\* Requests never change, and an outcome never changes once it is written.
OutKept ==
    /\ req' = req
    /\ \A a \in Attempts : out[a] # Null => out'[a] = out[a]

LEMMA OutKeptStep == TypeOK /\ OutOwn /\ [Next]_vars => OutKept
<1> SUFFICES ASSUME TypeOK, OutOwn, [Next]_vars PROVE OutKept
  OBVIOUS
<1>1. CASE UNCHANGED <<req, out>>
  BY <1>1 DEF OutKept
<1>2. ASSUME NEW a \in Attempts, Dispatch(a) PROVE OutKept
  <2>1. /\ req' = req /\ out[a] = Null
        /\ \E o : out' = [out EXCEPT ![a] = o]
    BY <1>2 DEF Dispatch, Run, Fail, TimeOut, Dispatched, OutOwn
  <2> QED
    BY <2>1 DEF OutKept, TypeOK
<1> QED
  BY <1>1, <1>2
     DEF Next, vars, Send, Check, First, Replay, Mismatch, GiveUp, Answer, LockState,
         Store, Drop, Panic, Crash, OtherBegin, OtherEnd, Tick

\* While an attempt is in flight its retention has not passed.
LEMMA PromptStep == TypeOK /\ Prompt /\ [Next]_vars => Prompt'
<1> SUFFICES ASSUME TypeOK, Prompt, [Next]_vars PROVE Prompt'
  OBVIOUS
<1> USE DEF TypeOK, Prompt
<1>1. ASSUME wall' = wall, born' = born,
             \A a \in Attempts : InFlight(a)' => InFlight(a)
      PROVE  Prompt'
  BY <1>1
<1>2. ASSUME NEW a \in Attempts, NEW async \in BOOLEAN, First(a, async)
      PROVE  Prompt'
  <2>1. wall <= wall + Retention
    BY DedupAssumption
  <2>2. \A b \in Attempts : b # a => (InFlight(b)' => InFlight(b)) /\ born'[b] = born[b]
    BY <1>2 DEF First, InFlight
  <2> QED
    BY <1>2, <2>1, <2>2 DEF First
<1>3. CASE Tick
  <2>1. ASSUME NEW a \in Attempts, InFlight(a)' PROVE wall' <= born'[a] + Retention
    <3>1. InFlight(a) /\ born' = born /\ wall' = wall + 1
      BY <1>3, <2>1 DEF Tick, InFlight
    <3>2. wall < born[a] + Retention
      BY <1>3, <3>1 DEF Tick
    <3> QED
      BY <3>1, <3>2, DedupAssumption
  <2> QED
    BY <2>1
<1>4. ASSUME NEW a \in Attempts,
             NEW s \in {"check", "enter", "store", "done", "dropped"},
             pc' = [pc EXCEPT ![a] = s],
             s \in {"enter", "store"} => InFlight(a),
             wall' = wall, born' = born
      PROVE  Prompt'
  <2>1. \A b \in Attempts : InFlight(b)' => InFlight(b)
    BY <1>4 DEF InFlight
  <2> QED
    BY <1>1, <1>4, <2>1
<1>5. ASSUME NEW a \in Attempts, Check(a), \A async \in BOOLEAN : ~ First(a, async)
      PROVE  Prompt'
  BY <1>4, <1>5 DEF Check, Replay, Mismatch, GiveUp, Answer
<1>6. ASSUME NEW a \in Attempts,
             Send(a) \/ Drop(a) \/ Panic(a) \/ LockState(a) \/ Dispatch(a)
      PROVE  Prompt'
  BY <1>4, <1>6
     DEF Send, Drop, Panic, LockState, Dispatch, Run, Fail, TimeOut, Dispatched, InFlight
<1>7. ASSUME NEW a \in Attempts, NEW kept \in BOOLEAN, Store(a, kept) PROVE Prompt'
  BY <1>4, <1>7 DEF Store
<1>8. CASE Crash
  BY <1>1, <1>8 DEF Crash, InFlight
<1>9. CASE UNCHANGED <<pc, born, wall>>
  BY <1>1, <1>9 DEF InFlight
<1> QED
  BY <1>2, <1>3, <1>5, <1>6, <1>7, <1>8, <1>9
     DEF Next, vars, OtherBegin, OtherEnd

\* A response found in the table is the outcome of the row's own request.
LEMMA RowExactStep ==
    ASSUME TypeOK, OutOwn, RowHeld, Prompt, RowExact, [Next]_vars
    PROVE  RowExact'
<1> USE DEF TypeOK
<1>1. OutKept
  BY OutKeptStep
<1>2. SUFFICES ASSUME NEW k \in Ids, rows'[k] # NoRow, rows'[k].response # Null
               PROVE  LET o == rows'[k].response
                      IN  /\ o = out'[o.by]
                          /\ req'[o.by] = [id |-> k, params |-> rows'[k].params]
  BY DEF RowExact
<1>3. CASE rows'[k] = rows[k]
  <2>1. rows[k].response \in Outcome
    BY <1>2, <1>3 DEF Row
  <2>2. rows[k].response.by \in Attempts
    BY <2>1 DEF Outcome
  <2> QED
    BY <1>1, <1>2, <1>3, <2>1, <2>2, NullAssumption DEF RowExact, OutKept
<1>4. CASE rows' = Purged
  BY <1>2, <1>3, <1>4 DEF Purged, Kept
<1>5. ASSUME NEW a \in Attempts, NEW async \in BOOLEAN, First(a, async)
      PROVE  rows'[k] = rows[k]
  <2>1. rows' = Reserved(a)
    BY <1>5 DEF First
  <2>2. k # req[a].id
    BY <1>2, <2>1 DEF Reserved, Purged
  <2> QED
    BY <1>2, <2>1, <2>2 DEF Reserved, Purged, Kept
<1>6. ASSUME NEW a \in Attempts, NEW kept \in BOOLEAN, Store(a, kept),
             rows'[k] # rows[k]
      PROVE  LET o == rows'[k].response
             IN  /\ o = out'[o.by]
                 /\ req'[o.by] = [id |-> k, params |-> rows'[k].params]
  <2>1. /\ k = req[a].id
        /\ rows'[k] = [rows[k] EXCEPT !.response = out[a]]
        /\ rows[k] \in Row
        /\ pc[a] = "store" /\ out' = out /\ req' = req
    BY <1>6 DEF Store, Request
  <2>2. Holds(a)
    <3>1. InFlight(a) /\ wall <= born[a] + Retention
      BY <2>1 DEF InFlight, Prompt
    <3>2. ~ (born[a] + Retention < wall)
      BY <3>1, DedupAssumption
    <3> QED
      BY <3>1, <3>2 DEF RowHeld, Reserver
  <2>3. rows'[k].response = out[a] /\ rows'[k].params = req[a].params
    BY <2>1, <2>2 DEF Row, Holds
  <2>4. out[a].by = a
    BY <2>1 DEF OutOwn
  <2>5. req[a] = [id |-> k, params |-> req[a].params]
    BY <2>1 DEF Request
  <2> QED
    BY <2>1, <2>3, <2>4, <2>5
<1> QED
  BY <1>2, <1>3, <1>4, <1>5, <1>6
     DEF Next, vars, Send, Check, Replay, Mismatch, GiveUp, Answer, LockState, Dispatch,
         Run, Fail, TimeOut, Dispatched, Drop, Panic, Crash, OtherBegin, OtherEnd, Tick

\* Two requests are told the same outcome only if they ask for the same.
LEMMA AnswerStep ==
    ASSUME TypeOK, TypeOK', OutOwn, OutOwn', RowExact, AnswersExact, [Next]_vars
    PROVE  AnswersExact'
<1> USE DEF TypeOK
<1>1. OutKept
  BY OutKeptStep
<1>2. SUFFICES ASSUME NEW a \in Attempts, reply'[a] \in Outcome
               PROVE  /\ req'[reply'[a].by] = req'[a]
                      /\ reply'[a] = out'[reply'[a].by]
                      /\ reply'[a].kind = "ok" => reply'[a].by \in ran'
  BY DEF AnswersExact
<1>3. reply'[a].by \in Attempts /\ reply'[a] # Null
  BY <1>2, NullAssumption DEF Outcome
<1>4. SUFFICES /\ req[reply'[a].by] = req[a]
               /\ reply'[a] = out'[reply'[a].by]
  BY <1>1, <1>3, <1>4 DEF OutOwn, OutKept
<1>5. CASE reply'[a] = reply[a]
  BY <1>1, <1>2, <1>3, <1>5 DEF AnswersExact, OutKept
<1>6. ASSUME NEW b \in Attempts, Replay(b), reply'[a] # reply[a]
      PROVE  /\ req[reply'[a].by] = req[a]
             /\ reply'[a] = out'[reply'[a].by]
  <2>1. a = b /\ reply'[a] = RowOf(a).response /\ out' = out
    BY <1>6 DEF Replay, Answer
  <2>2. /\ RowOf(a) = rows[req[a].id] /\ rows[req[a].id] # NoRow
        /\ rows[req[a].id].params = req[a].params
        /\ rows[req[a].id].response # Null
    BY <1>6, <2>1 DEF Replay, SameParams, RowOf, Kept
  <2>3. req[a].id \in Ids /\ req[a] = [id |-> req[a].id, params |-> req[a].params]
    BY DEF Request
  <2> QED
    BY <2>1, <2>2, <2>3 DEF RowExact
<1>7. ASSUME NEW b \in Attempts, NEW kept \in BOOLEAN, Store(b, kept),
             reply'[a] # reply[a]
      PROVE  /\ req[reply'[a].by] = req[a]
             /\ reply'[a] = out'[reply'[a].by]
  <2>1. a = b /\ reply'[a] = out[a] /\ out' = out /\ pc[a] = "store"
    BY <1>7 DEF Store
  <2>2. out[a].by = a
    BY <2>1 DEF OutOwn
  <2> QED
    BY <2>1, <2>2
<1>8. ASSUME NEW b \in Attempts, Mismatch(b) \/ GiveUp(b) PROVE reply'[a] = reply[a]
  BY <1>2, <1>8, DedupAssumption DEF Mismatch, GiveUp, Answer, Told, Outcome
<1>9. ASSUME NEW b \in Attempts, NEW async \in BOOLEAN, First(b, async)
      PROVE  reply'[a] = reply[a]
  BY <1>2, <1>9, DedupAssumption DEF First, Told, Outcome
<1> QED
  BY <1>5, <1>6, <1>7, <1>8, <1>9
     DEF Next, vars, Send, Check, LockState, Dispatch, Run, Fail, TimeOut, Dispatched,
         Drop, Panic, Crash, OtherBegin, OtherEnd, Tick

\* An outcome is told only to requests for the same id with the same params,
\* and "ok" only of a mutation that took effect.
THEOREM ExactAnswers == Spec => []AnswersExact
<1> DEFINE Base == TypeOK /\ OutOwn /\ RowHeld /\ Spaced
           Told2 == Prompt /\ RowExact /\ AnswersExact
<1>1. Init => Base /\ Told2
  <2>1. Init => RowHeld /\ Spaced /\ Prompt
    BY DEF Init, RowHeld, Spaced, Reserver, InFlight, Prompt
  <2>2. Init => RowExact
    BY DEF Init, RowExact
  <2>3. Init => AnswersExact
    BY NullAssumption DEF Init, AnswersExact
  <2> QED
    BY <2>1, <2>2, <2>3, InitType
<1>2. Base /\ Told2 /\ [Next]_vars => Base' /\ Told2'
  BY TypeStep, OutStep, SpacedStep, PromptStep, RowExactStep, AnswerStep
<1> QED
  BY <1>1, <1>2, PTL DEF Spec
=============================================================================
