-------------------------------- MODULE RpcDedup --------------------------------
(***************************************************************************)
(* A protected mutation sent over HTTP (/v1/rpc and /v1/rpc/multipart).    *)
(* The handler reserves the request id in the http_dedup table, waits for  *)
(* the state mutex and the serialization point, runs the handler, and      *)
(* writes the result back for later retries of the same id.                *)
(*                                                                         *)
(* An attempt is one HTTP request.  It runs concurrently with the others;  *)
(* it may be dropped wherever the async handler awaits (the connection is  *)
(* closed at MAX_CONNECTION_AGE), its handler may panic, and the daemon    *)
(* may die.  Requests on the Unix socket share the serialization point.    *)
(***************************************************************************)
EXTENDS Naturals, FiniteSets

CONSTANTS
    Attempts,     \* HTTP requests
    Ids,          \* (workspace_instance_id, method, request_id)
    Params,       \* params hashes
    NoRow,        \* no http_dedup row for an id
    Null,         \* response_json IS NULL
    NoAttempt,    \* the state mutex is free
    Retention,    \* DEDUP_RETENTION_SECS
    MaxWall       \* bound: the wall clock stops there

ASSUME DedupAssumption ==
    /\ NoAttempt \notin Attempts
    /\ Retention \in Nat
    /\ MaxWall \in Nat

Request == [id : Ids, params : Params]

\* What a dispatch returned, and which attempt's dispatch it was.
Outcome == [by : Attempts, kind : {"ok", "error", "request_timeout"}]

ASSUME NullAssumption ==
    /\ Null \notin Outcome
    /\ NoRow \notin [params : Params, response : Outcome \cup {Null}, at : Nat]

Row == [params : Params, response : Outcome \cup {Null}, at : Nat]

\* The answers that carry no outcome.
Notice == [by : {NoAttempt},
           kind : {"E_REQUEST_ID_REUSE_MISMATCH", "E_REQUEST_IN_FLIGHT", "accepted"}]

Told(kind) == [by |-> NoAttempt, kind |-> kind]

VARIABLES
    rows,       \* the table http_dedup
    pc,         \* where each attempt is
    req,        \* what it asks for
    born,       \* when it reserved its row (created_at)
    out,        \* what its dispatch returned
    reply,      \* what the client is answered
    detached,   \* the attempts a background task carries on (202 accepted)
    lock,       \* who holds AppState.state
    other,      \* the serialization point is held by a Unix socket request
    ran,        \* history: the attempts whose mutation took effect
    wall        \* now_unix

vars == <<rows, pc, req, born, out, reply, detached, lock, other, ran, wall>>

TypeOK ==
    /\ rows \in [Ids -> Row \cup {NoRow}]
    /\ pc \in [Attempts -> {"idle", "check", "queue", "enter", "store",
                            "done", "dropped"}]
    /\ req \in [Attempts -> Request]
    /\ born \in [Attempts -> Nat]
    /\ out \in [Attempts -> Outcome \cup {Null}]
    /\ reply \in [Attempts -> Outcome \cup Notice \cup {Null}]
    /\ detached \subseteq Attempts
    /\ lock \in Attempts \cup {NoAttempt}
    /\ other \in BOOLEAN
    /\ ran \subseteq Attempts
    /\ wall \in Nat

Init ==
    /\ rows = [k \in Ids |-> NoRow]
    /\ pc = [a \in Attempts |-> "idle"]
    /\ req \in [Attempts -> Request]
    /\ born = [a \in Attempts |-> 0]
    /\ out = [a \in Attempts |-> Null]
    /\ reply = [a \in Attempts |-> Null]
    /\ detached = {}
    /\ lock = NoAttempt
    /\ other = FALSE
    /\ ran = {}
    /\ wall = 0

-----------------------------------------------------------------------------
(* The dedup table *)

\* Rows older than the retention are deleted before every reservation.
Kept(k) ==
    IF rows[k] # NoRow /\ rows[k].at + Retention < wall THEN NoRow ELSE rows[k]

\* Mutant: a row without a response is taken over by the next attempt.
RowOfRetaken(a) ==
    LET r == Kept(req[a].id)
    IN  IF r # NoRow /\ r.response = Null THEN NoRow ELSE r

RowOf(a) == Kept(req[a].id)

\* Mutant: the params hash is not compared.
SameId(a) == RowOf(a) # NoRow

SameParams(a) == RowOf(a) # NoRow /\ RowOf(a).params = req[a].params

Purged == [k \in Ids |-> Kept(k)]

\* INSERT OR IGNORE succeeded.
Reserved(a) ==
    [Purged EXCEPT ![req[a].id] =
        [params |-> req[a].params, response |-> Null, at |-> wall]]

-----------------------------------------------------------------------------
(* The HTTP handler *)

Send(a) ==
    /\ pc[a] = "idle"
    /\ pc' = [pc EXCEPT ![a] = "check"]
    /\ UNCHANGED <<rows, req, born, out, reply, detached, lock, other, ran, wall>>

\* DedupCheck::First.  A refresh is carried on by a background task (async),
\* and its client is told "accepted" at once.
First(a, async) ==
    /\ pc[a] = "check"
    /\ RowOf(a) = NoRow
    /\ rows' = Reserved(a)
    /\ born' = [born EXCEPT ![a] = wall]
    /\ pc' = [pc EXCEPT ![a] = "queue"]
    /\ IF async
       THEN /\ detached' = detached \cup {a}
            /\ reply' = [reply EXCEPT ![a] = Told("accepted")]
       ELSE UNCHANGED <<detached, reply>>
    /\ UNCHANGED <<req, out, lock, other, ran, wall>>

\* The handler answers without dispatching.
Answer(a, r) ==
    /\ pc[a] = "check"
    /\ rows' = Purged
    /\ reply' = [reply EXCEPT ![a] = r]
    /\ pc' = [pc EXCEPT ![a] = "done"]
    /\ UNCHANGED <<req, born, out, detached, lock, other, ran, wall>>

\* DedupCheck::Replay
Replay(a) ==
    /\ SameParams(a)
    /\ RowOf(a).response # Null
    /\ Answer(a, RowOf(a).response)

\* DedupCheck::Mismatch
Mismatch(a) ==
    /\ RowOf(a) # NoRow
    /\ ~SameParams(a)
    /\ Answer(a, Told("E_REQUEST_ID_REUSE_MISMATCH"))

\* DedupCheck::InFlight until the deadline.
GiveUp(a) ==
    /\ SameParams(a)
    /\ RowOf(a).response = Null
    /\ Answer(a, Told("E_REQUEST_IN_FLIGHT"))

\* app.state.lock().await
LockState(a) ==
    /\ pc[a] = "queue"
    /\ lock = NoAttempt
    /\ lock' = a
    /\ pc' = [pc EXCEPT ![a] = "enter"]
    /\ UNCHANGED <<rows, req, born, out, reply, detached, other, ran, wall>>

\* The mutex is released with a result in hand.
Dispatched(a, kind) ==
    /\ pc[a] = "enter"
    /\ out' = [out EXCEPT ![a] = [by |-> a, kind |-> kind]]
    /\ lock' = NoAttempt
    /\ pc' = [pc EXCEPT ![a] = "store"]
    /\ UNCHANGED <<rows, req, born, reply, detached, other, wall>>

\* dispatch_rpc through a free serialization point: the handler commits.
Run(a) ==
    /\ ~other
    /\ Dispatched(a, "ok")
    /\ ran' = ran \cup {a}

\* The handler refuses, or its transaction fails.
Fail(a) ==
    /\ ~other
    /\ Dispatched(a, "error")
    /\ UNCHANGED ran

\* Mutant: the serialization point is waited for without a timeout.
TimeOutNever(a) == FALSE

\* The serialization point stayed busy until the timeout.
TimeOut(a) ==
    /\ other
    /\ Dispatched(a, "request_timeout")
    /\ UNCHANGED ran

\* Mutant: what the client was told is stored, the 202 receipt included.
StoreReply(a, kept) ==
    /\ pc[a] = "store"
    /\ rows' = [rows EXCEPT ![req[a].id].response =
                    IF a \in detached THEN reply[a] ELSE out[a]]
    /\ reply' = IF a \in detached THEN reply ELSE [reply EXCEPT ![a] = out[a]]
    /\ pc' = [pc EXCEPT ![a] = "done"]
    /\ UNCHANGED <<req, born, out, detached, lock, other, ran, wall>>

\* store_result, an UPDATE by the id alone, and the answer.  A failed write
\* is ignored (kept = FALSE).
Store(a, kept) ==
    /\ pc[a] = "store"
    /\ rows' = IF kept /\ rows[req[a].id] # NoRow
               THEN [rows EXCEPT ![req[a].id].response = out[a]]
               ELSE rows
    /\ reply' = IF a \in detached THEN reply ELSE [reply EXCEPT ![a] = out[a]]
    /\ pc' = [pc EXCEPT ![a] = "done"]
    /\ UNCHANGED <<req, born, out, detached, lock, other, ran, wall>>

-----------------------------------------------------------------------------
(* What cuts an attempt short *)

\* The connection task is dropped while its handler awaits.
Drop(a) ==
    /\ a \notin detached
    /\ pc[a] \in {"check", "queue"}
    /\ pc' = [pc EXCEPT ![a] = "dropped"]
    /\ UNCHANGED <<rows, req, born, out, reply, detached, lock, other, ran, wall>>

\* The handler panics: BusyGuard and the mutex guard are released, the
\* transaction rolls back, nothing is stored.
Panic(a) ==
    /\ pc[a] = "enter"
    /\ ~other
    /\ lock' = NoAttempt
    /\ pc' = [pc EXCEPT ![a] = "dropped"]
    /\ UNCHANGED <<rows, req, born, out, reply, detached, other, ran, wall>>

\* The daemon dies and is started again.
Crash ==
    /\ pc' = [a \in Attempts |->
                IF pc[a] \in {"idle", "done"} THEN pc[a] ELSE "dropped"]
    /\ lock' = NoAttempt
    /\ other' = FALSE
    /\ UNCHANGED <<rows, req, born, out, reply, detached, ran, wall>>

-----------------------------------------------------------------------------
(* The rest of the daemon *)

\* SerializationPoint::execute by a Unix socket worker; it may take forever.
OtherBegin ==
    /\ ~other
    /\ other' = TRUE
    /\ UNCHANGED <<rows, pc, req, born, out, reply, detached, lock, ran, wall>>

OtherEnd ==
    /\ other
    /\ other' = FALSE
    /\ UNCHANGED <<rows, pc, req, born, out, reply, detached, lock, ran, wall>>

InFlight(a) == pc[a] \in {"queue", "enter", "store"}

\* Bound: no attempt is in flight for longer than the retention (deadlines
\* are at most two minutes, the retention is a day).
Tick ==
    /\ wall < MaxWall
    /\ \A a \in Attempts : InFlight(a) => wall < born[a] + Retention
    /\ wall' = wall + 1
    /\ UNCHANGED <<rows, pc, req, born, out, reply, detached, lock, other, ran>>

Check(a) ==
    \/ \E async \in BOOLEAN : First(a, async)
    \/ Replay(a)
    \/ Mismatch(a)
    \/ GiveUp(a)

Dispatch(a) == Run(a) \/ Fail(a) \/ TimeOut(a)

Next ==
    \/ \E a \in Attempts :
        \/ Send(a)
        \/ Check(a)
        \/ LockState(a)
        \/ Dispatch(a)
        \/ \E kept \in BOOLEAN : Store(a, kept)
        \/ Drop(a)
        \/ Panic(a)
    \/ Crash
    \/ OtherBegin
    \/ OtherEnd
    \/ Tick

Spec == Init /\ [][Next]_vars

\* tokio polls every ready task, its mutex is first come first served, and
\* the serialization point gives up at its timeout.  Nothing is assumed of
\* the Unix socket request that holds it, of drops, panics or crashes.
Fairness ==
    \A a \in Attempts :
        /\ WF_vars(Check(a))
        /\ SF_vars(LockState(a))
        /\ WF_vars(Dispatch(a))
        /\ WF_vars(\E kept \in BOOLEAN : Store(a, kept))

FairSpec == Spec /\ Fairness

-----------------------------------------------------------------------------

\* A request id takes effect at most once while its row is retained, however
\* often it is sent, over drops, panics and crashes: two attempts with one id
\* that both took effect reserved it more than Retention apart.
RunsApart ==
    \A a, b \in ran :
        /\ a # b
        /\ req[a].id = req[b].id
        => born[a] + Retention < born[b] \/ born[b] + Retention < born[a]

\* An outcome is only ever told to a request with the id and the params of
\* the request that was dispatched, and "ok" only if it took effect.
AnswersExact ==
    \A a \in Attempts :
        reply[a] \in Outcome =>
            /\ req[reply[a].by] = req[a]
            /\ reply[a] = out[reply[a].by]
            /\ reply[a].kind = "ok" => reply[a].by \in ran

\* Every request that is received is answered or cut off, even when the
\* serialization point is never given back.
Answered == \A a \in Attempts : pc[a] = "check" ~> pc[a] \in {"done", "dropped"}

\* What DedupCheck::InFlight says of itself: the first attempt is still being
\* dispatched.
InFlightIsRunning ==
    \A k \in Ids :
        rows[k] # NoRow /\ rows[k].response = Null =>
            \E a \in Attempts : InFlight(a) /\ req[a].id = k
=============================================================================
