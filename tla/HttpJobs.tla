-------------------------------- MODULE HttpJobs -------------------------------
(***************************************************************************)
(* Long requests of the HTTP transport: POST /v1/jobs, GET /v1/jobs/{id}   *)
(* and POST /v1/jobs/{id}/cancel (http_server.rs).  A job is a task of its *)
(* own that waits for the daemon state with every other request.  The      *)
(* table of jobs is in memory.                                             *)
(***************************************************************************)
EXTENDS Integers

CONSTANTS
    Jobs,         \* job ids, each given once
    Requests,     \* request ids of the envelopes
    None,         \* no request, no holder
    Rpc,          \* any other request that holds the daemon state
    MaxPanics,    \* bound: panics of a handler
    MaxCrashes    \* bound: daemon deaths

ASSUME HttpJobsAssumption ==
    /\ None \notin Jobs \cup Requests \cup {Rpc}
    /\ Rpc \notin Jobs
    /\ MaxPanics \in Nat /\ MaxCrashes \in Nat

Terminal == {"succeeded", "failed", "cancelled"}
Status == {"none", "queued", "running", "cancel_pending"} \cup Terminal

VARIABLES
    status,    \* JobRecord.status; "none" when the id is not in the table
    req,       \* the request id of each job's envelope
    task,      \* what the spawned task of each job is doing
    ok,        \* the outcome of each job's dispatch
    lock,      \* who holds the daemon state
    panics,    \* panics so far
    crashes,   \* daemon deaths so far
    effects,   \* history: how often each job took effect
    told       \* history: terminal statuses told to clients

counters == <<panics, crashes>>
vars == <<status, req, task, ok, lock, counters, effects, told>>

TypeOK ==
    /\ status \in [Jobs -> Status]
    /\ req \in [Jobs -> Requests \cup {None}]
    /\ task \in [Jobs -> {"none", "spawned", "waiting", "dispatching", "done", "over", "dead"}]
    /\ ok \in [Jobs -> BOOLEAN]
    /\ lock \in Jobs \cup {Rpc, None}
    /\ panics \in Nat /\ crashes \in Nat
    /\ effects \in [Jobs -> Nat]
    /\ told \subseteq Jobs \X Terminal

Init ==
    /\ status = [j \in Jobs |-> "none"]
    /\ req = [j \in Jobs |-> None]
    /\ task = [j \in Jobs |-> "none"]
    /\ ok = [j \in Jobs |-> FALSE]
    /\ lock = None
    /\ panics = 0 /\ crashes = 0
    /\ effects = [j \in Jobs |-> 0]
    /\ told = {}

-----------------------------------------------------------------------------
(* Clients *)

\* A new job for the envelope; the request id is not looked up anywhere.
Submit(j, r) ==
    /\ task[j] = "none"
    /\ req[j] = None
    /\ req' = [req EXCEPT ![j] = r]
    /\ status' = [status EXCEPT ![j] = "queued"]
    /\ task' = [task EXCEPT ![j] = "spawned"]
    /\ UNCHANGED <<ok, lock, counters, effects, told>>

\* What a client reads of a job that is over.
Told(j) == IF status[j] \in Terminal THEN told \cup {<<j, status[j]>>} ELSE told

Get(j) ==
    /\ status[j] # "none"
    /\ told' = Told(j)
    /\ UNCHANGED <<status, req, task, ok, lock, counters, effects>>

\* Mutant: only a succeeded job is left alone.
Cancellable(j) == status[j] \notin {"none", "succeeded"}

\* A job that is over, or whose cancellation is pending, is left alone.
CanCancel(j) == status[j] \in {"queued", "running"}

\* The mark is all there is: the task is not told.
Cancel(j) ==
    /\ status[j] # "none"
    /\ status' = IF CanCancel(j) THEN [status EXCEPT ![j] = "cancel_pending"] ELSE status
    /\ told' = Told(j)
    /\ UNCHANGED <<req, task, ok, lock, counters, effects>>

-----------------------------------------------------------------------------
(* The task of a job *)

\* Mutant: a task whose job is already being cancelled ends at once.
BeginUnlessCancelled(j) ==
    /\ task[j] = "spawned"
    /\ \/ /\ status[j] = "cancel_pending"
          /\ task' = [task EXCEPT ![j] = "over"] /\ UNCHANGED status
       \/ /\ status[j] # "cancel_pending"
          /\ task' = [task EXCEPT ![j] = "waiting"]
          /\ status' = [status EXCEPT ![j] = "running"]
    /\ UNCHANGED <<req, ok, lock, counters, effects, told>>

Begin(j) ==
    /\ task[j] = "spawned"
    /\ task' = [task EXCEPT ![j] = "waiting"]
    /\ status' = [status EXCEPT ![j] = "running"]
    /\ UNCHANGED <<req, ok, lock, counters, effects, told>>

LockState(j) ==
    /\ task[j] = "waiting"
    /\ lock = None
    /\ lock' = j
    /\ task' = [task EXCEPT ![j] = "dispatching"]
    /\ UNCHANGED <<status, req, ok, counters, effects, told>>

Effect(j) == effects' = [effects EXCEPT ![j] = @ + 1]

\* What a handler that does not succeed leaves behind: nothing, or what it had
\* committed before it failed (workspace.file.delete commits and applies its
\* tombstone, and then fails to publish).
MaybeEffect(j) == Effect(j) \/ UNCHANGED effects

\* dispatch_rpc
Dispatch(j) ==
    /\ task[j] = "dispatching"
    /\ lock' = None
    /\ task' = [task EXCEPT ![j] = "done"]
    /\ \/ ok' = [ok EXCEPT ![j] = TRUE] /\ Effect(j)
       \/ ok' = [ok EXCEPT ![j] = FALSE] /\ MaybeEffect(j)
    /\ UNCHANGED <<status, req, counters, told>>

\* The task unwinds; the lock is released and the record stays as it is.
Panic(j) ==
    /\ task[j] = "dispatching"
    /\ panics < MaxPanics
    /\ panics' = panics + 1
    /\ lock' = None
    /\ task' = [task EXCEPT ![j] = "dead"]
    /\ MaybeEffect(j)
    /\ UNCHANGED <<status, req, ok, crashes, told>>

\* Mutant: a job somebody wanted to cancel is closed as failed.
OutcomeCancelled(j) ==
    IF ok[j] /\ status[j] # "cancel_pending" THEN "succeeded" ELSE "failed"

\* Mutant: the word of the RPC response is taken for the status.
OutcomeError(j) == IF ok[j] THEN "succeeded" ELSE "error"

Outcome(j) == IF ok[j] THEN "succeeded" ELSE "failed"

Finish(j) ==
    /\ task[j] = "done"
    /\ status' = [status EXCEPT ![j] = Outcome(j)]
    /\ task' = [task EXCEPT ![j] = "over"]
    /\ UNCHANGED <<req, ok, lock, counters, effects, told>>

-----------------------------------------------------------------------------
(* The rest of the daemon *)

RpcLock ==
    /\ lock = None
    /\ lock' = Rpc
    /\ UNCHANGED <<status, req, task, ok, counters, effects, told>>

RpcUnlock ==
    /\ lock = Rpc
    /\ lock' = None
    /\ UNCHANGED <<status, req, task, ok, counters, effects, told>>

\* The table is lost; effects are durable, also those of a handler that is cut
\* off.
Crash ==
    /\ crashes < MaxCrashes
    /\ crashes' = crashes + 1
    /\ status' = [j \in Jobs |-> "none"]
    /\ task' = [j \in Jobs |-> "none"]
    /\ lock' = None
    /\ IF lock \in Jobs THEN MaybeEffect(lock) ELSE UNCHANGED effects
    /\ UNCHANGED <<req, ok, panics, told>>

Task(j) == Begin(j) \/ LockState(j) \/ Dispatch(j) \/ Panic(j) \/ Finish(j)

Next ==
    \/ \E j \in Jobs, r \in Requests : Submit(j, r)
    \/ \E j \in Jobs : Get(j) \/ Cancel(j) \/ Task(j)
    \/ RpcLock \/ RpcUnlock
    \/ Crash

Spec == Init /\ [][Next]_vars

\* Spawned tasks are polled, the mutex of the daemon state serves its waiters
\* in turn, and a handler comes to an end.
FairSpec ==
    /\ Spec
    /\ \A j \in Jobs :
        /\ WF_vars(Begin(j)) /\ WF_vars(Dispatch(j)) /\ WF_vars(Finish(j))
        /\ SF_vars(LockState(j))
    /\ WF_vars(RpcUnlock)

-----------------------------------------------------------------------------
(* What the table and the tasks say of each other *)

\* A record is there as long as its task has been spawned, and shows an end
\* only when the task is over; the job that holds the state is dispatching.
RecordsMatch ==
    \A j \in Jobs :
        /\ status[j] = "none" <=> task[j] = "none"
        /\ status[j] \in Terminal => task[j] = "over"
        /\ task[j] # "none" => req[j] # None
        /\ lock = j => task[j] = "dispatching"

\* What was told was the outcome of the dispatch, and the task is over.
ToldWasOver ==
    \A j \in Jobs, s \in Terminal :
        <<j, s>> \in told =>
            /\ req[j] # None
            /\ task[j] \in {"over", "none"}

\* A job has no effect before it is dispatched and one at most afterwards; the
\* record shows how the dispatch went.
OutcomesMatch ==
    \A j \in Jobs :
        /\ req[j] = None \/ task[j] \in {"spawned", "waiting", "dispatching"} =>
             effects[j] = 0
        /\ task[j] \in {"done", "over"} /\ ok[j] => effects[j] = 1
        /\ status[j] = "succeeded" => ok[j]
        /\ status[j] = "failed" => ~ ok[j]

-----------------------------------------------------------------------------
(* Properties *)

\* A job that a client has seen end stays as the client saw it, whoever
\* cancels it when, as long as the daemon lives (job_cancel_handler).
ToldIsFinal == \A j \in Jobs : \A s \in Terminal :
    <<j, s>> \in told /\ status[j] # "none" => status[j] = s

\* What a client is told of an ended job is how its dispatch went: one told
\* succeeded has taken effect, exactly once; one told failed was answered an
\* error, whoever asked for a cancellation in between (jobs_handler).  An error
\* does not say that nothing has happened.
ToldIsTrue ==
    \A j \in Jobs : /\ <<j, "succeeded">> \in told => effects[j] = 1
                    /\ <<j, "failed">> \in told => ~ ok[j]

\* Every job comes to an end that clients can read, cancelled or not, unless
\* its handler panics or the daemon dies (the task is polled to its end).
JobsEnd ==
    \A j \in Jobs :
        status[j] = "queued" ~> (status[j] \in Terminal \cup {"none"} \/ task[j] = "dead")

\* A job whose cancellation was accepted before it began does not begin:
\* docs/design/http-daemon-mvp-compatibility-contract.md cancels a queued job
\* at once.  The code does not keep this (job_cancel_handler only marks the
\* record, and jobs_handler overwrites the mark).
CancelledNotBegun ==
    [][\A j \in Jobs : status[j] = "cancel_pending" => status'[j] # "running"]_vars
===============================================================================
