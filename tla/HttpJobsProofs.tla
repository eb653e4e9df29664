---------------------------- MODULE HttpJobsProofs ----------------------------
(***************************************************************************)
(* Proofs about HttpJobs for any jobs, requests and bounds.                *)
(***************************************************************************)
EXTENDS HttpJobs, TLAPS

\* The initial state has the types.
LEMMA TypeInit == Init => TypeOK
  BY DEF Init, TypeOK, Status

\* An effect is counted for the job that has it.
LEMMA EffectType ==
  ASSUME TypeOK, NEW j \in Jobs, Effect(j) \/ MaybeEffect(j)
  PROVE  /\ effects' \in [Jobs -> Nat]
         /\ \A k \in Jobs \ {j} : effects'[k] = effects[k]
         /\ effects'[j] \in {effects[j], effects[j] + 1}
         /\ Effect(j) => effects'[j] = effects[j] + 1
  BY DEF TypeOK, Effect, MaybeEffect

\* Every step keeps the types.
LEMMA TypeStep == TypeOK /\ [Next]_vars => TypeOK'
<1> SUFFICES ASSUME TypeOK, [Next]_vars PROVE TypeOK'
  OBVIOUS
<1> USE DEF TypeOK, counters, Status, Terminal
<1>1. CASE UNCHANGED vars
  BY <1>1 DEF vars
<1>2. ASSUME NEW j \in Jobs, NEW r \in Requests, Submit(j, r) PROVE TypeOK'
  BY <1>2 DEF Submit
<1>3. ASSUME NEW j \in Jobs, Get(j) PROVE TypeOK'
  BY <1>3 DEF Get, Told
<1>4. ASSUME NEW j \in Jobs, Cancel(j) PROVE TypeOK'
  BY <1>4 DEF Cancel, Told
<1>5. ASSUME NEW j \in Jobs, Begin(j) PROVE TypeOK'
  BY <1>5 DEF Begin
<1>6. ASSUME NEW j \in Jobs, LockState(j) PROVE TypeOK'
  BY <1>6 DEF LockState
<1>7. ASSUME NEW j \in Jobs, Dispatch(j) PROVE TypeOK'
  BY <1>7, EffectType DEF Dispatch
<1>8. ASSUME NEW j \in Jobs, Panic(j) PROVE TypeOK'
  <2>1. panics' \in Nat
    BY <1>8 DEF Panic
  <2> QED
    BY <1>8, <2>1, EffectType DEF Panic
<1>9. ASSUME NEW j \in Jobs, Finish(j) PROVE TypeOK'
  BY <1>9 DEF Finish, Outcome
<1>10. CASE RpcLock \/ RpcUnlock
  BY <1>10 DEF RpcLock, RpcUnlock
<1>11. CASE Crash
  <2>1. crashes' \in Nat
    BY <1>11 DEF Crash
  <2>2. effects' \in [Jobs -> Nat]
    BY <1>11, EffectType DEF Crash, MaybeEffect
  <2> QED
    BY <1>11, <2>1, <2>2 DEF Crash
<1> QED
  BY <1>1, <1>2, <1>3, <1>4, <1>5, <1>6, <1>7, <1>8, <1>9, <1>10, <1>11
     DEF Next, Task

\* Every variable keeps its type.
THEOREM TypeCorrect == Spec => []TypeOK
  BY TypeInit, TypeStep, PTL DEF Spec

-----------------------------------------------------------------------------
(* What clients are told *)

\* The inductive invariant behind ToldIsFinal.
FinalInv == RecordsMatch /\ ToldWasOver /\ ToldIsFinal

\* Nothing is in the table and nothing was told at first.
LEMMA FinalInit == Init => FinalInv
  BY HttpJobsAssumption DEF Init, FinalInv, RecordsMatch, ToldWasOver, ToldIsFinal, Terminal

\* Telling a client what the table shows keeps what was told true.
LEMMA TellStep ==
  ASSUME TypeOK, FinalInv, NEW j \in Jobs, status[j] # "none", told' = Told(j)
  PROVE  \A k \in Jobs, s \in Terminal :
            <<k, s>> \in told' =>
                /\ <<k, s>> \in told \/ (k = j /\ s = status[j] /\ task[j] = "over")
                /\ req[k] # None
                /\ task[k] \in {"over", "none"}
                /\ status[k] # "none" => status[k] = s
  BY DEF Told, FinalInv, RecordsMatch, ToldWasOver, ToldIsFinal

\* Every step keeps FinalInv.
LEMMA FinalStep == TypeOK /\ FinalInv /\ [Next]_vars => FinalInv'
<1> SUFFICES ASSUME TypeOK, FinalInv, [Next]_vars PROVE FinalInv'
  OBVIOUS
<1> USE DEF FinalInv, RecordsMatch, ToldWasOver, ToldIsFinal, Terminal
<1>1. CASE UNCHANGED vars
  BY <1>1 DEF vars
<1>2. ASSUME NEW j \in Jobs, NEW r \in Requests, Submit(j, r) PROVE FinalInv'
  <2>1. r # None
    BY HttpJobsAssumption
  <2> QED
    BY <1>2, <2>1 DEF Submit, TypeOK
<1>3. ASSUME NEW j \in Jobs, Get(j) PROVE FinalInv'
  BY <1>3, TellStep DEF Get
<1>4. ASSUME NEW j \in Jobs, Cancel(j) PROVE FinalInv'
  BY <1>4, TellStep DEF Cancel, CanCancel, TypeOK
<1>5. ASSUME NEW j \in Jobs, Begin(j) PROVE FinalInv'
  BY <1>5 DEF Begin, TypeOK
<1>6. ASSUME NEW j \in Jobs, LockState(j) PROVE FinalInv'
  BY <1>6 DEF LockState, TypeOK
<1>7. ASSUME NEW j \in Jobs, Dispatch(j) PROVE FinalInv'
  BY <1>7, HttpJobsAssumption DEF Dispatch, TypeOK
<1>8. ASSUME NEW j \in Jobs, Panic(j) PROVE FinalInv'
  BY <1>8, HttpJobsAssumption DEF Panic, TypeOK
<1>9. ASSUME NEW j \in Jobs, Finish(j) PROVE FinalInv'
  BY <1>9 DEF Finish, Outcome, TypeOK
<1>10. CASE RpcLock \/ RpcUnlock
  BY <1>10, HttpJobsAssumption DEF RpcLock, RpcUnlock
<1>11. CASE Crash
  BY <1>11, HttpJobsAssumption DEF Crash, TypeOK
<1> QED
  BY <1>1, <1>2, <1>3, <1>4, <1>5, <1>6, <1>7, <1>8, <1>9, <1>10, <1>11
     DEF Next, Task

\* What a client has read of a job that ended stays true while the daemon
\* lives, whoever cancels the job when (job_cancel_handler).
THEOREM ToldFinalHolds == Spec => []ToldIsFinal
<1>1. FinalInv => ToldIsFinal
  BY DEF FinalInv
<1> QED
  BY <1>1, TypeInit, TypeStep, FinalInit, FinalStep, PTL DEF Spec

-----------------------------------------------------------------------------
(* What clients are told is what happened *)

\* The strengthening of FinalInv behind ToldIsTrue.
TrueInv == FinalInv /\ OutcomesMatch /\ ToldIsTrue

\* Nothing was dispatched and nothing was told at first.
LEMMA TrueInit == Init => OutcomesMatch /\ ToldIsTrue
  BY DEF Init, OutcomesMatch, ToldIsTrue

\* What the table shows of a job that is over is what its dispatch did.
LEMMA TellTrue ==
  ASSUME TypeOK, TrueInv, NEW j \in Jobs, told' = Told(j),
         UNCHANGED <<req, ok, effects>>
  PROVE  ToldIsTrue'
<1> USE DEF TrueInv, OutcomesMatch, ToldIsTrue
<1>1. CASE told' = told
  BY <1>1
<1>2. CASE status[j] \in Terminal /\ told' = told \cup {<<j, status[j]>>}
  <2>1. task[j] = "over"
    BY <1>2 DEF FinalInv, RecordsMatch
  <2> QED
    BY <1>2, <2>1
<1> QED
  BY <1>1, <1>2 DEF Told

\* Every step keeps the outcomes and what was told of them.
LEMMA TrueStep == TypeOK /\ TrueInv /\ [Next]_vars => OutcomesMatch' /\ ToldIsTrue'
<1> SUFFICES ASSUME TypeOK, TrueInv, [Next]_vars PROVE OutcomesMatch' /\ ToldIsTrue'
  OBVIOUS
<1> DEFINE Goal == OutcomesMatch' /\ ToldIsTrue'
<1> USE DEF TrueInv, OutcomesMatch, ToldIsTrue
<1>1. CASE UNCHANGED vars
  BY <1>1 DEF vars
<1>2. ASSUME NEW j \in Jobs, NEW r \in Requests, Submit(j, r) PROVE Goal
  BY <1>2 DEF Submit, TypeOK, FinalInv, ToldWasOver, Terminal
<1>3. ASSUME NEW j \in Jobs, Get(j) PROVE Goal
  BY <1>3, TellTrue DEF Get
<1>4. ASSUME NEW j \in Jobs, Cancel(j) PROVE Goal
  BY <1>4, TellTrue DEF Cancel, CanCancel, TypeOK
<1>5. ASSUME NEW j \in Jobs, Begin(j) PROVE Goal
  BY <1>5 DEF Begin, TypeOK
<1>6. ASSUME NEW j \in Jobs, LockState(j) PROVE Goal
  BY <1>6 DEF LockState, TypeOK
<1>7. ASSUME NEW j \in Jobs, Dispatch(j) PROVE Goal
  <2>1. /\ effects[j] = 0
        /\ req[j] # None
        /\ status[j] \notin Terminal
        /\ \A s \in Terminal : <<j, s>> \notin told
    BY <1>7 DEF Dispatch, FinalInv, RecordsMatch, ToldWasOver
  <2>2. /\ UNCHANGED <<status, req, told>>
        /\ task'[j] = "done"
        /\ \A k \in Jobs \ {j} : task'[k] = task[k] /\ ok'[k] = ok[k]
    BY <1>7 DEF Dispatch, TypeOK
  <2>3. /\ ok'[j] => effects'[j] = 1
        /\ \A k \in Jobs \ {j} : effects'[k] = effects[k]
    BY <1>7, <2>1, EffectType DEF Dispatch, TypeOK
  <2>4. OutcomesMatch'
    BY <2>1, <2>2, <2>3 DEF Terminal
  <2>5. ToldIsTrue'
    BY <2>1, <2>2, <2>3 DEF Terminal
  <2> QED
    BY <2>4, <2>5
<1>8. ASSUME NEW j \in Jobs, Panic(j) PROVE Goal
  <2>1. /\ req[j] # None
        /\ status[j] \notin Terminal
        /\ \A s \in Terminal : <<j, s>> \notin told
    BY <1>8 DEF Panic, FinalInv, RecordsMatch, ToldWasOver
  <2>2. /\ UNCHANGED <<status, req, ok, told>>
        /\ task'[j] = "dead"
        /\ \A k \in Jobs \ {j} : task'[k] = task[k]
    BY <1>8 DEF Panic, TypeOK
  <2>3. \A k \in Jobs \ {j} : effects'[k] = effects[k]
    BY <1>8, EffectType DEF Panic
  <2>4. OutcomesMatch'
    BY <2>1, <2>2, <2>3 DEF Terminal
  <2>5. ToldIsTrue'
    BY <2>1, <2>2, <2>3 DEF Terminal
  <2> QED
    BY <2>4, <2>5
<1>9. ASSUME NEW j \in Jobs, Finish(j) PROVE Goal
  BY <1>9 DEF Finish, Outcome, TypeOK
<1>10. CASE RpcLock \/ RpcUnlock
  BY <1>10 DEF RpcLock, RpcUnlock
<1>11. CASE Crash
  <2>1. /\ \A k \in Jobs : status'[k] = "none" /\ task'[k] = "none"
        /\ UNCHANGED <<req, ok, told>>
    BY <1>11 DEF Crash
  <2>2. CASE lock \in Jobs
    <3>1. /\ req[lock] # None
          /\ \A s \in Terminal : <<lock, s>> \notin told
      BY <2>2 DEF FinalInv, RecordsMatch, ToldWasOver
    <3>2. \A k \in Jobs \ {lock} : effects'[k] = effects[k]
      BY <1>11, <2>2, EffectType DEF Crash
    <3> QED
      BY <2>1, <3>1, <3>2 DEF Terminal
  <2>3. CASE lock \notin Jobs
    BY <1>11, <2>1, <2>3 DEF Crash, Terminal
  <2> QED
    BY <2>2, <2>3
<1> QED
  BY <1>1, <1>2, <1>3, <1>4, <1>5, <1>6, <1>7, <1>8, <1>9, <1>10, <1>11
     DEF Next, Task

\* A job told succeeded has taken effect exactly once and one told failed was
\* answered an error, also after the daemon has died and lost its table
\* (jobs_handler).
THEOREM ToldTrueHolds == Spec => []ToldIsTrue
<1>1. Init => TrueInv
  BY FinalInit, TrueInit DEF TrueInv
<1>2. TypeOK /\ TrueInv /\ [Next]_vars => TrueInv'
  BY FinalStep, TrueStep DEF TrueInv
<1>3. TrueInv => ToldIsTrue
  BY DEF TrueInv
<1> QED
  BY <1>1, <1>2, <1>3, TypeInit, TypeStep, PTL DEF Spec
===============================================================================
