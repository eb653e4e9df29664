--------------------------- MODULE FileRefreshProofs ---------------------------
(***************************************************************************)
(* Proofs about FileRefresh for any files, workers, failing steps and      *)
(* bounds.                                                                 *)
(***************************************************************************)
EXTENDS FileRefresh, TLAPS

\* What every step preserves of the jobs.
JobsOK == job \in [Workers -> Job] /\ JobShape

\* The steps of a handler that carries a request, and of a recovery.
RequestPc == {"seen", "parse", "append", "merge", "commit", "read", "apply",
              "publish", "swap", "mark", "undo"}
RecoverPc == {"read", "apply", "publish", "swap", "mark", "failures", "replay"}

-----------------------------------------------------------------------------
(* Jobs *)

\* One worker's job is replaced by another well-formed one.
LEMMA SetJob ==
  ASSUME NEW w \in Workers, NEW j \in Job, JobsOK, Shaped(j),
         job' = [job EXCEPT ![w] = j]
  PROVE  JobsOK'
<1>1. job' \in [Workers -> Job]
  BY DEF JobsOK
<1>2. \A v \in Workers : job'[v] = IF v = w THEN j ELSE job[v]
  BY DEF JobsOK
<1>3. JobShape'
  BY <1>2 DEF JobsOK, JobShape, Shaped
<1> QED
  BY <1>1, <1>3 DEF JobsOK

\* The idle job is a job.
LEMMA IdleJob == Idle \in Job /\ Shaped(Idle)
  BY DEF Idle, Job, Shaped

\* Ending a handler leaves an idle worker, or the rest of a recovery.
LEMMA FinishJobs ==
  ASSUME NEW w \in Workers, JobsOK, Finish(w)
  PROVE  JobsOK'
<1>1. job[w] \in Job
  BY DEF JobsOK
<1>2. After(w) \in Job /\ Shaped(After(w))
  BY <1>1 DEF After, Idle, Job, Shaped
<1> QED
  BY <1>2, SetJob DEF Finish

\* A handler goes on to a step of its kind.
LEMMA GotoJobs ==
  ASSUME NEW w \in Workers, NEW pc, JobsOK, Goto(w, pc),
         \/ job[w].kind \in {"refresh", "delete", "replay"} /\ pc \in RequestPc
         \/ job[w].kind = "recover" /\ pc \in RecoverPc
  PROVE  JobsOK'
<1> DEFINE j == [job[w] EXCEPT !.pc = pc]
<1>1. job[w] \in Job /\ Shaped(job[w])
  BY DEF JobsOK, JobShape
<1>2. j \in Job /\ Shaped(j)
  BY <1>1 DEF Job, Shaped, RequestPc, RecoverPc
<1>3. job' = [job EXCEPT ![w] = j]
  BY DEF Goto, JobsOK
<1> QED
  BY <1>2, <1>3, SetJob

\* What is known of a worker at a step from the step's name.
LEMMA AtStep ==
  ASSUME NEW w \in Workers, JobsOK
  PROVE  /\ job[w] \in Job
         /\ job[w].pc \in {"seen", "parse", "append", "merge", "commit", "undo"}
              => job[w].kind \in {"refresh", "delete", "replay"}
         /\ job[w].pc \in {"read", "apply", "publish", "swap", "mark"}
              => job[w].kind \in {"refresh", "delete", "replay", "recover"}
         /\ job[w].pc \in {"failures", "replay"} => job[w].kind = "recover"
         /\ job[w].kind \in {"refresh", "delete", "replay"}
              => job[w].msg \in Msg
  BY DEF JobsOK, JobShape, Shaped, Job

\* The end of a replication.
LEMMA LeaveJobs ==
  ASSUME NEW w \in Workers, NEW failed \in BOOLEAN, JobsOK, Leave(w, failed),
         job[w].pc \in {"read", "apply", "publish", "swap", "mark"}
  PROVE  JobsOK'
<1>1. CASE job[w].kind = "recover"
  BY <1>1, GotoJobs DEF Leave, RecoverPc
<1>2. CASE job[w].kind # "recover" /\ failed
  BY <1>2, AtStep, GotoJobs DEF Leave, RequestPc
<1>3. CASE job[w].kind # "recover" /\ ~ failed
  BY <1>3, FinishJobs DEF Leave
<1> QED
  BY <1>1, <1>2, <1>3

\* Every step keeps the jobs well-formed.
LEMMA JobsStep == TypeOK /\ JobShape /\ [Next]_vars => JobsOK'
<1> SUFFICES ASSUME TypeOK, JobShape, [Next]_vars PROVE JobsOK'
  OBVIOUS
<1>0. JobsOK
  BY DEF TypeOK, JobsOK
<1> USE <1>0
<1>1. CASE UNCHANGED job
  BY <1>1 DEF JobsOK, JobShape
<1>2. ASSUME NEW w \in Workers, NEW m \in msgs, Deliver(w, m) PROVE JobsOK'
  <2> DEFINE j == [Idle EXCEPT !.kind = m.op, !.pc = "seen", !.msg = m]
  <2>1. m \in Msg
    BY DEF TypeOK
  <2>2. j \in Job /\ Shaped(j)
    BY <2>1 DEF Idle, Job, Shaped, Msg
  <2> QED
    BY <1>2, <2>2, SetJob DEF Deliver
<1>3. ASSUME NEW w \in Workers, Recover(w) PROVE JobsOK'
  <2> DEFINE j == [Idle EXCEPT !.kind = "recover", !.pc = "read"]
  <2>1. j \in Job /\ Shaped(j)
    BY DEF Idle, Job, Shaped
  <2> QED
    BY <1>3, <2>1, SetJob DEF Recover
<1>4. ASSUME NEW w \in Workers, Step(w) PROVE JobsOK'
  <2> DEFINE m == job[w].msg
  <2>1. job[w] \in Job /\ Shaped(job[w])
    BY DEF JobsOK, JobShape
  <2>2. CASE Seen(w)
    BY <2>2, AtStep, GotoJobs, FinishJobs DEF Seen, At, RequestPc
  <2>3. CASE Parse(w)
    BY <2>3, AtStep, GotoJobs, FinishJobs DEF Parse, At, RequestPc
  <2>4. CASE Append(w)
    <3>1. CASE Finish(w)
      BY <3>1, FinishJobs
    <3>2. ASSUME NEW lsn \in 1 .. MaxLsn,
                 job' = [job EXCEPT
                      ![w].pc = IF m.op = "delete" THEN "commit" ELSE "merge",
                      ![w].lsn = lsn]
          PROVE  JobsOK'
      <4> DEFINE next == IF m.op = "delete" THEN "commit" ELSE "merge"
                 j == [job[w] EXCEPT !.pc = next, !.lsn = lsn]
      <4>1. job[w].kind \in {"refresh", "delete", "replay"} /\ lsn \in Nat
        BY <2>4, AtStep DEF Append, At
      <4>2. j \in Job /\ Shaped(j)
        <5>1. next \in {"commit", "merge"}
          OBVIOUS
        <5> HIDE DEF next
        <5> QED
          BY <2>1, <4>1, <5>1 DEF Job, Shaped
      <4>3. job' = [job EXCEPT ![w] = j]
        BY <3>2 DEF JobsOK
      <4> QED
        BY <4>2, <4>3, SetJob
    <3> QED
      BY <2>4, <3>1, <3>2 DEF Append
  <2>5. CASE Merge(w)
    BY <2>5, AtStep, GotoJobs, FinishJobs DEF Merge, At, RequestPc, AfterMergeFailure
  <2>6. CASE Commit(w)
    BY <2>6, AtStep, GotoJobs, FinishJobs DEF Commit, At, RequestPc
  <2>7. CASE ReadNone(w)
    BY <2>7, LeaveJobs DEF ReadNone, At
  <2>8. CASE Read(w)
    <3>1. CASE Leave(w, TRUE)
      BY <2>8, <3>1, LeaveJobs DEF Read, At
    <3>2. CASE job' = [job EXCEPT ![w].pc = "apply", ![w].batch = log,
                                  ![w].tombs = Tombstones(log)]
      <4> DEFINE j == [job[w] EXCEPT !.pc = "apply", !.batch = log,
                                     !.tombs = Tombstones(log)]
      <4>1. job[w].kind \in {"refresh", "delete", "replay", "recover"}
        BY <2>8, AtStep DEF Read, At
      <4>2. j \in Job /\ Shaped(j)
        BY <2>1, <4>1 DEF Job, Shaped, TypeOK, Tombstones
      <4>3. job' = [job EXCEPT ![w] = j]
        BY <3>2 DEF JobsOK
      <4> QED
        BY <4>2, <4>3, SetJob
    <3> QED
      BY <2>8, <3>1, <3>2 DEF Read
  <2>9. CASE Apply(w)
    <3>1. CASE Leave(w, TRUE)
      BY <2>9, <3>1, LeaveJobs DEF Apply, At
    <3>2. ASSUME NEW e \in job[w].tombs, job' = [job EXCEPT ![w].tombs = @ \ {e}]
          PROVE  JobsOK'
      <4> DEFINE j == [job[w] EXCEPT !.tombs = @ \ {e}]
      <4>1. j \in Job /\ Shaped(j)
        BY <2>1 DEF Job, Shaped
      <4>2. job' = [job EXCEPT ![w] = j]
        BY <3>2 DEF JobsOK
      <4> QED
        BY <4>1, <4>2, SetJob
    <3> QED
      BY <2>9, <3>1, <3>2 DEF Apply
  <2>10. CASE Applied(w)
    BY <2>10, AtStep, GotoJobs DEF Applied, At, RequestPc, RecoverPc
  <2>11. CASE Publish(w)
    <3>1. CASE AfterPublishFailure(w)
      BY <2>11, <3>1, LeaveJobs DEF Publish, At, AfterPublishFailure
    <3>2. CASE job' = [job EXCEPT ![w].pc = "swap", ![w].built = graph[Num]]
      <4> DEFINE j == [job[w] EXCEPT !.pc = "swap", !.built = graph[Num]]
      <4>1. job[w].kind \in {"refresh", "delete", "replay", "recover"}
        BY <2>11, AtStep DEF Publish, At
      <4>2. j \in Job /\ Shaped(j)
        BY <2>1, <4>1 DEF Job, Shaped, TypeOK
      <4>3. job' = [job EXCEPT ![w] = j]
        BY <3>2 DEF JobsOK
      <4> QED
        BY <4>2, <4>3, SetJob
    <3> QED
      BY <2>11, <3>1, <3>2 DEF Publish
  <2>17. CASE Swap(w)
    <3> DEFINE j == [job[w] EXCEPT !.pc = "mark", !.built = None]
    <3>1. job[w].kind \in {"refresh", "delete", "replay", "recover"}
      BY <2>17, AtStep DEF Swap, At
    <3>2. j \in Job /\ Shaped(j)
      BY <2>1, <3>1 DEF Job, Shaped
    <3>3. job' = [job EXCEPT ![w] = j]
      BY <2>17 DEF Swap, JobsOK
    <3> QED
      BY <3>2, <3>3, SetJob
  <2>12. CASE Mark(w)
    BY <2>12, LeaveJobs DEF Mark, At
  <2>13. CASE Undo(w)
    BY <2>13, FinishJobs DEF Undo
  <2>14. CASE Failures(w)
    <3> DEFINE j == [job[w] EXCEPT !.pc = "replay",
                                   !.todo = {x \in retry : x.tries < MaxRetry}]
    <3>1. job[w].kind = "recover"
      BY <2>14, AtStep DEF Failures, At
    <3>2. j \in Job /\ Shaped(j)
      BY <2>1, <3>1 DEF Job, Shaped, TypeOK
    <3>3. job' = [job EXCEPT ![w] = j]
      BY <2>14 DEF Failures, JobsOK
    <3> QED
      BY <3>2, <3>3, SetJob
  <2>15. ASSUME NEW x \in job[w].todo, Replay(w, x) PROVE JobsOK'
    <3>1. x \in Failure /\ job[w].kind = "recover"
      BY <2>1, <2>15, AtStep DEF Job, Replay, At
    <3>2. CASE job' = [job EXCEPT ![w].todo = @ \ {x}]
      <4> DEFINE j == [job[w] EXCEPT !.todo = @ \ {x}]
      <4>1. j \in Job /\ Shaped(j)
        BY <2>1 DEF Job, Shaped
      <4>2. job' = [job EXCEPT ![w] = j]
        BY <3>2 DEF JobsOK
      <4> QED
        BY <4>1, <4>2, SetJob
    <3>3. CASE job' = [job EXCEPT ![w] =
                [job[w] EXCEPT !.kind = "replay", !.pc = "append",
                          !.todo = job[w].todo \ {x}, !.failure = x.lsn,
                          !.msg = [op |-> "refresh", file |-> x.file,
                                   gen |-> x.gen, edit |-> disk[x.file].edit]]]
      <4> DEFINE again == [op |-> "refresh", file |-> x.file,
                           gen |-> x.gen, edit |-> disk[x.file].edit]
                 j == [job[w] EXCEPT !.kind = "replay", !.pc = "append",
                          !.todo = job[w].todo \ {x}, !.failure = x.lsn, !.msg = again]
      <4>1. again \in Msg
        BY <3>1 DEF Failure, Msg, TypeOK, Version
      <4>2. j \in Job /\ Shaped(j)
        BY <2>1, <3>1, <4>1 DEF Job, Shaped, Failure
      <4>3. job' = [job EXCEPT ![w] = j]
        BY <3>3
      <4> HIDE DEF j
      <4> QED
        BY <4>2, <4>3, SetJob
    <3> QED
      BY <2>15, <3>2, <3>3 DEF Replay
  <2>16. CASE Recovered(w)
    BY <2>16, IdleJob, SetJob DEF Recovered
  <2> QED
    BY <1>4, <2>2, <2>3, <2>4, <2>5, <2>6, <2>7, <2>8, <2>9, <2>10, <2>11,
       <2>12, <2>13, <2>14, <2>15, <2>16, <2>17 DEF Step
<1>5. CASE Crash
  BY <1>5, IdleJob DEF Crash, JobsOK, JobShape
<1> QED
  BY <1>1, <1>2, <1>3, <1>4, <1>5 DEF Next, Edit, Send, Connect, vars

-----------------------------------------------------------------------------
(* Type correctness *)

\* One row of the graph is written.
LEMMA GraphAt ==
  ASSUME TypeOK, NEW i \in {Row, Num}, NEW f \in Files, NEW v \in Version,
         graph' = [graph EXCEPT ![i][f] = v]
  PROVE  /\ graph' \in [{Row, Num} -> [Files -> Version]]
         /\ \A j \in {Row, Num}, g \in Files :
               graph'[j][g] = IF j = i /\ g = f THEN v ELSE graph[j][g]
<1>1. graph \in [{Row, Num} -> [Files -> Version]]
  BY DEF TypeOK
<1> DEFINE rows == [graph[i] EXCEPT ![f] = v]
<1>2. rows \in [Files -> Version] /\ \A g \in Files : rows[g] = IF g = f THEN v ELSE graph[i][g]
  BY <1>1
<1>3. graph' = [graph EXCEPT ![i] = rows]
  BY <1>1
<1> HIDE DEF rows
<1> QED
  BY <1>1, <1>2, <1>3

\* The sent requests keep their type.
LEMMA SendTypes ==
  ASSUME TypeOK, NEW f \in Files, Send(f)
  PROVE  TypeOK'
<1> DEFINE m == [op |-> IF disk[f].live THEN "refresh" ELSE "delete", file |-> f,
                 gen |-> <<epoch, seq + 1>>, edit |-> disk[f].edit]
<1>1. m \in Msg
  BY DEF TypeOK, Msg, Gen, Version
<1>2. msgs' \subseteq Msg
  BY <1>1 DEF Send, TypeOK
<1> QED
  BY <1>2 DEF Send, TypeOK, boundVars

\* A step of a handler keeps the types of the data.
LEMMA HandlerTypes ==
  ASSUME TypeOK, JobShape, NEW w \in Workers, Step(w), job' \in [Workers -> Job]
  PROVE  TypeOK'
<1> DEFINE m == job[w].msg
<1>1. job[w] \in Job
  BY DEF TypeOK
<1>2. JobsOK
  BY DEF TypeOK, JobsOK
<1>3. faults + 1 \in Nat
  BY DEF TypeOK
<1>4. CASE Seen(w)
  <2>1. m.gen \in Gen
    BY <1>2, <1>4, AtStep DEF Seen, At, Msg
  <2> QED
    BY <1>3, <1>4, <2>1 DEF Seen, TypeOK, Works, Fails, boundVars, agentVars
<1>5. CASE Parse(w)
  <2>1. \A lsn \in 1 .. MaxLsn : Failed(m, lsn) \in Failure
    BY <1>2, <1>5, AtStep DEF Parse, At, Msg, Failed, Failure
  <2>2. retry' \subseteq Failure
    BY <1>5, <2>1 DEF Parse, TypeOK
  <2> QED
    BY <1>3, <1>5, <2>2 DEF Parse, TypeOK, Works, Fails, boundVars, agentVars, genVars
<1>6. CASE Append(w)
  <2>1. \A lsn \in 1 .. MaxLsn : StagedAs(m, lsn) \in Entry
    BY <1>2, <1>6, AtStep DEF Append, At, Msg, StagedAs, Entry
  <2>2. log' \subseteq Entry
    BY <1>6, <2>1 DEF Append, TypeOK
  <2> QED
    BY <1>3, <1>6, <2>2 DEF Append, TypeOK, Works, Fails, boundVars, agentVars, genVars
<1>7. CASE Merge(w)
  <2>1. [edit |-> m.edit, live |-> TRUE] \in Version
    BY <1>2, <1>7, AtStep DEF Merge, At, Msg, Version
  <2>2. graph' \in [{Row, Num} -> [Files -> Version]]
    <3>1. m.file \in Files
      BY <1>2, <1>7, AtStep DEF Merge, At, Msg
    <3>2. CASE graph' = [graph EXCEPT ![Row][m.file] = [edit |-> m.edit, live |-> TRUE]]
      BY <2>1, <3>1, <3>2, GraphAt
    <3> QED
      BY <1>7, <3>2 DEF Merge, TypeOK
  <2> QED
    BY <1>3, <1>7, <2>2 DEF Merge, TypeOK, Works, Fails, boundVars, agentVars, genVars
<1>8. CASE Commit(w)
  <2>1. m.gen \in Gen /\ m.file \in Files
    BY <1>2, <1>8, AtStep DEF Commit, At, Msg
  <2>2. comm' \in [Files -> Gen] /\ top' \in [Files -> Gen]
    BY <1>8, <2>1 DEF Commit, TypeOK
  <2>3. log' \subseteq Entry
    BY <1>8 DEF Commit, TypeOK
  <2> QED
    BY <1>3, <1>8, <2>2, <2>3 DEF Commit, TypeOK, Works, Fails, boundVars, agentVars
<1>9. CASE ReadNone(w)
  <2>1. job[w].kind = "delete" => m \in Msg
    BY <1>2, AtStep
  <2> QED
    BY <1>9, <2>1 DEF ReadNone, TypeOK, Cleared, agentVars, genVars, boundVars
<1>10. CASE Read(w)
  BY <1>3, <1>10 DEF Read, TypeOK, Works, Fails, boundVars, agentVars, genVars
<1>11. CASE Apply(w)
  <2>1. \A e \in job[w].tombs : [edit |-> e.edit, live |-> FALSE] \in Version
    BY <1>1 DEF Job, Entry, Version
  <2>2. ASSUME NEW e \in job[w].tombs,
               graph' = [graph EXCEPT ![Num][e.file] = [edit |-> e.edit, live |-> FALSE]]
        PROVE  graph' \in [{Row, Num} -> [Files -> Version]]
    <3>1. e.file \in Files
      BY <1>1 DEF Job, Entry
    <3> QED
      BY <2>1, <2>2, <3>1, GraphAt
  <2>3. graph' \in [{Row, Num} -> [Files -> Version]]
    BY <1>11, <2>2 DEF Apply, TypeOK
  <2> QED
    BY <1>3, <1>11, <2>3 DEF Apply, TypeOK, Works, Fails, boundVars, agentVars, genVars
<1>12. CASE Applied(w)
  BY <1>12 DEF Applied, TypeOK, boundVars, agentVars, genVars
<1>13. CASE Publish(w)
  <2>1. log' \subseteq Entry
    BY <1>13 DEF Publish, AfterPublishFailure, TypeOK
  <2> QED
    BY <1>3, <1>13, <2>1 DEF Publish, TypeOK, Works, Fails, boundVars, agentVars, genVars
<1>19. CASE Swap(w)
  <2>1. snap' \in [Files -> Version] \cup {None}
    BY <1>1, <1>19 DEF Swap, Job
  <2> QED
    BY <1>19, <2>1 DEF Swap, TypeOK, boundVars, agentVars, genVars
<1>14. CASE Mark(w)
  <2>1. job[w].kind \in {"refresh", "delete"} => m \in Msg
    BY <1>2, AtStep
  <2>2. answered' \subseteq Msg
    BY <1>14, <2>1 DEF Mark, TypeOK
  <2>3. log' \subseteq Entry /\ retry' \subseteq Failure
    BY <1>14 DEF Mark, TypeOK, Cleared
  <2> QED
    BY <1>3, <1>14, <2>2, <2>3
       DEF Mark, TypeOK, Works, Fails, boundVars, agentVars, genVars
<1>15. CASE Undo(w)
  <2>1. NoGen \in Gen
    BY DEF Gen, NoGen
  <2>2. comm' \in [Files -> Gen]
    BY <1>15, <2>1 DEF Undo, Uncommitted, TypeOK
  <2> QED
    BY <1>3, <1>15, <2>2 DEF Undo, TypeOK, Works, Fails, boundVars, agentVars
<1>16. CASE Failures(w)
  BY <1>16 DEF Failures, TypeOK, boundVars, agentVars, genVars
<1>17. ASSUME NEW x \in job[w].todo, Replay(w, x) PROVE TypeOK'
  <2>1. x \in Failure
    BY <1>1 DEF Job
  <2>2. [x EXCEPT !.tries = @ + 1] \in Failure
    BY <2>1 DEF Failure
  <2>3. retry' \subseteq Failure
    BY <1>17, <2>2 DEF Replay, Exhausted, Retried, TypeOK
  <2> QED
    BY <1>3, <1>17, <2>3 DEF Replay, TypeOK, Works, Fails, boundVars, agentVars, genVars
<1>18. CASE Recovered(w)
  BY <1>18 DEF Recovered, TypeOK, boundVars, agentVars, genVars
<1> QED
  BY <1>4, <1>5, <1>6, <1>7, <1>8, <1>9, <1>10, <1>11, <1>12, <1>13, <1>14,
     <1>15, <1>16, <1>17, <1>18, <1>19 DEF Step

\* Every step keeps the types and the shape of the jobs.
LEMMA TypeStep == TypeOK /\ JobShape /\ [Next]_vars => TypeOK' /\ JobShape'
<1> SUFFICES ASSUME TypeOK, JobShape, [Next]_vars PROVE TypeOK' /\ JobShape'
  OBVIOUS
<1>1. JobsOK'
  BY JobsStep
<1>2. job' \in [Workers -> Job] /\ JobShape'
  BY <1>1 DEF JobsOK
<1>3. CASE UNCHANGED vars
  BY <1>2, <1>3 DEF TypeOK, vars
<1>4. ASSUME NEW f \in Files, NEW live \in BOOLEAN, Edit(f, live) PROVE TypeOK'
  <2>1. disk' \in [Files -> Version]
    BY <1>4 DEF Edit, TypeOK, Version
  <2> QED
    BY <1>4, <2>1 DEF Edit, TypeOK, boundVars
<1>5. ASSUME NEW w \in Workers, Connect(w) PROVE TypeOK'
  BY <1>5 DEF Connect, TypeOK, boundVars
<1>6. ASSUME NEW w \in Workers, NEW m \in msgs, Deliver(w, m) PROVE TypeOK'
  BY <1>2, <1>6 DEF Deliver, TypeOK, agentVars, genVars, boundVars
<1>7. ASSUME NEW w \in Workers, Recover(w) PROVE TypeOK'
  BY <1>2, <1>7 DEF Recover, TypeOK, agentVars, genVars, boundVars
<1>8. CASE Crash
  <2>1. crashes \in Nat /\ crashes' = crashes + 1
    BY <1>8 DEF Crash, TypeOK
  <2>2. crashes' \in Nat
    BY <2>1
  <2>3. up' \in BOOLEAN
    BY <1>8 DEF Crash
  <2> QED
    BY <1>2, <1>8, <2>2, <2>3 DEF Crash, TypeOK, agentVars, genVars
<1> QED
  BY <1>2, <1>3, <1>4, <1>5, <1>6, <1>7, <1>8, SendTypes, HandlerTypes DEF Next

\* The initial state has its types.
LEMMA TypeInit == Init => TypeOK /\ JobShape
<1> SUFFICES ASSUME Init PROVE TypeOK /\ JobShape
  OBVIOUS
<1>1. Absent \in Version /\ Foreign \in Version /\ NoGen \in Gen
  BY DEF Absent, Foreign, Version, NoGen, Gen
<1>2. graph \in [{Row, Num} -> [Files -> Version]]
  BY <1>1 DEF Init
<1> QED
  BY <1>1, <1>2, IdleJob DEF Init, TypeOK, JobShape

\* Every variable keeps its type, and a handler's step says what request it
\* carries.
THEOREM TypeCorrect == Spec => [](TypeOK /\ JobShape)
  BY TypeInit, TypeStep, PTL DEF Spec

-----------------------------------------------------------------------------
(* The order of generations *)

\* Generations are ordered totally, as by parse_generation.
LEMMA GenOrder ==
  ASSUME NEW g \in Gen, NEW h \in Gen, NEW k \in Gen
  PROVE  /\ ~ Older(g, g)
         /\ ~ Older(g, h) /\ ~ Older(h, g) => g = h
         /\ ~ Older(h, g) /\ ~ Older(k, h) => ~ Older(k, g)
         /\ Older(g, h) => ~ Older(h, g)
         /\ ~ Older(h, g) /\ Older(h, k) => Older(g, k)
<1> PICK g1 \in Nat, g2 \in Nat : g = <<g1, g2>>
  BY DEF Gen
<1> PICK h1 \in Nat, h2 \in Nat : h = <<h1, h2>>
  BY DEF Gen
<1> PICK k1 \in Nat, k2 \in Nat : k = <<k1, k2>>
  BY DEF Gen
<1> QED
  BY DEF Older

\* Nothing is committed that is older than what was seen last.
LEMMA SeenStep ==
  TypeOK /\ JobShape /\ SeenIsNewest /\ [Next]_vars => SeenIsNewest'
<1> SUFFICES ASSUME TypeOK, JobShape, SeenIsNewest, [Next]_vars
             PROVE  SeenIsNewest'
  OBVIOUS
<1>0. JobsOK
  BY DEF TypeOK, JobsOK
<1>1. CASE UNCHANGED <<seen, top>>
  BY <1>1 DEF SeenIsNewest
<1>2. ASSUME NEW w \in Workers, Seen(w) PROVE SeenIsNewest'
  <2> DEFINE m == job[w].msg
  <2>1. m \in Msg
    BY <1>0, <1>2, AtStep DEF Seen, At
  <2>2. CASE UNCHANGED seen
    BY <1>2, <2>2, <1>1 DEF Seen
  <2>3. CASE Fresh(m.file, m.gen) /\ seen' = [seen EXCEPT ![m.file] = m.gen]
    <3>1. ~ Older(m.gen, seen[m.file])
      BY <2>3 DEF Fresh
    <3>2. ~ Older(seen[m.file], top[m.file])
      BY <2>1 DEF SeenIsNewest, Msg
    <3>3. m.gen \in Gen /\ m.file \in Files
      BY <2>1 DEF Msg
    <3>4. ~ Older(m.gen, top[m.file])
      BY <3>1, <3>2, <3>3, GenOrder DEF TypeOK
    <3> QED
      BY <1>2, <2>3, <3>3, <3>4 DEF SeenIsNewest, Seen, TypeOK
  <2> QED
    BY <1>2, <2>2, <2>3 DEF Seen
<1>3. ASSUME NEW w \in Workers, Commit(w) PROVE SeenIsNewest'
  <2> DEFINE m == job[w].msg
  <2>1. m \in Msg
    BY <1>0, <1>3, AtStep DEF Commit, At
  <2>2. CASE UNCHANGED top
    BY <1>3, <2>2, <1>1 DEF Commit
  <2>3. ASSUME StillSeen(m),
               top' = [top EXCEPT ![m.file] =
                IF Older(top[m.file], m.gen) THEN m.gen ELSE top[m.file]]
        PROVE  SeenIsNewest'
    <3>1. m.gen \in Gen /\ m.file \in Files
      BY <2>1 DEF Msg
    <3>2. ~ Older(m.gen, m.gen) /\ seen[m.file] = m.gen
      BY <2>3, <3>1, GenOrder DEF StillSeen
    <3> QED
      BY <1>3, <2>3, <3>1, <3>2 DEF SeenIsNewest, Commit, TypeOK
  <2> QED
    BY <1>3, <2>2, <2>3 DEF Commit
<1> QED
  BY <1>1, <1>2, <1>3
     DEF Next, Step, vars, Edit, Send, Connect, Deliver, Recover, Crash, Parse,
         Append, Merge, ReadNone, Read, Apply, Applied, Publish, Swap, Mark, Undo,
         Failures, Replay, Recovered, agentVars, genVars

\* A step commits nothing older than the newest commit before it.
LEMMA OrderStep ==
  TypeOK /\ JobShape /\ SeenIsNewest /\ [Next]_vars =>
    \A f \in Files :
        comm'[f] # comm[f] => comm'[f] = NoGen \/ ~ Older(comm'[f], top[f])
<1> SUFFICES ASSUME TypeOK, JobShape, SeenIsNewest, [Next]_vars,
                    NEW f \in Files, comm'[f] # comm[f]
             PROVE  comm'[f] = NoGen \/ ~ Older(comm'[f], top[f])
  OBVIOUS
<1>0. JobsOK
  BY DEF TypeOK, JobsOK
<1>1. PICK w \in Workers : Commit(w) \/ Undo(w)
  BY DEF Next, Step, vars, Edit, Send, Connect, Deliver, Recover, Crash, Seen,
         Parse, Append, Merge, ReadNone, Read, Apply, Applied, Publish, Swap, Mark,
         Failures, Replay, Recovered, agentVars, genVars
<1> DEFINE m == job[w].msg
<1>2. CASE Commit(w)
  <2>1. m \in Msg
    BY <1>0, <1>2, AtStep DEF Commit, At
  <2>2. StillSeen(m) /\ comm' = [comm EXCEPT ![m.file] = m.gen]
    BY <1>2 DEF Commit
  <2>3. f = m.file /\ comm'[f] = seen[f]
    BY <2>1, <2>2 DEF TypeOK, StillSeen, Msg
  <2> QED
    BY <2>3 DEF SeenIsNewest
<1>3. CASE Undo(w)
  BY <1>3 DEF Undo, Uncommitted, TypeOK
<1> QED
  BY <1>1, <1>2, <1>3

\* The initial state has nothing seen or committed.
LEMMA SeenInit == Init => SeenIsNewest
  BY DEF Init, SeenIsNewest, NoGen, Older

\* Whatever is delayed, repeated, interleaved or undone, a file's commits go
\* forward (file_generation_seen and file_generation_committed).
THEOREM CommitsInOrder == Spec => AcceptedInOrder
<1>1. TypeOK /\ JobShape /\ SeenIsNewest /\ [Next]_vars =>
        (TypeOK /\ JobShape /\ SeenIsNewest)'
  BY TypeStep, SeenStep
<1>2. Init => TypeOK /\ JobShape /\ SeenIsNewest
  BY TypeInit, SeenInit
<1>3. TypeOK /\ JobShape /\ SeenIsNewest /\ [Next]_vars =>
        [\A f \in Files :
            comm'[f] # comm[f] =>
                comm'[f] = NoGen \/ ~ Older(comm'[f], top[f])]_vars
  BY OrderStep
<1> QED
  BY <1>1, <1>2, <1>3, PTL DEF Spec, AcceptedInOrder

-----------------------------------------------------------------------------
(* What is committed is in the graph: one worker *)

\* Every generation sent so far is up to this one.
SoFar == <<epoch, seq>>
Sent(g) == ~ Older(SoFar, g)

\* w handles a request, or replays one.
Carries(w) == job[w].kind \in {"refresh", "delete", "replay"}

\* Generations come from requests that were sent, and the disk is ahead of all
\* of them.
GensSent(w) ==
    /\ \A m \in msgs : m.gen # NoGen /\ Sent(m.gen) /\ m.edit <= disk[m.file].edit
    /\ \A f \in Files : Sent(seen[f]) /\ Sent(top[f])
    /\ \A x \in retry \cup job[w].todo : Sent(x.gen)
    /\ Carries(w) => Sent(job[w].msg.gen)

\* A generation is sent once, and later ones carry later edits.
MsgsInOrder ==
    \A m, n \in msgs :
        /\ m.gen = n.gen => m = n
        /\ m.file = n.file /\ Older(m.gen, n.gen) => m.edit <= n.edit

\* Edit n of file f is not before any edit that was committed.
Reaches(n, f) == \A m \in msgs : m.file = f /\ ~ Older(top[f], m.gen) => m.edit <= n

\* No deletion has this generation.
OfRefresh(g) == \A n \in msgs : n.gen = g => n.op = "refresh"

\* What is replayed, or to be, failed as a refresh.
ReplaysRefresh(w) ==
    /\ \A x \in retry \cup job[w].todo : OfRefresh(x.gen)
    /\ job[w].kind = "replay" => OfRefresh(job[w].msg.gen)

\* The request in hand: it was sent, unless it is replayed, and its edit is not
\* before those of older requests.
InHand(w) ==
    LET m == job[w].msg IN
    /\ Carries(w) => \A n \in msgs : n.file = m.file /\ ~ Older(m.gen, n.gen) => n.edit <= m.edit
    /\ job[w].kind \in {"refresh", "delete"} => m \in msgs /\ m.op = job[w].kind
    /\ job[w].kind = "replay" => m.op = "refresh"

\* Once it was seen, its edit is not before those that were committed either.
JobReaches(w) ==
    LET m == job[w].msg IN
    /\ job[w].pc \in {"parse", "append", "merge", "commit"} => Reaches(m.edit, m.file)
    /\ job[w].pc \in {"parse", "merge"} => m.op = "refresh"
    /\ job[w].pc = "commit" /\ m.op = "refresh" => graph[Row][m.file].edit = m.edit
    /\ job[w].pc = "commit" /\ m.op = "delete" => StagedAs(m, job[w].lsn) \in log
    /\ Carries(w) /\ job[w].pc \in {"read", "apply", "publish", "swap", "mark"} =>
          top[m.file] = m.gen
    /\ job[w].kind = "delete" /\ job[w].pc = "read" => log # {}

\* What is committed is the newest that ever was, or has been undone.
CommIsTop == \A f \in Files : comm[f] \in {NoGen, top[f]}

\* Nobody writes to the log during a replication.
BatchIsLog(w) ==
    /\ job[w].pc \in {"apply", "publish", "swap", "mark"} => log = job[w].batch
    /\ job[w].pc = "apply" => job[w].tombs \subseteq Tombstones(log)

\* The moments at which a deletion may be pending: its own commit, a
\* replication, and after a crash until the recovery has replicated.
MayPend(w, e) ==
    \/ job[w].pc = "idle" /\ ~ up
    \/ job[w].pc \in {"read", "apply", "publish", "swap", "mark"}
    \/ job[w].pc = "commit" /\ e = StagedAs(job[w].msg, job[w].lsn)

TombsKnown(w) ==
    \A e \in Tombstones(log) :
        /\ [op |-> "delete", file |-> e.file, gen |-> e.gen, edit |-> e.edit] \in msgs
        /\ Reaches(e.edit, e.file)
        /\ MayPend(w, e)

\* The deletions that the replication to come, or under way, still applies.
ToApply(w) ==
    IF job[w].pc \in {"idle", "read"} THEN Tombstones(log)
    ELSE IF job[w].pc = "apply" THEN job[w].tombs ELSE {}

\* The newest commit of a file is in the graph where its handler writes, or is a
\* deletion that is still to be applied.
GraphReaches(w) ==
    \A m \in msgs :
        m.gen = top[m.file] =>
            \/ graph[Under(m)][m.file].edit >= m.edit
            \/ m.op = "delete" /\ \E e \in ToApply(w) : e.file = m.file /\ e.gen = m.gen

\* The inductive invariant behind CommittedInGraph.
GraphInv(w) ==
    /\ TypeOK /\ JobShape /\ SeenIsNewest
    /\ GensSent(w) /\ MsgsInOrder /\ InHand(w) /\ ReplaysRefresh(w) /\ JobReaches(w) /\ CommIsTop
    /\ BatchIsLog(w) /\ TombsKnown(w) /\ GraphReaches(w)

\* What the theorems below assume: one worker, and none of the failures that
\* leave a deletion in the log although its handler was told to undo it.
Alone(w) == Workers = {w} /\ Faults \cap {"sync", "read", "apply", "mark"} = {}

\* The next number is above all that was sent before, and so is the first one
\* of a new session.
LEMMA SoFarGrows ==
  ASSUME epoch \in Nat, seq \in Nat, NEW g \in Gen, Sent(g)
  PROVE  /\ Older(g, <<epoch, seq + 1>>)
         /\ ~ Older(<<epoch, seq + 1>>, g) /\ ~ Older(<<epoch + 1, 0>>, g)
  BY DEF Sent, SoFar, Older, Gen

-----------------------------------------------------------------------------
(* How a handler goes on *)

\* The request in hand is done with.
Over(w) ==
    /\ job'[w].kind \in {"none", "recover"}
    /\ job'[w].pc \in {"idle", "failures", "replay"}
    /\ job'[w].todo \subseteq job[w].todo

\* Nothing but the step changes.
Onto(w, pc) ==
    /\ job'[w] \in Job
    /\ job'[w].kind = job[w].kind /\ job'[w].pc = pc
    /\ job'[w].msg = job[w].msg /\ job'[w].lsn = job[w].lsn
    /\ job'[w].batch = job[w].batch /\ job'[w].tombs = job[w].tombs
    /\ job'[w].built = job[w].built /\ job'[w].todo = job[w].todo

LEMMA GotoIs ==
  ASSUME TypeOK, TypeOK', NEW w \in Workers, NEW pc, Goto(w, pc)
  PROVE  Onto(w, pc)
<1>1. job[w] \in Job /\ job'[w] \in Job
  BY DEF TypeOK
<1>2. job'[w] = [job[w] EXCEPT !.pc = pc]
  BY DEF TypeOK, Goto
<1> QED
  BY <1>1, <1>2 DEF Onto, Job

LEMMA FinishIs ==
  ASSUME TypeOK, NEW w \in Workers, Finish(w)
  PROVE  Over(w)
<1>1. job'[w] = After(w)
  BY DEF TypeOK, Finish
<1> QED
  BY <1>1 DEF Over, After, Idle

LEMMA LeaveIs ==
  ASSUME TypeOK, TypeOK', JobShape, NEW w \in Workers, NEW failed \in BOOLEAN, Leave(w, failed),
         job[w].pc \in {"read", "apply", "publish", "swap", "mark"}
  PROVE  \/ Over(w)
         \/ failed /\ Carries(w) /\ Onto(w, "undo")
<1>1. CASE job[w].kind = "recover"
  <2>1. Onto(w, "failures")
    BY <1>1, GotoIs DEF Leave
  <2> QED
    BY <1>1, <2>1 DEF Over, Onto
<1>2. CASE job[w].kind # "recover" /\ failed
  <2>1. Onto(w, "undo")
    BY <1>2, GotoIs DEF Leave
  <2>2. Carries(w)
    BY <1>2, AtStep DEF JobsOK, TypeOK, Carries
  <2> QED
    BY <1>2, <2>1, <2>2
<1>3. CASE job[w].kind # "recover" /\ ~ failed
  BY <1>3, FinishIs DEF Leave
<1> QED
  BY <1>1, <1>2, <1>3

\* The request in hand stays.
Kept(w) ==
    job'[w].kind = job[w].kind /\ job'[w].msg = job[w].msg /\ job'[w].todo = job[w].todo

\* A staged request goes on to its merge or its commit.
LEMMA AppendIs ==
  ASSUME TypeOK, NEW w \in Workers, Append(w)
  PROVE  \/ /\ Over(w)
            /\ \/ log' = log
               \/ "sync" \in Faults /\ \E lsn \in 1 .. MaxLsn : log' = log \cup {StagedAs(job[w].msg, lsn)}
         \/ /\ Kept(w)
            /\ job'[w].pc = IF job[w].msg.op = "delete" THEN "commit" ELSE "merge"
            /\ log' = log \cup {StagedAs(job[w].msg, job'[w].lsn)}
<1> DEFINE m == job[w].msg
           next == IF m.op = "delete" THEN "commit" ELSE "merge"
<1>1. \/ Finish(w) /\ log' = log
      \/ /\ Finish(w) /\ "sync" \in Faults
         /\ \E lsn \in 1 .. MaxLsn : log' = log \cup {StagedAs(m, lsn)}
      \/ \E lsn \in 1 .. MaxLsn :
            /\ log' = log \cup {StagedAs(m, lsn)}
            /\ job' = [job EXCEPT ![w].pc = next, ![w].lsn = lsn]
  BY DEF Append, Fails
<1>2. ASSUME NEW lsn \in 1 .. MaxLsn, job' = [job EXCEPT ![w].pc = next, ![w].lsn = lsn]
      PROVE  Kept(w) /\ job'[w].pc = next /\ job'[w].lsn = lsn
  <2>1. job[w] \in Job
    BY DEF TypeOK
  <2> HIDE DEF next
  <2>2. job'[w] = [job[w] EXCEPT !.pc = next, !.lsn = lsn]
    BY <1>2 DEF TypeOK
  <2> QED
    BY <2>1, <2>2 DEF Kept, Job
<1>3. ASSUME NEW lsn \in 1 .. MaxLsn, log' = log \cup {StagedAs(m, lsn)},
             job' = [job EXCEPT ![w].pc = next, ![w].lsn = lsn]
      PROVE  Kept(w) /\ job'[w].pc = next /\ log' = log \cup {StagedAs(m, job'[w].lsn)}
  BY <1>2, <1>3
<1> HIDE DEF m, next
<1>4. Finish(w) => Over(w)
  BY FinishIs
<1> QED
  BY <1>1, <1>3, <1>4 DEF m, next

\* The pending lines are read.
LEMMA ReadIs ==
  ASSUME TypeOK, NEW w \in Workers, Read(w)
  PROVE  \/ "read" \in Faults /\ Leave(w, TRUE)
         \/ /\ Kept(w) /\ job'[w].pc = "apply"
            /\ job'[w].batch = log /\ job'[w].tombs = Tombstones(log)
<1>1. job[w] \in Job
  BY DEF TypeOK
<1>2. CASE job' = [job EXCEPT ![w].pc = "apply", ![w].batch = log,
                              ![w].tombs = Tombstones(log)]
  <2>1. job'[w] = [job[w] EXCEPT !.pc = "apply", !.batch = log, !.tombs = Tombstones(log)]
    BY <1>2 DEF TypeOK
  <2> QED
    BY <1>1, <2>1 DEF Job, Kept
<1> QED
  BY <1>2 DEF Read, Fails

\* A tombstone is applied.
LEMMA ApplyIs ==
  ASSUME TypeOK, NEW w \in Workers, Apply(w)
  PROVE  \/ "apply" \in Faults /\ Leave(w, TRUE) /\ graph' = graph
         \/ /\ Kept(w) /\ job'[w].pc = "apply" /\ job'[w].batch = job[w].batch
            /\ \E e \in job[w].tombs :
                  /\ job'[w].tombs = job[w].tombs \ {e}
                  /\ graph' = [graph EXCEPT ![Num][e.file] = [edit |-> e.edit, live |-> FALSE]]
<1>1. job[w] \in Job /\ job[w].pc = "apply"
  BY DEF TypeOK, Apply, At
<1>2. ASSUME NEW e \in job[w].tombs, job' = [job EXCEPT ![w].tombs = @ \ {e}]
      PROVE  /\ Kept(w) /\ job'[w].pc = "apply" /\ job'[w].batch = job[w].batch
             /\ job'[w].tombs = job[w].tombs \ {e}
  <2>1. job'[w] = [job[w] EXCEPT !.tombs = @ \ {e}]
    BY <1>2 DEF TypeOK
  <2> QED
    BY <1>1, <2>1 DEF Job, Kept
<1> QED
  BY <1>2 DEF Apply, Fails

\* The snapshot is built, or the batch is dropped.
LEMMA PublishIs ==
  ASSUME TypeOK, NEW w \in Workers, Publish(w)
  PROVE  \/ Leave(w, TRUE) /\ log' = log \ job[w].batch
         \/ /\ Kept(w) /\ job'[w].pc = "swap" /\ job'[w].batch = job[w].batch
            /\ job'[w].built = graph[Num] /\ log' = log
<1>1. job[w] \in Job
  BY DEF TypeOK
<1>2. ASSUME job' = [job EXCEPT ![w].pc = "swap", ![w].built = graph[Num]]
      PROVE  /\ Kept(w) /\ job'[w].pc = "swap" /\ job'[w].batch = job[w].batch
             /\ job'[w].built = graph[Num]
  <2>1. job'[w] = [job[w] EXCEPT !.pc = "swap", !.built = graph[Num]]
    BY <1>2 DEF TypeOK
  <2> QED
    BY <1>1, <2>1 DEF Job, Kept
<1> QED
  BY <1>2 DEF Publish, AfterPublishFailure

\* The built snapshot is published.
LEMMA SwapIs ==
  ASSUME TypeOK, NEW w \in Workers, Swap(w)
  PROVE  Kept(w) /\ job'[w].pc = "mark" /\ job'[w].batch = job[w].batch
<1>1. job[w] \in Job
  BY DEF TypeOK
<1>2. job'[w] = [job[w] EXCEPT !.pc = "mark", !.built = None]
  BY DEF TypeOK, Swap
<1> QED
  BY <1>1, <1>2 DEF Job, Kept

\* A replay gets the generation that failed and the file as it is now.
Replays(w, x) ==
    /\ job'[w].kind = "replay" /\ job'[w].pc = "append"
    /\ job'[w].todo \subseteq job[w].todo
    /\ job'[w].msg = [op |-> "refresh", file |-> x.file, gen |-> x.gen, edit |-> disk[x.file].edit]

LEMMA ReplayIs ==
  ASSUME TypeOK, NEW w \in Workers, NEW x \in job[w].todo, Replay(w, x)
  PROVE  \/ Replays(w, x)
         \/ /\ job'[w].kind = job[w].kind /\ job'[w].pc = job[w].pc
            /\ job'[w].msg = job[w].msg /\ job'[w].todo \subseteq job[w].todo
<1>1. job[w] \in Job
  BY DEF TypeOK
<1>2. CASE job' = [job EXCEPT ![w].todo = @ \ {x}]
  <2>1. job'[w] = [job[w] EXCEPT !.todo = @ \ {x}]
    BY <1>2 DEF TypeOK
  <2> QED
    BY <1>1, <2>1 DEF Job
<1>3. CASE job' = [job EXCEPT ![w] =
                [job[w] EXCEPT !.kind = "replay", !.pc = "append",
                          !.todo = job[w].todo \ {x}, !.failure = x.lsn,
                          !.msg = [op |-> "refresh", file |-> x.file,
                                   gen |-> x.gen, edit |-> disk[x.file].edit]]]
  <2> DEFINE again == [op |-> "refresh", file |-> x.file, gen |-> x.gen,
                       edit |-> disk[x.file].edit]
  <2>1. job'[w] = [job[w] EXCEPT !.kind = "replay", !.pc = "append",
                          !.todo = job[w].todo \ {x}, !.failure = x.lsn, !.msg = again]
    BY <1>3 DEF TypeOK
  <2> HIDE DEF again
  <2>2. /\ job'[w].kind = "replay" /\ job'[w].pc = "append"
        /\ job'[w].todo \subseteq job[w].todo /\ job'[w].msg = again
    BY <1>1, <2>1 DEF Job
  <2> QED
    BY <2>2 DEF Replays, again
<1> QED
  BY <1>2, <1>3 DEF Replay

\* A recovery lists the failures to replay.
LEMMA FailuresIs ==
  ASSUME TypeOK, JobShape, NEW w \in Workers, Failures(w)
  PROVE  job'[w].kind = "recover" /\ job'[w].pc = "replay" /\ job'[w].todo \subseteq retry
<1>1. job[w].kind = "recover" /\ job[w] \in Job
  BY AtStep DEF Failures, At, TypeOK, JobsOK
<1>2. job'[w] = [job[w] EXCEPT !.pc = "replay", !.todo = {x \in retry : x.tries < MaxRetry}]
  BY DEF Failures, TypeOK
<1> QED
  BY <1>1, <1>2 DEF Job

\* A recovery starts, and a crash leaves everybody idle.
LEMMA RestartIs ==
  ASSUME TypeOK, NEW w \in Workers, Recover(w) \/ Crash
  PROVE  /\ job'[w].kind \in {"none", "recover"} /\ job'[w].todo = {}
         /\ Recover(w) => job[w].pc = "idle" /\ job'[w].pc = "read"
         /\ Crash => job'[w].pc = "idle"
<1>1. CASE Recover(w)
  <2>1. job'[w] = [Idle EXCEPT !.kind = "recover", !.pc = "read"]
    BY <1>1 DEF Recover, TypeOK
  <2>2. job'[w].kind = "recover" /\ job'[w].pc = "read" /\ job'[w].todo = {}
    BY <2>1 DEF Idle
  <2>3. ~ Crash
    BY <2>2 DEF Crash, Idle
  <2> QED
    BY <1>1, <2>2, <2>3 DEF Recover
<1>2. CASE Crash
  <2>1. job'[w].kind = "none" /\ job'[w].pc = "idle" /\ job'[w].todo = {}
    BY <1>2 DEF Crash, Idle
  <2>2. ~ Recover(w)
    BY <2>1 DEF Recover, Idle, TypeOK
  <2> QED
    BY <1>2, <2>1, <2>2
<1> QED
  BY <1>1, <1>2

\* Every step but a new request, the list of failures and a replay keeps the
\* request in hand or ends it.
LEMMA StepKeeps ==
  ASSUME TypeOK, TypeOK', JobShape, NEW w \in Workers, Step(w), ~ Failures(w),
         \A x \in job[w].todo : ~ Replay(w, x)
  PROVE  /\ job'[w].todo \subseteq job[w].todo
         /\ Carries(w)' => /\ Carries(w) /\ job'[w].kind = job[w].kind
                           /\ job'[w].msg = job[w].msg
<1>1. CASE \E pc : Goto(w, pc)
  BY <1>1, GotoIs DEF Onto, Carries
<1>2. CASE Finish(w)
  BY <1>2, FinishIs DEF Over, Carries
<1>3. ASSUME NEW failed \in BOOLEAN, Leave(w, failed),
             job[w].pc \in {"read", "apply", "publish", "swap", "mark"}
      PROVE  /\ job'[w].todo \subseteq job[w].todo
             /\ Carries(w)' => /\ Carries(w) /\ job'[w].kind = job[w].kind
                               /\ job'[w].msg = job[w].msg
  BY <1>3, LeaveIs DEF Over, Onto, Carries
<1>4. CASE Kept(w)
  BY <1>4 DEF Kept, Carries
<1>5. CASE Append(w)
  BY <1>4, <1>5, AppendIs DEF Over, Carries
<1>6. CASE Read(w) \/ Apply(w) \/ Publish(w) \/ Swap(w)
  BY <1>3, <1>4, <1>6, ReadIs, ApplyIs, PublishIs, SwapIs DEF Read, Apply, Publish, At
<1>7. CASE Recovered(w)
  BY <1>7 DEF Recovered, Idle, TypeOK, Carries
<1>8. CASE ReadNone(w) \/ Mark(w)
  BY <1>3, <1>8 DEF ReadNone, Mark, At
<1> QED
  BY <1>1, <1>2, <1>5, <1>6, <1>7, <1>8
     DEF Step, Seen, Parse, Merge, AfterMergeFailure, Commit, Applied, Undo

-----------------------------------------------------------------------------
(* Generations and requests *)

\* A step without new generations keeps those there are sent.
LEMMA SentKept ==
  ASSUME NEW w \in Workers, TypeOK, GensSent(w), UNCHANGED <<msgs, disk, epoch, seq, seen, top>>,
         retry' \subseteq Failure, \A x \in retry' : \E y \in retry \cup job[w].todo : x.gen = y.gen,
         job'[w].todo \subseteq job[w].todo,
         Carries(w)' => Carries(w) /\ job'[w].msg = job[w].msg
  PROVE  GensSent(w)'
<1>1. \A g : Sent(g)' <=> Sent(g)
  BY DEF Sent, SoFar
<1> QED
  BY <1>1 DEF GensSent

\* Every generation in use was sent.
LEMMA SentStep ==
  ASSUME NEW w, Alone(w), TypeOK, TypeOK', JobShape, GensSent(w), [Next]_vars
  PROVE  GensSent(w)'
<1>0. w \in Workers /\ job[w] \in Job /\ job'[w] \in Job
  BY DEF Alone, TypeOK
<1>1. CASE UNCHANGED vars
  BY <1>0, <1>1, SentKept DEF vars, Carries, TypeOK
<1>2. ASSUME NEW f \in Files, NEW live \in BOOLEAN, Edit(f, live) PROVE GensSent(w)'
  <2>1. \A g \in Files : disk'[g].edit >= disk[g].edit
    BY <1>2 DEF Edit, TypeOK, Version
  <2>2. \A m \in msgs : m.edit <= disk'[m.file].edit
    BY <2>1 DEF GensSent, TypeOK, Msg, Version
  <2> QED
    BY <1>2, <2>2 DEF Edit, GensSent, Sent, SoFar, Carries
<1>3. ASSUME NEW f \in Files, Send(f) PROVE GensSent(w)'
  <2>1. \A g \in Gen : Sent(g) => Sent(g)'
    BY <1>3, SoFarGrows DEF Send, Sent, SoFar, TypeOK
  <2>2. \A m \in msgs' \ msgs : m.gen # NoGen /\ Sent(m.gen)' /\ m.edit <= disk'[m.file].edit
    BY <1>3 DEF Send, TypeOK, Version, NoGen, Sent, SoFar, Older
  <2>3. \A m \in msgs : m.gen \in Gen
    BY DEF TypeOK, Msg
  <2>4. \A x \in retry \cup job[w].todo : x.gen \in Gen
    BY <1>0 DEF TypeOK, Failure, Job
  <2>5. Carries(w) => job[w].msg.gen \in Gen
    BY <1>0, AtStep DEF TypeOK, JobsOK, Carries, Msg
  <2>6. UNCHANGED <<disk, seen, top, retry, job>>
    BY <1>3 DEF Send
  <2>7. \A m \in msgs' : m.gen # NoGen /\ Sent(m.gen)' /\ m.edit <= disk'[m.file].edit
    BY <2>1, <2>2, <2>3, <2>6 DEF GensSent
  <2>8. \A f2 \in Files : seen[f2] \in Gen /\ top[f2] \in Gen
    BY DEF TypeOK
  <2>9. \A f2 \in Files : Sent(seen[f2])' /\ Sent(top[f2])'
    BY <2>1, <2>6, <2>8 DEF GensSent
  <2> QED
    BY <2>1, <2>4, <2>5, <2>6, <2>7, <2>9 DEF GensSent, Carries
<1>4. ASSUME NEW v \in Workers, Connect(v) PROVE GensSent(w)'
  <2>1. \A g \in Gen : Sent(g) => Sent(g)'
    BY <1>4, SoFarGrows DEF Connect, Sent, SoFar, TypeOK
  <2>3. \A m \in msgs : m.gen \in Gen
    BY DEF TypeOK, Msg
  <2>4. \A x \in retry \cup job[w].todo : x.gen \in Gen
    BY <1>0 DEF TypeOK, Failure, Job
  <2>5. Carries(w) => job[w].msg.gen \in Gen
    BY <1>0, AtStep DEF TypeOK, JobsOK, Carries, Msg
  <2>6. UNCHANGED <<msgs, disk, seen, top, retry, job>>
    BY <1>4 DEF Connect
  <2>8. \A f2 \in Files : seen[f2] \in Gen /\ top[f2] \in Gen
    BY DEF TypeOK
  <2>9. \A f2 \in Files : Sent(seen[f2])' /\ Sent(top[f2])'
    BY <2>1, <2>6, <2>8 DEF GensSent
  <2> QED
    BY <2>1, <2>3, <2>4, <2>5, <2>6, <2>9 DEF GensSent, Carries
<1>5. ASSUME NEW m \in msgs, Deliver(w, m) PROVE GensSent(w)'
  <2>1. job'[w].msg = m /\ job'[w].todo = {}
    BY <1>0, <1>5 DEF Deliver, Idle, TypeOK
  <2>2. UNCHANGED <<msgs, disk, epoch, seq, seen, top, retry>>
    BY <1>5 DEF Deliver, agentVars, genVars
  <2> QED
    BY <2>1, <2>2 DEF GensSent, Sent, SoFar
<1>6. CASE Recover(w) \/ Crash
  <2>1. job'[w].kind \in {"none", "recover"} /\ job'[w].todo = {}
    BY <1>0, <1>6, RestartIs
  <2>2. UNCHANGED <<msgs, disk, epoch, seq, seen, top, retry>>
    BY <1>6 DEF Recover, Crash, agentVars, genVars
  <2> QED
    BY <1>0, <2>1, <2>2, SentKept DEF Carries, TypeOK
<1>7. CASE Failures(w)
  <2>1. job'[w].kind = "recover" /\ job'[w].todo \subseteq retry
    BY <1>0, <1>7, FailuresIs
  <2>2. UNCHANGED <<msgs, disk, epoch, seq, seen, top, retry>>
    BY <1>7 DEF Failures, agentVars, genVars
  <2> QED
    BY <2>1, <2>2 DEF GensSent, Sent, SoFar, Carries
<1>8. ASSUME NEW x \in job[w].todo, Replay(w, x) PROVE GensSent(w)'
  <2>1. UNCHANGED <<msgs, disk, epoch, seq, seen, top>>
    BY <1>8 DEF Replay, agentVars, genVars
  <2>2. x \in Failure /\ retry \subseteq Failure
    BY <1>0 DEF Job, TypeOK
  <2>3. \A y \in retry' : \E z \in retry \cup job[w].todo : y.gen = z.gen
    <3>1. [x EXCEPT !.tries = @ + 1].gen = x.gen
      BY <2>2 DEF Failure
    <3> QED
      BY <1>8, <3>1 DEF Replay, Exhausted, Retried
  <2>4. /\ job'[w].todo \subseteq job[w].todo
        /\ \/ job'[w].msg = job[w].msg /\ job'[w].kind = job[w].kind
           \/ job'[w].msg.gen = x.gen
    <3>1. CASE Replays(w, x)
      BY <3>1 DEF Replays
    <3> QED
      BY <1>0, <1>8, <3>1, ReplayIs
  <2>5. \A g : Sent(g)' <=> Sent(g)
    BY <2>1 DEF Sent, SoFar
  <2> QED
    BY <2>1, <2>3, <2>4, <2>5 DEF GensSent, Carries
<1>9. ASSUME Step(w), ~ Failures(w), \A x \in job[w].todo : ~ Replay(w, x)
      PROVE  GensSent(w)'
  <2> DEFINE m == job[w].msg
  <2>1. /\ job'[w].todo \subseteq job[w].todo
        /\ Carries(w)' => Carries(w) /\ job'[w].msg = job[w].msg
    BY <1>0, <1>9, StepKeeps
  <2>2. UNCHANGED <<msgs, disk, epoch, seq>>
    BY <1>9 DEF Step, Seen, Parse, Append, Merge, Commit, ReadNone, Read, Apply, Applied,
       Publish, Swap, Mark, Undo, Recovered, agentVars
  <2>3. \A g : Sent(g)' <=> Sent(g)
    BY <2>2 DEF Sent, SoFar
  <2>4. CASE Seen(w) \/ Commit(w)
    <3>1. Sent(m.gen)
      BY <1>0, <2>4, AtStep DEF Seen, Commit, At, JobsOK, TypeOK, GensSent, Carries
    <3>2. \A f \in Files : /\ seen'[f] \in {seen[f], m.gen} /\ top'[f] \in {top[f], m.gen}
      BY <2>4 DEF Seen, Commit, TypeOK
    <3>3. retry' = retry
      BY <2>4 DEF Seen, Commit
    <3> QED
      BY <2>1, <2>2, <2>3, <3>1, <3>2, <3>3 DEF GensSent
  <2>5. CASE Parse(w)
    <3>1. Sent(m.gen)
      BY <1>0, <2>5, AtStep DEF Parse, At, JobsOK, TypeOK, GensSent, Carries
    <3>2. \A x \in retry' : x \in retry \/ x.gen = m.gen
      BY <2>5 DEF Parse, Failed
    <3>3. UNCHANGED <<seen, top>>
      BY <2>5 DEF Parse, genVars
    <3> QED
      BY <2>1, <2>2, <2>3, <3>1, <3>2, <3>3 DEF GensSent
  <2>6. CASE ~ (Seen(w) \/ Commit(w) \/ Parse(w))
    <3>1. UNCHANGED <<seen, top>> /\ retry' \subseteq retry
      BY <1>9, <2>6 DEF Step, Append, Merge, ReadNone, Read, Apply, Applied,
         Publish, Swap, Mark, Undo, Recovered, genVars, Cleared
    <3> QED
      BY <2>1, <2>2, <2>3, <3>1 DEF GensSent
  <2> QED
    BY <2>4, <2>5, <2>6
<1> QED
  BY <1>1, <1>2, <1>3, <1>4, <1>5, <1>6, <1>7, <1>8, <1>9 DEF Next, Alone

\* Requests are numbered in the order of the edits they tell of.
LEMMA MsgsStep ==
  ASSUME NEW w, Alone(w), TypeOK, GensSent(w), MsgsInOrder, [Next]_vars
  PROVE  MsgsInOrder'
<1>1. CASE msgs' = msgs
  BY <1>1 DEF MsgsInOrder
<1>2. ASSUME NEW f \in Files, Send(f) PROVE MsgsInOrder'
  <2> DEFINE g == <<epoch, seq + 1>>
             new == [op |-> IF disk[f].live THEN "refresh" ELSE "delete", file |-> f,
                     gen |-> g, edit |-> disk[f].edit]
  <2>1. msgs' = msgs \cup {new} /\ new.gen = g /\ new.file = f /\ new.edit = disk[f].edit
    BY <1>2 DEF Send
  <2>2. g \in Gen
    BY DEF TypeOK, Gen
  <2>3. \A m \in msgs : /\ m.gen \in Gen /\ Older(m.gen, g) /\ m.gen # g /\ ~ Older(g, m.gen)
                        /\ m.file = f => m.edit <= disk[f].edit
    BY <2>2, SoFarGrows, GenOrder DEF GensSent, TypeOK, Msg
  <2>4. ~ Older(g, g)
    BY <2>2, GenOrder
  <2> HIDE DEF g, new
  <2> QED
    BY <2>1, <2>3, <2>4 DEF MsgsInOrder
<1> QED
  BY <1>1, <1>2 DEF Next, vars, Edit, Connect, Deliver, Recover, Step, Crash, Seen, Parse, Append,
     Merge, Commit, ReadNone, Read, Apply, Applied, Publish, Swap, Mark, Undo, Failures, Replay,
     Recovered, agentVars

-----------------------------------------------------------------------------
(* The request in hand *)

\* What is not older than the committed edits stays so until the next commit: a
\* new request has a newer generation.
LEMMA ReachesKept ==
  ASSUME NEW w, TypeOK, GensSent(w), top' = top,
         msgs' = msgs \/ \E f \in Files : Send(f)
  PROVE  \A n, f : f \in Files => (Reaches(n, f) => Reaches(n, f)')
<1>1. CASE msgs' = msgs
  BY <1>1 DEF Reaches
<1>2. ASSUME NEW f \in Files, Send(f)
      PROVE  \A n, h : h \in Files => (Reaches(n, h) => Reaches(n, h)')
  <2>1. \A m \in msgs' \ msgs : m.gen = <<epoch, seq + 1>>
    BY <1>2 DEF Send
  <2>2. \A h \in Files : Older(top[h], <<epoch, seq + 1>>)
    BY SoFarGrows DEF GensSent, TypeOK
  <2> QED
    BY <2>1, <2>2 DEF Reaches
<1> QED
  BY <1>1, <1>2

\* A commit makes the request's generation the newest, or ends the handler.
LEMMA CommitIs ==
  ASSUME TypeOK, TypeOK', JobShape, SeenIsNewest, NEW w \in Workers, Commit(w)
  PROVE  LET m == job[w].msg IN
         /\ m \in Msg /\ Carries(w) /\ job[w].pc = "commit"
         /\ \/ /\ Onto(w, "read") /\ log' = log
               /\ ~ Older(m.gen, top[m.file])
               /\ comm' = [comm EXCEPT ![m.file] = m.gen]
               /\ top' = [top EXCEPT ![m.file] = m.gen]
            \/ /\ Over(w) /\ UNCHANGED <<comm, top>>
               /\ log' = IF m.op = "delete" THEN log \ Own(w) ELSE log
<1> DEFINE m == job[w].msg
<1>1. m \in Msg /\ Carries(w) /\ job[w].pc = "commit"
  BY AtStep DEF Commit, At, JobsOK, TypeOK, Carries
<1>2. CASE Finish(w) /\ UNCHANGED <<comm, top>> /\ log' = IF m.op = "delete" THEN log \ Own(w) ELSE log
  BY <1>1, <1>2, FinishIs
<1>3. ASSUME StillSeen(m), Goto(w, "read"), log' = log, comm' = [comm EXCEPT ![m.file] = m.gen],
             top' = [top EXCEPT ![m.file] = IF Older(top[m.file], m.gen) THEN m.gen ELSE top[m.file]]
      PROVE  /\ Onto(w, "read") /\ ~ Older(m.gen, top[m.file])
             /\ top' = [top EXCEPT ![m.file] = m.gen]
  <2>1. m.file \in Files /\ m.gen \in Gen /\ top[m.file] \in Gen
    BY <1>1 DEF Msg, TypeOK
  <2>2. ~ Older(m.gen, top[m.file])
    BY <1>3, <2>1 DEF StillSeen, SeenIsNewest
  <2>3. Older(top[m.file], m.gen) \/ top[m.file] = m.gen
    BY <2>1, <2>2, GenOrder
  <2>4. Onto(w, "read")
    BY <1>3, GotoIs
  <2> QED
    BY <1>3, <2>2, <2>3, <2>4
<1> QED
  BY <1>1, <1>2, <1>3 DEF Commit

\* The steps that leave the requests as they are.
LEMMA MsgsSame ==
  ASSUME [Next]_vars
  PROVE  msgs' = msgs \/ \E f \in Files : Send(f)
  BY DEF Next, vars, Edit, Connect, Deliver, Recover, Step, Crash, Seen, Parse, Append,
     Merge, Commit, ReadNone, Read, Apply, Applied, Publish, Swap, Mark, Undo, Failures, Replay,
     Recovered, agentVars

\* The request in hand is one that was sent, or a replay of what is on disk.
LEMMA HandStep ==
  ASSUME NEW w, Alone(w), TypeOK, TypeOK', JobShape, GensSent(w), MsgsInOrder, InHand(w), [Next]_vars
  PROVE  InHand(w)'
<1>0. w \in Workers /\ job[w] \in Job
  BY DEF Alone, TypeOK
<1>1. ASSUME msgs' = msgs,
             Carries(w)' => /\ Carries(w) /\ job'[w].kind = job[w].kind
                            /\ job'[w].msg = job[w].msg
      PROVE  InHand(w)'
  BY <1>1 DEF InHand, Carries
<1>2. CASE UNCHANGED vars \/ (\E f \in Files, live \in BOOLEAN : Edit(f, live))
           \/ (\E v \in Workers : Connect(v))
  <2>1. UNCHANGED <<msgs, job>>
    BY <1>2 DEF vars, Edit, Connect
  <2> QED
    BY <1>1, <2>1 DEF Carries
<1>3. ASSUME NEW f \in Files, Send(f) PROVE InHand(w)'
  <2>1. \A m \in msgs' \ msgs : m.gen = <<epoch, seq + 1>>
    BY <1>3 DEF Send
  <2>2. Carries(w) => Older(job[w].msg.gen, <<epoch, seq + 1>>)
    <3>1. Carries(w) => job[w].msg.gen \in Gen
      BY <1>0, AtStep DEF TypeOK, JobsOK, Carries, Msg
    <3> QED
      BY <3>1, SoFarGrows DEF GensSent, TypeOK
  <2>3. job' = job /\ msgs \subseteq msgs'
    BY <1>3 DEF Send
  <2> QED
    BY <2>1, <2>2, <2>3 DEF InHand, Carries
<1>4. ASSUME NEW m \in msgs, Deliver(w, m) PROVE InHand(w)'
  <2>1. job'[w].msg = m /\ job'[w].kind = m.op
    BY <1>0, <1>4 DEF Deliver, Idle, TypeOK
  <2>2. \A n \in msgs : n.file = m.file /\ ~ Older(m.gen, n.gen) => n.edit <= m.edit
    <3>1. \A n \in msgs : n \in Msg /\ n.gen \in Gen /\ n.edit \in Nat
      BY DEF TypeOK, Msg
    <3>2. \A n \in msgs : ~ Older(m.gen, n.gen) => m.gen = n.gen \/ Older(n.gen, m.gen)
      BY <3>1, GenOrder
    <3> QED
      BY <3>1, <3>2 DEF MsgsInOrder
  <2>3. msgs' = msgs /\ m.op # "replay"
    BY <1>4 DEF Deliver, agentVars, TypeOK, Msg
  <2> QED
    BY <2>1, <2>2, <2>3 DEF InHand
<1>5. CASE Recover(w) \/ Crash \/ Failures(w)
  <2>1. ~ Carries(w)'
    BY <1>0, <1>5, RestartIs, FailuresIs DEF Carries
  <2> QED
    BY <2>1 DEF InHand, Carries
<1>6. ASSUME NEW x \in job[w].todo, Replay(w, x) PROVE InHand(w)'
  <2>1. msgs' = msgs
    BY <1>6 DEF Replay, agentVars
  <2>2. CASE Replays(w, x)
    BY <2>1, <2>2 DEF Replays, InHand, GensSent
  <2>3. CASE job'[w].kind = job[w].kind /\ job'[w].msg = job[w].msg
    BY <1>1, <2>1, <2>3 DEF Carries
  <2> QED
    BY <1>0, <1>6, <2>2, <2>3, ReplayIs
<1>7. ASSUME Step(w), ~ Failures(w), \A x \in job[w].todo : ~ Replay(w, x)
      PROVE  InHand(w)'
  <2>1. msgs' = msgs
    BY <1>7 DEF Step, Seen, Parse, Append, Merge, Commit, ReadNone, Read, Apply, Applied,
       Publish, Swap, Mark, Undo, Recovered, agentVars
  <2> QED
    BY <1>0, <1>1, <1>7, <2>1, StepKeeps
<1> QED
  BY <1>2, <1>3, <1>4, <1>5, <1>6, <1>7 DEF Next, Alone

\* Only refreshes are logged as failed.
LEMMA ReplayStep ==
  ASSUME NEW w, Alone(w), TypeOK, TypeOK', JobShape, GensSent(w), MsgsInOrder, InHand(w),
         JobReaches(w), ReplaysRefresh(w), [Next]_vars
  PROVE  ReplaysRefresh(w)'
<1>0. w \in Workers /\ job[w] \in Job
  BY DEF Alone, TypeOK
<1>1. ASSUME msgs' = msgs,
             \A x \in retry' \cup job'[w].todo : \E y \in retry \cup job[w].todo : x.gen = y.gen,
             job'[w].kind = "replay" =>
                 \/ job[w].kind = "replay" /\ job'[w].msg = job[w].msg
                 \/ \E y \in job[w].todo : job'[w].msg.gen = y.gen
      PROVE  ReplaysRefresh(w)'
  BY <1>1 DEF ReplaysRefresh, OfRefresh
<1>2. CASE UNCHANGED vars \/ (\E f \in Files, live \in BOOLEAN : Edit(f, live))
           \/ (\E v \in Workers : Connect(v))
  <2>1. UNCHANGED <<msgs, job, retry>>
    BY <1>2 DEF vars, Edit, Connect
  <2> QED
    BY <1>1, <2>1
<1>3. ASSUME NEW f \in Files, Send(f) PROVE ReplaysRefresh(w)'
  <2>1. \A m \in msgs' \ msgs : m.gen = <<epoch, seq + 1>>
    BY <1>3 DEF Send
  <2>2. \A g \in Gen : Sent(g) => g # <<epoch, seq + 1>>
    BY SoFarGrows, GenOrder DEF TypeOK
  <2>3. \A x \in retry \cup job[w].todo : x.gen \in Gen
    BY <1>0 DEF TypeOK, Failure, Job
  <2>4. Carries(w) => job[w].msg.gen \in Gen
    BY <1>0, AtStep DEF TypeOK, JobsOK, Carries, Msg
  <2>5. UNCHANGED <<retry, job>>
    BY <1>3 DEF Send
  <2> QED
    BY <2>1, <2>2, <2>3, <2>4, <2>5 DEF ReplaysRefresh, OfRefresh, GensSent, Carries
<1>4. ASSUME NEW m \in msgs, Deliver(w, m) PROVE ReplaysRefresh(w)'
  <2>1. job'[w].kind # "replay" /\ job'[w].todo = {}
    BY <1>0, <1>4 DEF Deliver, Idle, TypeOK, Msg
  <2>2. UNCHANGED <<msgs, retry>>
    BY <1>4 DEF Deliver, agentVars
  <2> QED
    BY <1>1, <2>1, <2>2
<1>5. CASE Recover(w) \/ Crash \/ Failures(w)
  <2>1. job'[w].kind # "replay" /\ job'[w].todo \subseteq retry
    BY <1>0, <1>5, RestartIs, FailuresIs
  <2>2. UNCHANGED <<msgs, retry>>
    BY <1>5 DEF Recover, Crash, Failures, agentVars
  <2> QED
    BY <1>1, <2>1, <2>2
<1>6. ASSUME NEW x \in job[w].todo, Replay(w, x) PROVE ReplaysRefresh(w)'
  <2>1. msgs' = msgs /\ job[w].kind = "recover"
    BY <1>0, <1>6, AtStep DEF Replay, At, agentVars, TypeOK, JobsOK
  <2>2. x \in Failure /\ retry \subseteq Failure
    BY <1>0 DEF Job, TypeOK
  <2>3. \A y \in retry' : \E z \in retry \cup job[w].todo : y.gen = z.gen
    <3>1. [x EXCEPT !.tries = @ + 1].gen = x.gen
      BY <2>2 DEF Failure
    <3> QED
      BY <1>6, <3>1 DEF Replay, Exhausted, Retried
  <2>4. /\ job'[w].todo \subseteq job[w].todo
        /\ job'[w].kind = "replay" => job'[w].msg.gen = x.gen
    <3>1. CASE Replays(w, x)
      BY <3>1 DEF Replays
    <3> QED
      BY <1>0, <1>6, <2>1, <3>1, ReplayIs
  <2> QED
    BY <1>1, <2>1, <2>3, <2>4
<1>7. ASSUME Step(w), ~ Failures(w), \A x \in job[w].todo : ~ Replay(w, x)
      PROVE  ReplaysRefresh(w)'
  <2> DEFINE m == job[w].msg
  <2>1. msgs' = msgs
    BY <1>7 DEF Step, Seen, Parse, Append, Merge, Commit, ReadNone, Read, Apply, Applied,
       Publish, Swap, Mark, Undo, Recovered, agentVars
  <2>2. /\ job'[w].todo \subseteq job[w].todo
        /\ job'[w].kind = "replay" => job[w].kind = "replay" /\ job'[w].msg = m
    BY <1>0, <1>7, StepKeeps DEF Carries
  <2>3. CASE Parse(w)
    <3>1. OfRefresh(m.gen)
      <4>1. Carries(w) /\ m.op = "refresh"
        BY <1>0, <2>3, AtStep DEF Parse, At, JobsOK, TypeOK, Carries, JobReaches
      <4> QED
        BY <4>1 DEF Carries, InHand, MsgsInOrder, OfRefresh, ReplaysRefresh
    <3>2. \A x \in retry' : x \in retry \/ x.gen = m.gen
      BY <2>3 DEF Parse, Failed
    <3> QED
      BY <2>1, <2>2, <3>1, <3>2 DEF ReplaysRefresh, OfRefresh
  <2>4. CASE ~ Parse(w)
    <3>1. retry' \subseteq retry
      BY <1>7, <2>4 DEF Step, Seen, Append, Merge, Commit, ReadNone, Read, Apply, Applied,
         Publish, Swap, Mark, Undo, Recovered, Cleared
    <3> QED
      BY <1>1, <2>1, <2>2, <3>1
  <2> QED
    BY <2>3, <2>4
<1> QED
  BY <1>2, <1>3, <1>4, <1>5, <1>6, <1>7 DEF Next, Alone

\* Nothing that a step of its request counts on is disturbed by others, and
\* every step prepares the next.
LEMMA JobStep ==
  ASSUME NEW w, Alone(w), TypeOK, TypeOK', JobShape, SeenIsNewest, GensSent(w), InHand(w),
         JobReaches(w), BatchIsLog(w), [Next]_vars
  PROVE  JobReaches(w)'
<1> DEFINE m == job[w].msg
<1>0. w \in Workers /\ job[w] \in Job
  BY DEF Alone, TypeOK
<1>1. Carries(w) => m \in Msg /\ m.file \in Files
  BY <1>0, AtStep DEF TypeOK, JobsOK, Carries, Msg
<1>2. job[w].pc \in {"seen", "parse", "append", "merge", "commit", "undo"} => Carries(w)
  BY <1>0, AtStep DEF TypeOK, JobsOK, Carries
<1>3. top' = top => \A n, f : f \in Files => (Reaches(n, f) => Reaches(n, f)')
  BY ReachesKept, MsgsSame
<1>4. ASSUME job'[w].kind \in {"none", "recover"},
             job'[w].pc \in {"idle", "read", "failures", "replay"}
      PROVE  JobReaches(w)'
  BY <1>4 DEF JobReaches, Carries
<1>16. Over(w) => JobReaches(w)'
  BY <1>4 DEF Over
<1>5. ASSUME UNCHANGED <<job, graph, log, top>> PROVE JobReaches(w)'
  BY <1>1, <1>2, <1>3, <1>5 DEF JobReaches, Carries
<1>6. ASSUME NEW msg \in msgs, Deliver(w, msg) PROVE JobReaches(w)'
  <2>1. job'[w].pc = "seen"
    BY <1>0, <1>6 DEF Deliver, Idle, TypeOK
  <2> QED
    BY <2>1 DEF JobReaches
<1>7. CASE Recover(w) \/ Crash \/ Failures(w)
  <2>1. /\ job'[w].kind \in {"none", "recover"}
        /\ job'[w].pc \in {"idle", "read", "replay"}
    BY <1>0, <1>7, RestartIs, FailuresIs
  <2> QED
    BY <1>4, <2>1
<1>8. ASSUME NEW x \in job[w].todo, Replay(w, x) PROVE JobReaches(w)'
  <2>1. UNCHANGED <<msgs, top, disk>> /\ job[w].pc = "replay" /\ job[w].kind = "recover"
    BY <1>0, <1>8, AtStep DEF Replay, At, agentVars, genVars, TypeOK, JobsOK
  <2>2. CASE Replays(w, x)
    <3>1. \A f \in Files : Reaches(disk[f].edit, f)'
      BY <2>1 DEF Reaches, GensSent
    <3>2. x.file \in Files
      BY <1>0 DEF Job, Failure
    <3>3. Reaches(job[w].msg.edit, job[w].msg.file)'
      BY <2>1, <2>2, <3>1, <3>2 DEF Replays
    <3> QED
      BY <2>2, <3>3 DEF Replays, JobReaches
  <2>3. CASE job'[w].kind = job[w].kind /\ job'[w].pc = job[w].pc
    BY <1>4, <2>1, <2>3
  <2> QED
    BY <1>0, <1>8, <2>2, <2>3, ReplayIs
<1>9. CASE Seen(w)
  <2>1. CASE Finish(w)
    BY <1>0, <1>16, <2>1, FinishIs
  <2>2. CASE Fresh(m.file, m.gen) /\ Goto(w, IF m.op = "refresh" THEN "parse" ELSE "append")
    <3>1. Onto(w, IF m.op = "refresh" THEN "parse" ELSE "append")
      BY <1>0, <2>2, GotoIs
    <3>2. Reaches(m.edit, m.file)
      <4>1. m.gen \in Gen /\ m.file \in Files /\ seen[m.file] \in Gen /\ top[m.file] \in Gen
        BY <1>1, <1>2, <1>9 DEF Seen, At, Msg, TypeOK
      <4>2. ~ Older(m.gen, top[m.file])
        BY <2>2, <4>1, GenOrder DEF Fresh, SeenIsNewest
      <4>3. \A n \in msgs : n.gen \in Gen
        BY DEF TypeOK, Msg
      <4>4. \A n \in msgs : n.file = m.file /\ ~ Older(top[m.file], n.gen) => ~ Older(m.gen, n.gen)
        BY <4>1, <4>2, <4>3, GenOrder
      <4> QED
        BY <1>2, <1>9, <4>4 DEF InHand, Reaches, Seen, At
    <3>3. m.file \in Files /\ top' = top
      BY <1>1, <1>2, <1>9 DEF Seen, At
    <3>4. Reaches(m.edit, m.file)'
      BY <1>3, <3>1, <3>2, <3>3 DEF Onto
    <3> QED
      BY <3>1, <3>4 DEF JobReaches, Onto
  <2> QED
    BY <1>9, <2>1, <2>2 DEF Seen
<1>10. CASE Parse(w)
  <2>1. CASE Finish(w)
    BY <1>0, <1>16, <2>1, FinishIs
  <2>2. CASE Goto(w, "append")
    <3>1. Onto(w, "append")
      BY <1>0, <2>2, GotoIs
    <3>2. Reaches(m.edit, m.file) /\ m.file \in Files /\ top' = top
      BY <1>1, <1>2, <1>10 DEF Parse, At, JobReaches, genVars
    <3>3. Reaches(m.edit, m.file)'
      BY <1>3, <3>1, <3>2 DEF Onto
    <3> QED
      BY <3>1, <3>3 DEF JobReaches, Onto
  <2> QED
    BY <1>10, <2>1, <2>2 DEF Parse
<1>11. CASE Append(w)
  <2>1. CASE Kept(w) /\ job'[w].pc = (IF m.op = "delete" THEN "commit" ELSE "merge")
             /\ log' = log \cup {StagedAs(m, job'[w].lsn)}
    <3>1. Reaches(m.edit, m.file) /\ m.file \in Files /\ top' = top /\ m.op \in {"refresh", "delete"}
      BY <1>1, <1>2, <1>11 DEF Append, At, JobReaches, genVars, Msg
    <3>2. Reaches(m.edit, m.file)' /\ job'[w].msg = m
      BY <1>3, <2>1, <3>1 DEF Kept
    <3> QED
      BY <2>1, <3>1, <3>2 DEF JobReaches, Kept
  <2> QED
    BY <1>0, <1>16, <1>11, <2>1, AppendIs
<1>12. CASE Merge(w)
  <2>1. CASE Finish(w)
    BY <1>0, <1>16, <2>1, FinishIs
  <2>2. CASE Goto(w, "commit") /\ graph' = [graph EXCEPT ![Row][m.file] = [edit |-> m.edit, live |-> TRUE]]
    <3>1. Onto(w, "commit")
      BY <1>0, <2>2, GotoIs
    <3>2. Reaches(m.edit, m.file) /\ m.file \in Files /\ top' = top /\ m.op = "refresh"
      BY <1>1, <1>2, <1>12 DEF Merge, At, JobReaches, genVars
    <3>3. Reaches(m.edit, m.file)'
      BY <1>3, <3>1, <3>2 DEF Onto
    <3>4. graph'[Row][m.file].edit = m.edit
      <4> DEFINE v == [edit |-> m.edit, live |-> TRUE]
      <4>1. v \in Version /\ v.edit = m.edit
        BY <1>1, <1>2, <1>12 DEF Merge, At, Msg, Version
      <4>2. graph' = [graph EXCEPT ![Row][m.file] = v]
        BY <2>2
      <4> HIDE DEF v
      <4> QED
        BY <3>2, <4>1, <4>2, GraphAt
    <3> QED
      BY <3>1, <3>2, <3>3, <3>4 DEF JobReaches, Onto
  <2> QED
    BY <1>12, <2>1, <2>2 DEF Merge, AfterMergeFailure
<1>13. CASE Commit(w)
  <2>1. CASE Onto(w, "read") /\ log' = log /\ top' = [top EXCEPT ![m.file] = m.gen]
    <3>1. m.file \in Files /\ m.gen \in Gen /\ job[w].pc = "commit"
      BY <1>0, <1>13, CommitIs DEF Msg
    <3>2. top'[m.file] = m.gen
      BY <2>1, <3>1 DEF TypeOK
    <3>3. job[w].kind = "delete" => log # {}
      BY <3>1 DEF InHand, JobReaches
    <3> QED
      BY <2>1, <3>2, <3>3 DEF JobReaches, Onto
  <2> QED
    BY <1>0, <1>16, <1>13, <2>1, CommitIs
<1>14. CASE ReadNone(w) \/ Read(w) \/ Apply(w) \/ Applied(w) \/ Publish(w) \/ Swap(w) \/ Mark(w)
  <2>1. top' = top /\ job[w].pc \in {"read", "apply", "publish", "swap", "mark"}
    BY <1>14 DEF ReadNone, Read, Apply, Applied, Publish, Swap, Mark, At, genVars
  <2>2. CASE (Kept(w) \/ Onto(w, job'[w].pc)) /\ job'[w].pc \in {"apply", "publish", "swap", "mark"}
    BY <2>1, <2>2 DEF JobReaches, Kept, Onto, Carries
  <2>3. CASE Leave(w, FALSE) \/ Leave(w, TRUE)
    <3>1. Over(w) \/ Onto(w, "undo")
      BY <1>0, <2>1, <2>3, LeaveIs
    <3> QED
      BY <1>16, <3>1 DEF Onto, JobReaches
  <2>4. CASE Applied(w)
    <3>1. Onto(w, "publish")
      BY <1>0, <2>4, GotoIs DEF Applied
    <3> QED
      BY <2>2, <3>1 DEF Onto
  <2>5. CASE Read(w) \/ Apply(w) \/ Publish(w) \/ Swap(w)
    BY <1>0, <2>2, <2>3, <2>5, ReadIs, ApplyIs, PublishIs, SwapIs
  <2> QED
    BY <1>14, <2>3, <2>4, <2>5 DEF ReadNone, Mark
<1>15. CASE Undo(w) \/ Recovered(w)
  <2>1. CASE Recovered(w)
    BY <1>0, <1>4, <2>1 DEF Recovered, Idle, TypeOK
  <2> QED
    BY <1>0, <1>16, <1>15, <2>1, FinishIs DEF Undo
<1> QED
  BY <1>5, <1>6, <1>7, <1>8, <1>9, <1>10, <1>11, <1>12, <1>13, <1>14, <1>15
     DEF Next, Alone, Step, vars, Edit, Send, Connect

-----------------------------------------------------------------------------
(* Commits, pending deletions and the graph *)

\* A commit is the newest, and an undone one is empty.
LEMMA CommStep ==
  ASSUME TypeOK, TypeOK', JobShape, SeenIsNewest, CommIsTop, [Next]_vars
  PROVE  CommIsTop'
<1>1. CASE UNCHANGED <<comm, top>>
  BY <1>1 DEF CommIsTop
<1>2. ASSUME NEW w \in Workers, Commit(w) PROVE CommIsTop'
  BY <1>2, CommitIs DEF CommIsTop, TypeOK
<1>3. ASSUME NEW w \in Workers, Undo(w) PROVE CommIsTop'
  BY <1>3 DEF Undo, Uncommitted, CommIsTop, TypeOK
<1> QED
  BY <1>1, <1>2, <1>3
     DEF Next, Step, vars, Edit, Send, Connect, Deliver, Recover, Crash, Seen, Parse,
         Append, Merge, ReadNone, Read, Apply, Applied, Publish, Swap, Mark,
         Failures, Replay, Recovered, agentVars, genVars

\* A batch that is being replicated is the whole log.
LEMMA BatchStep ==
  ASSUME NEW w, Alone(w), TypeOK, TypeOK', JobShape, SeenIsNewest, BatchIsLog(w), [Next]_vars
  PROVE  BatchIsLog(w)'
<1>0. w \in Workers
  BY DEF Alone
<1>1. ASSUME job'[w].pc \notin {"apply", "publish", "swap", "mark"} PROVE BatchIsLog(w)'
  BY <1>1 DEF BatchIsLog
<1>2. Over(w) => BatchIsLog(w)'
  BY <1>1 DEF Over
<1>3. ASSUME UNCHANGED <<job, log>> PROVE BatchIsLog(w)'
  BY <1>3 DEF BatchIsLog, Tombstones
<1>4. ASSUME NEW m \in msgs, Deliver(w, m) PROVE BatchIsLog(w)'
  <2>1. job'[w].pc = "seen"
    BY <1>0, <1>4 DEF Deliver, Idle, TypeOK
  <2> QED
    BY <1>1, <2>1
<1>5. CASE Recover(w) \/ Crash \/ Failures(w)
  BY <1>0, <1>1, <1>5, RestartIs, FailuresIs
<1>6. ASSUME NEW x \in job[w].todo, Replay(w, x) PROVE BatchIsLog(w)'
  <2>1. job[w].pc = "replay"
    BY <1>6 DEF Replay, At
  <2>2. job'[w].pc \in {"append", "replay"}
    BY <1>0, <1>6, <2>1, ReplayIs DEF Replays
  <2> QED
    BY <1>1, <2>2
<1>7. CASE Finish(w)
  BY <1>0, <1>2, <1>7, FinishIs
<1>8. ASSUME NEW pc \in {"parse", "append", "commit"}, Goto(w, pc) PROVE BatchIsLog(w)'
  BY <1>0, <1>1, <1>8, GotoIs DEF Onto
<1>9. CASE Append(w) \/ Commit(w)
  BY <1>0, <1>1, <1>2, <1>9, AppendIs, CommitIs DEF Onto
<1>10. ASSUME NEW failed \in BOOLEAN, Leave(w, failed),
              job[w].pc \in {"read", "apply", "publish", "swap", "mark"}
       PROVE  BatchIsLog(w)'
  <2>1. Over(w) \/ Onto(w, "undo")
    BY <1>0, <1>10, LeaveIs
  <2> QED
    BY <1>1, <1>2, <2>1 DEF Onto
<1>11. CASE ReadNone(w) \/ Mark(w)
  BY <1>10, <1>11 DEF ReadNone, Mark, At
<1>12. CASE Read(w)
  <2>1. log' = log
    BY <1>12 DEF Read
  <2>2. CASE job'[w].batch = log /\ job'[w].tombs = Tombstones(log)
    BY <2>1, <2>2 DEF BatchIsLog, Tombstones
  <2> QED
    BY <1>0, <1>10, <1>12, <2>2, ReadIs DEF Read, At
<1>13. CASE Apply(w)
  <2>1. log' = log /\ job[w].pc = "apply"
    BY <1>13 DEF Apply, At
  <2>2. CASE job'[w].batch = job[w].batch /\ job'[w].tombs \subseteq job[w].tombs
    BY <2>1, <2>2 DEF BatchIsLog, Tombstones
  <2> QED
    BY <1>0, <1>10, <1>13, <2>1, <2>2, ApplyIs
<1>14. CASE Applied(w) \/ Publish(w) \/ Swap(w)
  <2>1. job[w].pc \in {"apply", "publish", "swap"}
    BY <1>14 DEF Applied, Publish, Swap, At
  <2>2. CASE job'[w].batch = job[w].batch /\ log' = log /\ job'[w].pc \in {"publish", "swap", "mark"}
    BY <2>1, <2>2 DEF BatchIsLog
  <2>3. CASE Applied(w)
    BY <1>0, <2>2, <2>3, GotoIs DEF Applied, Onto
  <2>4. CASE Publish(w)
    BY <1>0, <1>10, <2>1, <2>2, <2>4, PublishIs
  <2>5. CASE Swap(w)
    BY <1>0, <2>2, <2>5, SwapIs DEF Swap
  <2> QED
    BY <1>14, <2>3, <2>4, <2>5
<1>15. CASE Recovered(w)
  <2>1. job'[w].pc = "idle"
    BY <1>0, <1>15 DEF Recovered, Idle, TypeOK
  <2> QED
    BY <1>1, <2>1
<1> QED
  BY <1>3, <1>4, <1>5, <1>6, <1>7, <1>8, <1>9, <1>11, <1>12, <1>13, <1>14, <1>15
     DEF Next, Alone, Step, vars, Edit, Send, Connect, Seen, Parse, Merge, AfterMergeFailure, Undo

\* Elsewhere no deletion is pending.
LEMMA NoTombs ==
  ASSUME NEW w, TombsKnown(w), job[w].pc = "idle" => up,
         job[w].pc \notin {"commit", "read", "apply", "publish", "swap", "mark"}
  PROVE  Tombstones(log) = {}
  BY DEF TombsKnown, MayPend

\* A pending deletion stays known while the log and the commits stay.
LEMMA TombsKept ==
  ASSUME NEW w, TypeOK, GensSent(w), TombsKnown(w), top' = top, [Next]_vars, log' = log,
         \A e \in Tombstones(log) : MayPend(w, e)'
  PROVE  TombsKnown(w)'
<1>1. \A n, f : f \in Files => (Reaches(n, f) => Reaches(n, f)')
  BY ReachesKept, MsgsSame
<1>2. \A e \in Tombstones(log) : e.file \in Files
  BY DEF TypeOK, Entry, Tombstones
<1>3. msgs \subseteq msgs'
  BY MsgsSame DEF Send
<1>4. Tombstones(log)' = Tombstones(log)
  BY DEF Tombstones
<1>5. \A e \in Tombstones(log) : Reaches(e.edit, e.file)'
  BY <1>1, <1>2 DEF TombsKnown
<1> QED
  BY <1>3, <1>4, <1>5 DEF TombsKnown

\* The deletions pending are requests that were sent, with nothing newer
\* committed.
LEMMA TombStep ==
  ASSUME NEW w, Alone(w), TypeOK, TypeOK', JobShape, SeenIsNewest, GensSent(w), InHand(w),
         JobReaches(w), BatchIsLog(w), TombsKnown(w), [Next]_vars
  PROVE  TombsKnown(w)'
<1> DEFINE m == job[w].msg
<1>0. w \in Workers
  BY DEF Alone
<1>1. ASSUME Tombstones(log)' = {} PROVE TombsKnown(w)'
  BY <1>1 DEF TombsKnown
<1>2. ASSUME UNCHANGED <<job, up, log, top>> PROVE TombsKnown(w)'
  <2>1. \A e \in Tombstones(log) : MayPend(w, e)'
    BY <1>2 DEF TombsKnown, MayPend
  <2> QED
    BY <1>2, <2>1, TombsKept
<1>3. ASSUME NEW n \in msgs, Deliver(w, n) PROVE TombsKnown(w)'
  <2>1. Tombstones(log) = {} /\ log' = log
    BY <1>3, NoTombs DEF Deliver, Free
  <2> QED
    BY <1>1, <2>1 DEF Tombstones
<1>4. ASSUME top' = top, log' = log,
             \/ job'[w].pc \in {"read", "apply", "publish", "swap", "mark"}
             \/ job'[w].pc = "idle" /\ ~ up'
      PROVE  TombsKnown(w)'
  BY <1>4, TombsKept DEF MayPend
<1>5. CASE Recover(w) \/ Crash
  <2>1. top' = top /\ log' = log
    BY <1>5 DEF Recover, Crash, genVars
  <2>2. job'[w].pc = "read" \/ (job'[w].pc = "idle" /\ ~ up')
    BY <1>0, <1>5, RestartIs DEF Crash
  <2> QED
    BY <1>4, <2>1, <2>2
<1>6. CASE Seen(w) \/ Parse(w) \/ Merge(w) \/ Undo(w) \/ Failures(w)
           \/ (\E x \in job[w].todo : Replay(w, x)) \/ Recovered(w)
  <2>1. Tombstones(log) = {} /\ log' = log
    BY <1>6, NoTombs DEF Seen, Parse, Merge, Undo, Failures, Replay, Recovered, At
  <2> QED
    BY <1>1, <2>1 DEF Tombstones
<1>7. CASE Append(w)
  <2>1. Tombstones(log) = {} /\ top' = top /\ msgs' = msgs /\ job[w].pc = "append"
    BY <1>7, NoTombs DEF Append, At, genVars, agentVars
  <2>2. CASE log' = log
    BY <1>1, <2>1, <2>2 DEF Tombstones
  <2>3. CASE /\ Kept(w)
             /\ job'[w].pc = IF m.op = "delete" THEN "commit" ELSE "merge"
             /\ log' = log \cup {StagedAs(m, job'[w].lsn)}
    <3>1. Carries(w) /\ m \in Msg
      BY <1>0, <2>1, AtStep DEF TypeOK, JobsOK, Carries
    <3>2. ASSUME NEW e \in Tombstones(log)'
          PROVE  /\ [op |-> "delete", file |-> e.file, gen |-> e.gen, edit |-> e.edit] \in msgs'
                 /\ Reaches(e.edit, e.file)'
                 /\ MayPend(w, e)'
      <4>1. e = StagedAs(m, job'[w].lsn) /\ e.op = "delete"
        BY <2>1, <2>3, <3>2 DEF Tombstones
      <4>2. m.op = "delete" /\ e.file = m.file /\ e.gen = m.gen /\ e.edit = m.edit
        BY <4>1 DEF StagedAs
      <4>3. m \in msgs
        BY <3>1, <4>2 DEF InHand, Carries
      <4>4. m = [op |-> "delete", file |-> e.file, gen |-> e.gen, edit |-> e.edit]
        BY <3>1, <4>2 DEF Msg
      <4>5. Reaches(m.edit, m.file)
        BY <2>1 DEF JobReaches
      <4>6. Reaches(e.edit, e.file)'
        BY <2>1, <4>2, <4>5 DEF Reaches
      <4>7. MayPend(w, e)'
        BY <2>3, <4>1, <4>2 DEF MayPend, Kept
      <4> QED
        BY <2>1, <4>3, <4>4, <4>6, <4>7
    <3> QED
      BY <3>2 DEF TombsKnown
  <2>4. "sync" \notin Faults
    BY DEF Alone
  <2> QED
    BY <1>0, <1>7, <2>2, <2>3, <2>4, AppendIs
<1>8. CASE Commit(w)
  <2>1. m \in Msg /\ Carries(w) /\ job[w].pc = "commit" /\ msgs' = msgs
    BY <1>0, <1>8, CommitIs DEF Commit, agentVars
  <2>2. \A e \in Tombstones(log) : e = StagedAs(m, job[w].lsn)
    BY <2>1 DEF TombsKnown, MayPend
  <2>3. CASE Onto(w, "read") /\ log' = log /\ top' = [top EXCEPT ![m.file] = m.gen]
    <3>1. \A n \in msgs : n.file = m.file /\ ~ Older(top'[m.file], n.gen) => n.edit <= m.edit
      <4>1. top'[m.file] = m.gen
        BY <2>1, <2>3 DEF TypeOK, Msg
      <4> QED
        BY <2>1, <4>1 DEF InHand
    <3>2. \A e \in Tombstones(log)' : /\ e \in Tombstones(log) /\ e.edit = m.edit /\ e.file = m.file
                                      /\ MayPend(w, e)'
      BY <2>2, <2>3 DEF StagedAs, Tombstones, MayPend, Onto
    <3>3. \A e \in Tombstones(log)' : Reaches(e.edit, e.file)'
      BY <2>1, <3>1, <3>2 DEF Reaches
    <3> QED
      BY <2>1, <3>2, <3>3 DEF TombsKnown
  <2>4. CASE log' = IF m.op = "delete" THEN log \ Own(w) ELSE log
    <3>1. \A e \in Tombstones(log) : e \in Own(w) /\ m.op = "delete"
      BY <2>2 DEF StagedAs, Own, Tombstones
    <3>2. Tombstones(log)' = {}
      BY <2>4, <3>1 DEF Tombstones
    <3> QED
      BY <1>1, <3>2
  <2> QED
    BY <1>0, <1>8, <2>3, <2>4, CommitIs
<1>9. CASE ReadNone(w) \/ Mark(w)
  <2>1. "mark" \notin Faults
    BY DEF Alone
  <2>2. log' = {}
    BY <1>9, <2>1 DEF ReadNone, Mark, Fails, At, BatchIsLog
  <2> QED
    BY <1>1, <2>2 DEF Tombstones
<1>10. CASE Read(w) \/ Apply(w) \/ Applied(w) \/ Swap(w)
  <2>1. top' = top /\ log' = log /\ "read" \notin Faults /\ "apply" \notin Faults
    BY <1>10 DEF Read, Apply, Applied, Swap, genVars, Alone
  <2>2. job'[w].pc \in {"apply", "publish", "mark"}
    <3>1. Applied(w) => Onto(w, "publish")
      BY <1>0, GotoIs DEF Applied
    <3> QED
      BY <1>0, <1>10, <2>1, <3>1, ReadIs, ApplyIs, SwapIs DEF Onto
  <2> QED
    BY <1>4, <2>1, <2>2
<1>11. CASE Publish(w)
  <2>1. top' = top /\ log = job[w].batch
    BY <1>11 DEF Publish, At, BatchIsLog, genVars
  <2>2. CASE log' = log \ job[w].batch
    BY <1>1, <2>1, <2>2 DEF Tombstones
  <2> QED
    BY <1>0, <1>4, <1>11, <2>1, <2>2, PublishIs
<1> QED
  BY <1>2, <1>3, <1>5, <1>6, <1>7, <1>8, <1>9, <1>10, <1>11
     DEF Next, Alone, Step, vars, Edit, Send, Connect

\* When nothing is left to apply, the graph has the newest commits.
LEMMA NothingToApply ==
  ASSUME NEW w, GraphReaches(w), ToApply(w) = {}, NEW m \in msgs, m.gen = top[m.file]
  PROVE  graph[Under(m)][m.file].edit >= m.edit
  BY DEF GraphReaches

\* A write of an edit that is not before the committed ones keeps what the graph
\* reaches, under either number.
LEMMA WriteReaches ==
  ASSUME TypeOK, NEW i \in {Row, Num}, NEW f \in Files, NEW v \in Version, Reaches(v.edit, f),
         graph' = [graph EXCEPT ![i][f] = v],
         NEW m \in msgs, ~ Older(top[m.file], m.gen), graph[Under(m)][m.file].edit >= m.edit
  PROVE  graph'[Under(m)][m.file].edit >= m.edit
<1>1. m.file \in Files /\ m.edit \in Nat /\ Under(m) \in {Row, Num}
  BY DEF TypeOK, Msg, Under
<1>2. graph'[Under(m)][m.file] = IF Under(m) = i /\ m.file = f THEN v ELSE graph[Under(m)][m.file]
  BY <1>1, GraphAt
<1>3. CASE Under(m) = i /\ m.file = f
  <2>1. v.edit \in Nat /\ m.edit <= v.edit
    BY <1>3 DEF Reaches, Version
  <2> QED
    BY <1>1, <1>2, <1>3, <2>1
<1> QED
  BY <1>2, <1>3

\* A newest commit is not older than itself, and comes from a known request.
LEMMA NewestIs ==
  ASSUME TypeOK, NEW m \in msgs, m.gen = top[m.file]
  PROVE  m \in Msg /\ m.file \in Files /\ m.edit \in Nat /\ m.gen \in Gen /\ ~ Older(top[m.file], m.gen)
<1>1. m \in Msg /\ m.file \in Files /\ m.edit \in Nat /\ m.gen \in Gen
  BY DEF TypeOK, Msg
<1> QED
  BY <1>1, GenOrder

\* The graph loses no committed edit, and a commit is of an edit that the
\* graph has or of a deletion that is pending.
LEMMA GraphStep ==
  ASSUME NEW w, Alone(w), TypeOK, TypeOK', JobShape, GraphInv(w), [Next]_vars
  PROVE  GraphReaches(w)'
<1> USE DEF GraphInv
<1> DEFINE m == job[w].msg
<1>0. w \in Workers
  BY DEF Alone
<1>1. ASSUME top' = top, NEW n \in msgs', n.gen = top'[n.file] PROVE n \in msgs
  <2>1. CASE msgs' = msgs
    BY <1>1, <2>1
  <2>2. ASSUME NEW f \in Files, Send(f), n \notin msgs PROVE FALSE
    <3>1. n.gen = <<epoch, seq + 1>> /\ n.file = f
      BY <1>1, <2>2 DEF Send
    <3>2. Older(top[f], <<epoch, seq + 1>>) /\ top[f] \in Gen
      BY SoFarGrows DEF GensSent, TypeOK
    <3> QED
      BY <1>1, <3>1, <3>2, GenOrder
  <2> QED
    BY <1>1, <2>1, <2>2, MsgsSame
<1>2. ASSUME top' = top, graph' = graph, ToApply(w) \subseteq ToApply(w)'
      PROVE  GraphReaches(w)'
  <2> SUFFICES ASSUME NEW n \in msgs', n.gen = top'[n.file]
               PROVE  \/ graph'[Under(n)][n.file].edit >= n.edit
                      \/ n.op = "delete" /\ \E e \in ToApply(w)' : e.file = n.file /\ e.gen = n.gen
    BY DEF GraphReaches, Under
  <2>1. n \in msgs
    BY <1>1, <1>2
  <2> QED
    BY <1>2, <2>1 DEF GraphReaches
<1>3. ASSUME top' = top, graph' = graph, ToApply(w) = {}
      PROVE  GraphReaches(w)'
  BY <1>2, <1>3
<1>4. ASSUME UNCHANGED <<job, log, top, graph>> PROVE GraphReaches(w)'
  BY <1>2, <1>4 DEF ToApply, Tombstones
<1>5. ASSUME NEW n \in msgs, Deliver(w, n) PROVE GraphReaches(w)'
  <2>1. Tombstones(log) = {} /\ job[w].pc = "idle" /\ top' = top /\ graph' = graph
    BY <1>5, NoTombs DEF Deliver, Free, genVars
  <2>2. ToApply(w) = {}
    BY <2>1 DEF ToApply
  <2> QED
    BY <1>3, <2>1, <2>2
<1>6. CASE Recover(w) \/ Crash
  <2>1. top' = top /\ log' = log /\ graph' = graph
    BY <1>6 DEF Recover, Crash, genVars
  <2>2. job'[w].pc \in {"read", "idle"}
    BY <1>0, <1>6, RestartIs
  <2>3. ToApply(w) \subseteq Tombstones(log)
    BY DEF ToApply, BatchIsLog
  <2>4. ToApply(w)' = Tombstones(log)
    BY <2>1, <2>2 DEF ToApply, Tombstones
  <2> QED
    BY <1>2, <2>1, <2>3, <2>4
<1>7. CASE Seen(w) \/ Parse(w) \/ Append(w) \/ Undo(w) \/ Failures(w) \/ Publish(w) \/ Swap(w) \/ Mark(w)
           \/ (\E x \in job[w].todo : Replay(w, x)) \/ Recovered(w)
  <2>1. /\ top' = top /\ graph' = graph
        /\ job[w].pc \notin {"idle", "read", "apply"}
    BY <1>7 DEF Seen, Parse, Append, Undo, Failures, Publish, Swap, Mark, Replay, Recovered,
       At, genVars
  <2>2. ToApply(w) = {}
    BY <2>1 DEF ToApply
  <2> QED
    BY <1>3, <2>1, <2>2
<1>8. CASE Merge(w)
  <2> DEFINE v == [edit |-> m.edit, live |-> TRUE]
  <2>1. job[w].pc = "merge" /\ top' = top /\ msgs' = msgs /\ m \in Msg
    BY <1>0, <1>8, AtStep DEF Merge, At, genVars, agentVars, TypeOK, JobsOK
  <2>2. ToApply(w) = {}
    BY <2>1 DEF ToApply
  <2>3. v \in Version /\ v.edit = m.edit /\ m.file \in Files
    BY <2>1 DEF Msg, Version
  <2>4. Reaches(v.edit, m.file)
    BY <2>1, <2>3 DEF JobReaches
  <2>5. CASE graph' = graph
    BY <1>3, <2>1, <2>2, <2>5
  <2>6. CASE graph' = [graph EXCEPT ![Row][m.file] = v]
    <3> HIDE DEF v
    <3>1. \A n \in msgs : n.gen = top[n.file] => graph'[Under(n)][n.file].edit >= n.edit
      BY <2>2, <2>3, <2>4, <2>6, NothingToApply, NewestIs, WriteReaches
    <3> QED
      BY <2>1, <3>1 DEF GraphReaches, Under
  <2> QED
    BY <1>8, <2>5, <2>6 DEF Merge
<1>9. CASE Commit(w)
  <2>1. m \in Msg /\ Carries(w) /\ job[w].pc = "commit" /\ msgs' = msgs /\ graph' = graph
    BY <1>0, <1>9, CommitIs DEF Commit, agentVars
  <2>2. ToApply(w) = {}
    BY <2>1 DEF ToApply
  <2>3. CASE UNCHANGED top
    BY <1>3, <2>1, <2>2, <2>3
  <2>4. CASE Onto(w, "read") /\ log' = log /\ top' = [top EXCEPT ![m.file] = m.gen]
    <3> SUFFICES ASSUME NEW n \in msgs, n.gen = top'[n.file]
                 PROVE  \/ graph[Under(n)][n.file].edit >= n.edit
                        \/ n.op = "delete" /\ \E e \in ToApply(w)' : e.file = n.file /\ e.gen = n.gen
      BY <2>1 DEF GraphReaches, Under
    <3>0. n \in Msg /\ n.file \in Files /\ n.edit \in Nat /\ n.gen \in Gen /\ m.file \in Files /\ m.gen \in Gen
      BY <2>1 DEF TypeOK, Msg
    <3>1. CASE n.file # m.file
      <4>1. n.gen = top[n.file]
        BY <2>4, <3>0, <3>1 DEF TypeOK
      <4> QED
        BY <2>2, <4>1, NothingToApply
    <3>2. CASE n.file = m.file /\ m.op = "refresh"
      <4>1. n.gen = m.gen
        BY <2>4, <3>0, <3>2 DEF TypeOK
      <4>2. n.op = "refresh"
        BY <2>1, <3>2, <4>1 DEF Carries, InHand, MsgsInOrder, ReplaysRefresh, OfRefresh
      <4>3. n.edit <= m.edit
        BY <2>1, <3>0, <3>2, <4>1, GenOrder DEF InHand
      <4>4. graph[Row][m.file].edit = m.edit
        BY <2>1, <3>2 DEF JobReaches
      <4>5. m.edit \in Nat
        BY <2>1 DEF Msg
      <4> QED
        BY <3>0, <3>2, <4>2, <4>3, <4>4, <4>5 DEF Under
    <3>3. CASE n.file = m.file /\ m.op = "delete"
      <4>1. n.gen = m.gen
        BY <2>4, <3>0, <3>3 DEF TypeOK
      <4>2. StagedAs(m, job[w].lsn) \in Tombstones(log)
        BY <2>1, <3>3 DEF JobReaches, Tombstones, StagedAs
      <4>3. ToApply(w)' = Tombstones(log)
        BY <2>4 DEF ToApply, Onto, Tombstones
      <4>4. StagedAs(m, job[w].lsn).file = n.file /\ StagedAs(m, job[w].lsn).gen = n.gen
        BY <3>3, <4>1 DEF StagedAs
      <4>5. m \in msgs
        BY <2>1, <3>3 DEF Carries, InHand
      <4>6. n.op = "delete"
        BY <3>3, <4>1, <4>5 DEF MsgsInOrder
      <4> QED
        BY <4>2, <4>3, <4>4, <4>6
    <3> QED
      BY <2>1, <3>1, <3>2, <3>3 DEF Msg
  <2> QED
    BY <1>0, <1>9, <2>3, <2>4, CommitIs
<1>10. CASE ReadNone(w)
  <2>1. top' = top /\ graph' = graph /\ ToApply(w) = {}
    BY <1>10 DEF ReadNone, genVars, At, ToApply, Tombstones
  <2> QED
    BY <1>3, <2>1
<1>11. CASE Read(w)
  <2>1. top' = top /\ graph' = graph /\ job[w].pc = "read" /\ "read" \notin Faults
    BY <1>11 DEF Read, genVars, At, Alone
  <2>2. ToApply(w)' = ToApply(w)
    BY <1>0, <1>11, <2>1, ReadIs DEF ToApply
  <2> QED
    BY <1>2, <2>1, <2>2
<1>12. CASE Apply(w)
  <2>1. top' = top /\ msgs' = msgs /\ job[w].pc = "apply" /\ "apply" \notin Faults
    BY <1>12 DEF Apply, genVars, agentVars, At, Alone
  <2>2. PICK e \in job[w].tombs :
           /\ job'[w].pc = "apply" /\ job'[w].tombs = job[w].tombs \ {e}
           /\ graph' = [graph EXCEPT ![Num][e.file] = [edit |-> e.edit, live |-> FALSE]]
    BY <1>0, <1>12, <2>1, ApplyIs
  <2> DEFINE v == [edit |-> e.edit, live |-> FALSE]
  <2>3. Reaches(e.edit, e.file) /\ e.file \in Files /\ e.edit \in Nat
    BY <2>1 DEF BatchIsLog, TombsKnown, Tombstones, TypeOK, Entry
  <2>4. v \in Version /\ v.edit = e.edit
    BY <2>3 DEF Version
  <2> SUFFICES ASSUME NEW n \in msgs, n.gen = top[n.file]
               PROVE  \/ graph'[Under(n)][n.file].edit >= n.edit
                      \/ n.op = "delete" /\ \E d \in ToApply(w)' : d.file = n.file /\ d.gen = n.gen
    BY <2>1 DEF GraphReaches, Under
  <2>5. CASE graph[Under(n)][n.file].edit >= n.edit
    <3> HIDE DEF v
    <3>1. graph' = [graph EXCEPT ![Num][e.file] = v]
      BY <2>2 DEF v
    <3> QED
      BY <2>3, <2>4, <2>5, <3>1, NewestIs, WriteReaches
  <2>6. ASSUME n.op = "delete", NEW d \in ToApply(w), d.file = n.file, d.gen = n.gen
        PROVE  \/ graph'[Under(n)][n.file].edit >= n.edit
               \/ \E c \in ToApply(w)' : c.file = n.file /\ c.gen = n.gen
    <3>1. CASE d # e
      BY <2>1, <2>2, <2>6, <3>1 DEF ToApply
    <3>2. CASE d = e
      <4>1. n.edit <= e.edit
        BY <2>3, <2>6, <3>2, NewestIs DEF Reaches
      <4>2. graph'[Num][e.file] = v
        BY <2>2, <2>3, <2>4, GraphAt
      <4> QED
        BY <2>3, <2>4, <2>6, <3>2, <4>1, <4>2, NewestIs DEF Under
    <3> QED
      BY <3>1, <3>2
  <2> QED
    BY <2>5, <2>6 DEF GraphReaches
<1>13. CASE Applied(w)
  <2>1. top' = top /\ graph' = graph /\ ToApply(w) = {}
    BY <1>13 DEF Applied, genVars, At, ToApply
  <2> QED
    BY <1>3, <2>1
<1> QED
  BY <1>4, <1>5, <1>6, <1>7, <1>8, <1>9, <1>10, <1>11, <1>12, <1>13
     DEF Next, Alone, Step, vars, Edit, Send, Connect

\* The invariant is inductive.
LEMMA GraphInvStep ==
  ASSUME NEW w, Alone(w), GraphInv(w), [Next]_vars
  PROVE  GraphInv(w)'
<1> USE DEF GraphInv
<1>1. TypeOK' /\ JobShape'
  BY TypeStep
<1>2. SeenIsNewest'
  BY SeenStep
<1>3. GensSent(w)' /\ MsgsInOrder'
  BY <1>1, SentStep, MsgsStep
<1>4. InHand(w)' /\ ReplaysRefresh(w)' /\ JobReaches(w)'
  BY <1>1, HandStep, ReplayStep, JobStep
<1>5. CommIsTop' /\ BatchIsLog(w)'
  BY <1>1, CommStep, BatchStep
<1>6. TombsKnown(w)' /\ GraphReaches(w)'
  BY <1>1, TombStep, GraphStep
<1> QED
  BY <1>1, <1>2, <1>3, <1>4, <1>5, <1>6

\* Nothing is sent, committed or logged at first.
LEMMA GraphInvInit ==
  ASSUME NEW w, Alone(w), Init
  PROVE  GraphInv(w)
<1>1. TypeOK /\ JobShape /\ SeenIsNewest
  BY TypeInit, SeenInit
<1>2. job[w] = Idle
  BY DEF Init, Alone
<1>3. GensSent(w) /\ MsgsInOrder
  BY <1>2 DEF Init, GensSent, MsgsInOrder, Carries, Idle, NoGen, Sent, SoFar, Older
<1>4. InHand(w) /\ ReplaysRefresh(w) /\ JobReaches(w)
  BY <1>2 DEF Init, InHand, ReplaysRefresh, OfRefresh, JobReaches, Carries, Idle
<1>5. CommIsTop /\ BatchIsLog(w) /\ TombsKnown(w)
  BY <1>2 DEF Init, CommIsTop, BatchIsLog, TombsKnown, Tombstones, Idle
<1>6. GraphReaches(w)
  BY DEF Init, GraphReaches
<1> QED
  BY <1>1, <1>3, <1>4, <1>5, <1>6 DEF GraphInv

\* What the invariant is for.
LEMMA GraphInvImplies ==
  ASSUME NEW w, GraphInv(w)
  PROVE  CommittedInGraph
<1> USE DEF GraphInv
<1> SUFFICES ASSUME NEW m \in msgs, comm[m.file] = m.gen
             PROVE  \/ graph[Under(m)][m.file].edit >= m.edit
                    \/ m.op = "delete" /\ \E e \in log : e.op = "delete" /\ e.gen = m.gen
  BY DEF CommittedInGraph
<1>1. m.file \in Files
  BY DEF TypeOK, Msg
<1>2. top[m.file] = m.gen
  BY <1>1 DEF CommIsTop, GensSent
<1>3. \A e \in ToApply(w) : e \in log /\ e.op = "delete"
  BY DEF ToApply, BatchIsLog, Tombstones
<1> QED
  BY <1>2, <1>3 DEF GraphReaches

\* A file's committed generation is in the graph under the number its handler
\* writes to, or is a deletion that waits in the staging log, whether the
\* workspace's two numbers agree or not; for one worker whose log can be synced,
\* read and marked and whose tombstones can be applied.  Everything else may
\* fail, and the daemon may crash at any step (handle_workspace_file_refresh and
\* _delete).
THEOREM CommittedHolds ==
  ASSUME NEW CONSTANT w, Alone(w)
  PROVE  Spec => []CommittedInGraph
<1>1. Init => GraphInv(w)
  BY GraphInvInit
<1>2. GraphInv(w) /\ [Next]_vars => GraphInv(w)'
  BY GraphInvStep
<1>3. GraphInv(w) => CommittedInGraph
  BY GraphInvImplies
<1> QED
  BY <1>1, <1>2, <1>3, PTL DEF Spec

-----------------------------------------------------------------------------
(* What was answered stays visible: one worker *)

\* What was answered is not newer than the commits, and shows in the graph and
\* in the snapshot.
AnswersShown ==
    \A m \in answered :
        /\ m \in msgs /\ ~ Older(top[m.file], m.gen)
        /\ graph[Under(m)][m.file].edit >= m.edit
        /\ snap # None /\ Under(m) = Num => snap[m.file].edit >= m.edit

\* A snapshot on its way is of the graph's rows under Num as they are.
BuiltIsGraph(w) ==
    /\ job[w].pc = "swap" => job[w].built = graph[Num]
    /\ job[w].pc = "mark" => snap = graph[Num]

\* The snapshot on its way stays that of the graph.
LEMMA BuiltStep ==
  ASSUME NEW w, Alone(w), TypeOK, TypeOK', JobShape, SeenIsNewest, BuiltIsGraph(w), [Next]_vars
  PROVE  BuiltIsGraph(w)'
<1>0. w \in Workers
  BY DEF Alone
<1>1. ASSUME job'[w].pc \notin {"swap", "mark"} PROVE BuiltIsGraph(w)'
  BY <1>1 DEF BuiltIsGraph
<1>2. Over(w) => BuiltIsGraph(w)'
  BY <1>1 DEF Over
<1>3. ASSUME UNCHANGED <<job, graph, snap>> PROVE BuiltIsGraph(w)'
  BY <1>3 DEF BuiltIsGraph
<1>4. ASSUME NEW m \in msgs, Deliver(w, m) PROVE BuiltIsGraph(w)'
  <2>1. job'[w].pc = "seen"
    BY <1>0, <1>4 DEF Deliver, Idle, TypeOK
  <2> QED
    BY <1>1, <2>1
<1>5. CASE Recover(w) \/ Crash \/ Failures(w)
  BY <1>0, <1>1, <1>5, RestartIs, FailuresIs
<1>6. ASSUME NEW x \in job[w].todo, Replay(w, x) PROVE BuiltIsGraph(w)'
  <2>1. job[w].pc = "replay"
    BY <1>6 DEF Replay, At
  <2>2. job'[w].pc \in {"append", "replay"}
    BY <1>0, <1>6, <2>1, ReplayIs DEF Replays
  <2> QED
    BY <1>1, <2>2
<1>7. CASE Finish(w)
  BY <1>0, <1>2, <1>7, FinishIs
<1>8. ASSUME NEW pc \in {"parse", "append", "commit", "publish"}, Goto(w, pc) PROVE BuiltIsGraph(w)'
  BY <1>0, <1>1, <1>8, GotoIs DEF Onto
<1>9. CASE Append(w) \/ Commit(w)
  BY <1>0, <1>1, <1>2, <1>9, AppendIs, CommitIs DEF Onto
<1>10. ASSUME NEW failed \in BOOLEAN, Leave(w, failed),
              job[w].pc \in {"read", "apply", "publish", "swap", "mark"}
       PROVE  BuiltIsGraph(w)'
  <2>1. Over(w) \/ Onto(w, "undo")
    BY <1>0, <1>10, LeaveIs
  <2> QED
    BY <1>1, <1>2, <2>1 DEF Onto
<1>11. CASE ReadNone(w) \/ Mark(w)
  BY <1>10, <1>11 DEF ReadNone, Mark, At
<1>12. CASE Read(w) \/ Apply(w)
  BY <1>0, <1>1, <1>10, <1>12, ReadIs, ApplyIs DEF Read, Apply, At
<1>13. CASE Publish(w)
  <2>1. graph' = graph /\ job[w].pc = "publish"
    BY <1>13 DEF Publish, At
  <2>2. CASE job'[w].pc = "swap" /\ job'[w].built = graph[Num]
    BY <2>1, <2>2 DEF BuiltIsGraph
  <2> QED
    BY <1>0, <1>10, <1>13, <2>1, <2>2, PublishIs
<1>14. CASE Swap(w)
  <2>1. graph' = graph /\ snap' = graph[Num] /\ job'[w].pc = "mark"
    BY <1>0, <1>14, SwapIs DEF Swap, At, BuiltIsGraph
  <2> QED
    BY <2>1 DEF BuiltIsGraph
<1>15. CASE Recovered(w)
  <2>1. job'[w].pc = "idle"
    BY <1>0, <1>15 DEF Recovered, Idle, TypeOK
  <2> QED
    BY <1>1, <2>1
<1> QED
  BY <1>3, <1>4, <1>5, <1>6, <1>7, <1>8, <1>9, <1>11, <1>12, <1>13, <1>14, <1>15
     DEF Next, Alone, Step, vars, Edit, Send, Connect, Seen, Parse, Merge, AfterMergeFailure,
         Applied, Undo

\* Answers stay shown, and only what is shown is answered.
LEMMA AnswerStep ==
  ASSUME NEW w, Alone(w), TypeOK', GraphInv(w), BuiltIsGraph(w), AnswersShown, [Next]_vars
  PROVE  AnswersShown'
<1> USE DEF GraphInv
<1> DEFINE m == job[w].msg
<1>0. w \in Workers
  BY DEF Alone
<1>1. msgs \subseteq msgs'
  BY MsgsSame DEF Send
<1>2. \A n \in answered : n.file \in Files /\ n.edit \in Nat /\ n.gen \in Gen
  BY DEF TypeOK, Msg
<1>3. ASSUME UNCHANGED <<answered, graph, top>>, snap' = snap \/ snap' = None PROVE AnswersShown'
  BY <1>1, <1>3 DEF AnswersShown, Under
<1>4. CASE Merge(w)
  <2> DEFINE v == [edit |-> m.edit, live |-> TRUE]
  <2>1. job[w].pc = "merge" /\ UNCHANGED <<answered, snap, top>> /\ m \in Msg
    BY <1>0, <1>4, AtStep DEF Merge, At, genVars, TypeOK, JobsOK
  <2>2. v \in Version /\ m.file \in Files /\ Reaches(v.edit, m.file)
    BY <2>1 DEF Msg, Version, JobReaches
  <2>3. CASE graph' = graph
    BY <1>3, <2>1, <2>3
  <2>4. CASE graph' = [graph EXCEPT ![Row][m.file] = v]
    <3> HIDE DEF v
    <3>1. \A n \in answered : graph'[Under(n)][n.file].edit >= n.edit
      BY <2>2, <2>4, WriteReaches DEF AnswersShown
    <3> QED
      BY <1>1, <2>1, <3>1 DEF AnswersShown, Under
  <2> QED
    BY <1>4, <2>3, <2>4 DEF Merge
<1>5. CASE Commit(w)
  <2>1. UNCHANGED <<answered, snap, graph>> /\ m \in Msg
    BY <1>0, <1>5, CommitIs DEF Commit
  <2>2. CASE UNCHANGED top
    BY <1>3, <2>1, <2>2
  <2>3. CASE ~ Older(m.gen, top[m.file]) /\ top' = [top EXCEPT ![m.file] = m.gen]
    <3>1. \A n \in answered : ~ Older(top'[n.file], n.gen)
      <4> TAKE n \in answered
      <4>1. CASE n.file = m.file
        <5>1. top'[n.file] = m.gen /\ ~ Older(top[n.file], n.gen) /\ ~ Older(m.gen, top[n.file])
          BY <1>2, <2>3, <4>1 DEF TypeOK, AnswersShown
        <5>2. m.gen \in Gen /\ top[n.file] \in Gen /\ n.gen \in Gen
          BY <1>2, <2>1 DEF TypeOK, Msg
        <5> QED
          BY <5>1, <5>2, GenOrder
      <4>2. CASE n.file # m.file
        BY <1>2, <2>3, <4>2 DEF TypeOK, AnswersShown
      <4> QED
        BY <4>1, <4>2
    <3> QED
      BY <1>1, <2>1, <3>1 DEF AnswersShown, Under
  <2> QED
    BY <1>0, <1>5, <2>2, <2>3, CommitIs
<1>6. CASE Apply(w)
  <2>1. UNCHANGED <<answered, snap, top>> /\ job[w].pc = "apply" /\ "apply" \notin Faults
    BY <1>6 DEF Apply, genVars, At, Alone
  <2>2. PICK e \in job[w].tombs :
           graph' = [graph EXCEPT ![Num][e.file] = [edit |-> e.edit, live |-> FALSE]]
    BY <1>0, <1>6, <2>1, ApplyIs
  <2> DEFINE v == [edit |-> e.edit, live |-> FALSE]
  <2>3. Reaches(e.edit, e.file) /\ e.file \in Files /\ e.edit \in Nat
    BY <2>1 DEF BatchIsLog, TombsKnown, Tombstones, TypeOK, Entry
  <2>4. v \in Version /\ Reaches(v.edit, e.file) /\ graph' = [graph EXCEPT ![Num][e.file] = v]
    BY <2>2, <2>3 DEF Version
  <2> HIDE DEF v
  <2>5. \A n \in answered : graph'[Under(n)][n.file].edit >= n.edit
    BY <2>3, <2>4, WriteReaches DEF AnswersShown
  <2> QED
    BY <1>1, <2>1, <2>5 DEF AnswersShown, Under
<1>7. CASE Swap(w)
  <2>1. UNCHANGED <<answered, graph, top>> /\ snap' = graph[Num]
    BY <1>7 DEF Swap, genVars, At, BuiltIsGraph
  <2> QED
    BY <1>1, <2>1 DEF AnswersShown, Under
<1>8. CASE Mark(w)
  <2>1. UNCHANGED <<graph, snap, top>> /\ job[w].pc = "mark" /\ "mark" \notin Faults
    BY <1>8 DEF Mark, genVars, At, Alone
  <2>2. answered' = answered \/ (job[w].kind \in {"refresh", "delete"} /\ answered' = answered \cup {m})
    BY <1>8, <2>1 DEF Mark
  <2>3. CASE answered' = answered
    BY <1>3, <2>1, <2>3
  <2>4. CASE job[w].kind \in {"refresh", "delete"} /\ answered' = answered \cup {m}
    <3>1. m \in msgs /\ m.file \in Files /\ m.edit \in Nat
      BY <2>4 DEF InHand, TypeOK, Msg
    <3>2. m.gen = top[m.file]
      BY <2>1, <2>4 DEF JobReaches, Carries
    <3>3. ToApply(w) = {}
      BY <2>1 DEF ToApply
    <3>4. graph[Under(m)][m.file].edit >= m.edit /\ ~ Older(top[m.file], m.gen)
      BY <3>1, <3>2, <3>3, NothingToApply, NewestIs
    <3>5. snap = graph[Num]
      BY <2>1 DEF BuiltIsGraph
    <3> QED
      BY <1>1, <2>1, <2>4, <3>1, <3>4, <3>5 DEF AnswersShown, Under
  <2> QED
    BY <2>2, <2>3, <2>4
<1>9. CASE ReadNone(w)
  <2>1. job[w].kind # "delete"
    BY <1>9 DEF ReadNone, At, JobReaches
  <2> QED
    BY <1>3, <1>9, <2>1 DEF ReadNone, genVars
<1> QED
  BY <1>3, <1>4, <1>5, <1>6, <1>7, <1>8, <1>9
     DEF Next, Alone, Step, vars, Edit, Send, Connect, Deliver, Recover, Crash, Seen, Parse,
         Append, Read, Applied, Publish, Undo, Failures, Replay, Recovered, genVars

\* What was answered as published or deleted stays in the graph under the number
\* its handler writes to, and in the snapshot when that is the registry's (a
\* refresh's only if the two agree), under the hypotheses of CommittedHolds.
THEOREM AnsweredHolds ==
  ASSUME NEW CONSTANT w, Alone(w)
  PROVE  Spec => []AnsweredVisible
<1>1. Init => GraphInv(w)
  BY GraphInvInit
<1>2. Init => BuiltIsGraph(w) /\ AnswersShown
  BY DEF Init, Alone, BuiltIsGraph, AnswersShown, Idle
<1>3. GraphInv(w) /\ [Next]_vars => GraphInv(w)'
  BY GraphInvStep
<1>4. GraphInv(w) /\ BuiltIsGraph(w) /\ AnswersShown /\ [Next]_vars => (BuiltIsGraph(w) /\ AnswersShown)'
  BY TypeStep, BuiltStep, AnswerStep DEF GraphInv
<1>5. AnswersShown => AnsweredVisible
  BY DEF AnswersShown, AnsweredVisible
<1> QED
  BY <1>1, <1>2, <1>3, <1>4, <1>5, PTL DEF Spec
=============================================================================
