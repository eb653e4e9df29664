----------------------------- MODULE TaskWorkProofs -----------------------------
(***************************************************************************)
(* Proofs about TaskWork for any sessions, roles, owners and bounds.       *)
(***************************************************************************)
EXTENDS TaskWork, WellFoundedInduction, TLAPS

(* The plan *)

\* A set of numbers that is not empty has a least one, which Least names.
LEMMA LeastIsMember ==
  ASSUME NEW T \in SUBSET Nat, T # {}
  PROVE  Least(T) \in T
<1> DEFINE R == OpToRel(<, Nat)
<1>1. IsWellFoundedOn(R, Nat)
  BY NatLessThanWellFounded
<1>2. \A x, y \in Nat : x < y => <<x, y>> \in R
  BY DEF OpToRel
<1> HIDE DEF R
<1>3. T \subseteq Nat
  OBVIOUS
<1>4. PICK x \in T : \A y \in T : <<y, x>> \notin R
  BY <1>1, <1>3, WFMin
<1>5. ASSUME NEW y \in T PROVE x <= y
  <2>1. x \in Nat /\ y \in Nat
    BY <1>3, <1>4
  <2>2. ~ (y < x)
    BY <1>2, <1>4, <2>1, Zenon
  <2> QED
    BY <2>1, <2>2
<1> QED
  BY <1>5 DEF Least

\* Writing one step of a plan leaves a plan of the same length.
LEMMA PlanSet ==
  ASSUME NEW q \in Seq(Step), NEW i \in DOMAIN q, NEW r \in Step
  PROVE  /\ [q EXCEPT ![i] = r] \in Seq(Step)
         /\ Len([q EXCEPT ![i] = r]) = Len(q)
         /\ DOMAIN [q EXCEPT ![i] = r] = DOMAIN q
  OBVIOUS

\* Marking a step changes its status and nothing else of the plan.
LEMMA MarkedPlan ==
  ASSUME steps \in Seq(Step), NEW i \in DOMAIN steps,
         NEW w \in {"pending", "in_progress", "done", "failed"}
  PROVE  /\ Marked(i, w) \in Seq(Step)
         /\ Len(Marked(i, w)) = Len(steps)
         /\ DOMAIN Marked(i, w) = DOMAIN steps
         /\ Marked(i, w)[i].status = w
<1> DEFINE r == [steps[i] EXCEPT !.status = w]
<1>1. steps[i] \in Step
  OBVIOUS
<1>2. r \in Step /\ r.status = w
  BY <1>1 DEF Step
<1>3. Marked(i, w) = [steps EXCEPT ![i] = r]
  BY DEF Marked
<1> HIDE DEF r
<1>4. Marked(i, w)[i] = r
  BY <1>3
<1> QED
  BY <1>2, <1>3, <1>4, PlanSet

\* Appending a fix lengthens the plan by one, and the fix is pending.
LEMMA PlanAppend ==
  ASSUME NEW q \in Seq(Step), NEW r \in Step
  PROVE  /\ Append(q, r) \in Seq(Step)
         /\ Len(Append(q, r)) = Len(q) + 1
         /\ Append(q, r)[Len(q) + 1] = r
         /\ \A j \in DOMAIN q : Append(q, r)[j] = q[j]
  OBVIOUS

LEMMA FixIsStep ==
  ASSUME NEW at \in 0 .. MaxSteps, NEW why \in Outcomes, NEW v \in 0 .. MaxVerdicts
  PROVE  FixStep(at, why, v) \in Step /\ FixStep(at, why, v).status = "pending"
  BY DEF FixStep, Step, Outcomes

\* A claim starts one step or none: the plan keeps its length, no step is
\* ended and none that was over is started again.
LEMMA StartedPlan ==
  ASSUME TypeOK, NEW want \in {Task} \cup DOMAIN steps,
         want # Task => steps[want].status \in {"pending", "in_progress"}
  PROVE  /\ Started(want) \in Seq(Step)
         /\ Len(Started(want)) = Len(steps)
         /\ DOMAIN Started(want) = DOMAIN steps
         /\ StepsIn(Started(want), {"pending", "in_progress"}) = {} =>
                StepsIn(steps, {"pending", "in_progress"}) = {}
<1> DEFINE first == StepsIn(steps, {"pending"})
<1> DEFINE i == IF want # Task THEN want ELSE IF first = {} THEN Task ELSE Least(first)
<1>1. steps \in Seq(Step) /\ 0 \notin DOMAIN steps /\ DOMAIN steps \subseteq Nat
  BY DEF TypeOK
<1>2. first \in SUBSET Nat /\ first \subseteq DOMAIN steps
  BY <1>1 DEF StepsIn
<1>3. first # {} => Least(first) \in first
  BY <1>2, LeastIsMember
<1>4. i # Task => i \in DOMAIN steps /\ steps[i].status \in {"pending", "in_progress"}
  BY <1>2, <1>3 DEF StepsIn, Task
<1>5. Started(want) = IF i = Task THEN steps ELSE Marked(i, "in_progress")
  BY DEF Started
<1> HIDE DEF i
<1>6. CASE i = Task
  BY <1>1, <1>5, <1>6
<1>7. CASE i # Task
  <2>1. i \in DOMAIN steps /\ Started(want) = Marked(i, "in_progress")
    BY <1>4, <1>5, <1>7
  <2>2. /\ Started(want) \in Seq(Step)
        /\ Len(Started(want)) = Len(steps)
        /\ DOMAIN Started(want) = DOMAIN steps
        /\ Started(want)[i].status = "in_progress"
    BY <1>1, <2>1, MarkedPlan
  <2> QED
    BY <2>1, <2>2 DEF StepsIn
<1> QED
  BY <1>6, <1>7

\* Where a claim's assignment belongs is a step or the task.
LEMMA BusyPlace ==
  ASSUME NEW q \in Seq(Step), Len(q) <= MaxSteps
  PROVE  FirstBusy(q) \in 0 .. MaxSteps
<1> DEFINE busy == StepsIn(q, {"in_progress"})
<1>1. busy \in SUBSET Nat /\ busy \subseteq 1 .. MaxSteps
  BY TaskWorkAssumption DEF StepsIn
<1>2. busy # {} => Least(busy) \in busy
  BY <1>1, LeastIsMember
<1> HIDE DEF busy
<1>3. FirstBusy(q) = IF busy = {} THEN Task ELSE Least(busy)
  BY DEF FirstBusy, busy
<1>4. CASE busy = {}
  BY <1>3, <1>4, TaskWorkAssumption DEF Task
<1>5. CASE busy # {}
  <2>1. Least(busy) \in 1 .. MaxSteps
    BY <1>1, <1>2, <1>5
  <2>2. FirstBusy(q) = Least(busy)
    BY <1>3, <1>5
  <2> QED
    BY <2>1, <2>2, TaskWorkAssumption
<1> QED
  BY <1>4, <1>5

\* A report ends a step: the plan keeps its length.
LEMMA EndedPlan ==
  ASSUME TypeOK, NEW at \in DOMAIN steps, NEW good \in BOOLEAN
  PROVE  /\ Ended(at, good) \in Seq(Step)
         /\ Len(Ended(at, good)) = Len(steps)
<1>1. steps \in Seq(Step) /\ steps[at] \in Step
  BY DEF TypeOK
<1>2. CASE good
  BY <1>1, <1>2, MarkedPlan DEF Ended
<1>3. CASE ~ good
  <2>1. Failing(steps[at]) \in Step
    BY <1>1, TaskWorkAssumption DEF Failing, Step, Task, Outcomes
  <2>2. Ended(at, good) = [steps EXCEPT ![at] = Failing(steps[at])]
    BY <1>3 DEF Ended
  <2> QED
    BY <1>1, <2>1, <2>2, PlanSet
<1> QED
  BY <1>2, <1>3

-----------------------------------------------------------------------------
(* The queue *)

\* One role has one turn on a step.
Unique(q) == \A a, b \in q : a.step = b.step /\ a.role = b.role => a = b

\* Queueing keeps the types and the one turn, and the role has one then.
LEMMA QueuedKeeps ==
  ASSUME NEW q \in SUBSET Assignment, NEW at \in 0 .. MaxSteps, NEW role \in Roles
  PROVE  /\ Queued(q, at, role) \subseteq Assignment
         /\ q \subseteq Queued(q, at, role)
         /\ \E a \in Queued(q, at, role) : a.role = role
         /\ Unique(q) => Unique(Queued(q, at, role))
<1>1. /\ Turn(at, role) \in Assignment
      /\ Turn(at, role).role = role /\ Turn(at, role).step = at
  BY DEF Turn, Assignment
<1>2. CASE Current(q, at, role) # {}
  BY <1>2 DEF Queued, Current
<1>3. CASE Current(q, at, role) = {}
  <2>1. Queued(q, at, role) = q \cup {Turn(at, role)}
    BY <1>3 DEF Queued
  <2>2. \A a \in q : ~ (a.step = at /\ a.role = role)
    BY <1>3 DEF Current
  <2> QED
    BY <1>1, <2>1, <2>2 DEF Unique
<1> QED
  BY <1>2, <1>3

LEMMA UniqueSubset ==
  ASSUME NEW q, NEW p \in SUBSET q, Unique(q)
  PROVE  Unique(p)
  BY DEF Unique

\* Whatever a report or a handoff completes, turns of other roles stay.
LEMMA CompletedKeeps ==
  ASSUME NEW q, NEW at, NEW hit
  PROVE  /\ Completed(q, at, hit) \in SUBSET q
         /\ \A a \in q : a.role \notin hit => a \in Completed(q, at, hit)
  BY DEF Completed

\* The runtime roles have canonical ones.
LEMMA CanonRoles ==
  /\ \A s \in Sessions : RoleOf[s] \in Roles
  /\ {"executor", "reviewer", "adjudicator"} \subseteq Roles
  /\ Canon("reviewer") # "executor" /\ Canon("adjudicator") # "executor"
  BY TaskWorkAssumption DEF Roles, Canon

-----------------------------------------------------------------------------
(* The invariant *)

\* While nothing has emptied the queue, a plan without waiting steps has been
\* reported, and the turn of a reviewer or of an adjudicator is left from it.
TurnRemains ==
    StepsIn(steps, {"pending", "in_progress"}) = {} /\ ~ emptied =>
        \E a \in turns : Canon(a.role) # "executor"

\* A claim has been made on a task that is in progress: takeovers look there.
ClaimStarts == claim # NoClaim => status # "open"

Inv ==
    /\ TypeOK
    /\ ReviewMeansDone
    /\ Unique(turns)
    /\ TurnRemains
    /\ ClaimStarts

\* The initial plan has a waiting step, and its turn is the only one.
LEMMA InvInit == Init => Inv
<1> SUFFICES ASSUME Init PROVE Inv
  OBVIOUS
<1>1. PlanStep \in Step /\ PlanStep.status = "pending"
  BY TaskWorkAssumption DEF PlanStep, Step, Outcomes, Task
<1>2. steps \in Seq(Step) /\ Len(steps) = Planned
  BY <1>1, TaskWorkAssumption DEF Init
<1>3. Turn(1, "executor") \in Assignment
  BY TaskWorkAssumption DEF Turn, Assignment, Roles
<1>4. verdicts \in Seq(Verdict) /\ Len(verdicts) <= MaxVerdicts
  BY TaskWorkAssumption DEF Init
<1>9. Len(steps) \in Planned .. MaxSteps
  BY <1>2, TaskWorkAssumption
<1>5. TypeOK
  <2>1. turns \subseteq Assignment
    BY <1>3 DEF Init
  <2>2. /\ status \in TaskStatus /\ resolved \subseteq StepIds
        /\ claim \in Sessions \cup {NoClaim}
        /\ emptied \in BOOLEAN /\ fresh \subseteq Sessions
    BY DEF Init, TaskStatus
  <2> QED
    BY <1>2, <1>4, <1>9, <2>1, <2>2 DEF TypeOK
<1>6. 1 \in DOMAIN steps /\ steps[1].status = "pending"
  BY <1>1, TaskWorkAssumption DEF Init
<1>7. StepsIn(steps, {"pending", "in_progress"}) # {}
  BY <1>6 DEF StepsIn
<1> QED
  BY <1>5, <1>7 DEF Init, Inv, ReviewMeansDone, Unique, TurnRemains, ClaimStarts

-----------------------------------------------------------------------------
(* Claiming *)

LEMMA ClaimKeeps ==
  ASSUME Inv, NEW s \in Sessions, NEW want \in {Task} \cup DOMAIN steps, Claim(s, want)
  PROVE  Inv'
<1> DEFINE at == FirstBusy(Started(want))
<1> DEFINE there == Current(turns, at, RoleOf[s])
<1>0. TypeOK /\ Unique(turns) /\ TurnRemains
  BY DEF Inv
<1>1. /\ steps' = Started(want)
      /\ Started(want) \in Seq(Step)
      /\ Len(Started(want)) = Len(steps)
      /\ StepsIn(Started(want), {"pending", "in_progress"}) = {} =>
            StepsIn(steps, {"pending", "in_progress"}) = {}
  BY <1>0, StartedPlan DEF Claim, MayClaim
<1>2. at \in 0 .. MaxSteps
  <2>1. Len(Started(want)) <= MaxSteps
    BY <1>0, <1>1 DEF TypeOK
  <2> QED
    BY <1>1, <2>1, BusyPlace
<1>3. ASSUME NEW k \in 0 .. MaxSteps
      PROVE  /\ Held(s, k) \in Assignment
             /\ Held(s, k).step = k /\ Held(s, k).role = RoleOf[s]
  BY CanonRoles DEF Held, Assignment
<1>4. turns \subseteq Assignment
  BY <1>0 DEF TypeOK
<1> HIDE DEF at
<1>5. /\ turns' \subseteq Assignment
      /\ Unique(turns')
      /\ \A a \in turns : \E b \in turns' : b.role = a.role
  <2>1. CASE there = {} /\ turns' = turns \cup {Held(s, at)}
    <3>1. \A a \in turns : ~ (a.step = at /\ a.role = RoleOf[s])
      BY <2>1 DEF Current
    <3> QED
      BY <1>0, <1>2, <1>3, <1>4, <2>1, <3>1 DEF Unique
  <2>2. ASSUME NEW a \in there, turns' = (turns \ {a}) \cup {Held(s, a.step)}
        PROVE  /\ turns' \subseteq Assignment
               /\ Unique(turns')
               /\ \A b \in turns : \E d \in turns' : d.role = b.role
    <3>1. a \in turns /\ a.role = RoleOf[s] /\ a.step \in 0 .. MaxSteps
      BY <1>4 DEF Current, Assignment
    <3> DEFINE h == Held(s, a.step)
    <3>2. h \in Assignment /\ h.step = a.step /\ h.role = a.role
      BY <1>3, <3>1
    <3> HIDE DEF h
    <3>3. turns' = (turns \ {a}) \cup {h}
      BY <2>2 DEF h
    <3> QED
      BY <1>0, <1>4, <3>1, <3>2, <3>3 DEF Unique
  <2> QED
    BY <2>1, <2>2 DEF Claim, at
<1>6. TypeOK'
  BY <1>0, <1>1, <1>5 DEF Claim, TypeOK, TaskStatus
<1>7. ReviewMeansDone' /\ ClaimStarts'
  BY DEF Claim, ReviewMeansDone, ClaimStarts
<1>8. TurnRemains'
  <2> SUFFICES ASSUME StepsIn(steps', {"pending", "in_progress"}) = {}, ~ emptied'
               PROVE  \E a \in turns' : Canon(a.role) # "executor"
    BY DEF TurnRemains
  <2>1. PICK a \in turns : Canon(a.role) # "executor"
    BY <1>0, <1>1 DEF TurnRemains, Claim
  <2> QED
    BY <1>5, <2>1
<1> QED
  BY <1>5, <1>6, <1>7, <1>8 DEF Inv

LEMMA RecoveriesKeep ==
  ASSUME Inv,
         \/ ClaimRecover
         \/ \E h \in Sessions, target \in {"executor", "reviewer", "adjudicator"} :
                LeaseRecover(h, target)
  PROVE  Inv'
<1>0. TypeOK /\ ReviewMeansDone /\ Unique(turns) /\ ClaimStarts
  BY DEF Inv
<1>1. /\ turns' \in SUBSET turns
      /\ claim' \in {claim, NoClaim}
      /\ emptied' = TRUE
      /\ UNCHANGED <<status, plan, verdicts, fresh>>
  BY DEF ClaimRecover, LeaseRecover, Current
<1>2. TypeOK'
  BY <1>0, <1>1 DEF TypeOK, plan
<1>3. Unique(turns')
  BY <1>0, <1>1, UniqueSubset
<1>4. ReviewMeansDone'
  BY <1>0, <1>1 DEF ReviewMeansDone, plan, Finished, Unresolved, StepsIn
<1>5. TurnRemains' /\ ClaimStarts'
  BY <1>0, <1>1 DEF TurnRemains, ClaimStarts
<1> QED
  BY <1>2, <1>3, <1>4, <1>5 DEF Inv

\* Heartbeats, verdicts and what ends or reopens a task leave plan and queue.
LEMMA StatusKeeps ==
  ASSUME Inv,
         UNCHANGED <<plan, claim, turns, emptied>>,
         fresh' \subseteq Sessions,
         verdicts' \in Seq(Verdict), Len(verdicts') <= MaxVerdicts,
         status' = status \/ status' \in TaskStatus \ {"open", "review"}
  PROVE  Inv'
<1>0. TypeOK /\ ReviewMeansDone /\ Unique(turns) /\ TurnRemains /\ ClaimStarts
  BY DEF Inv
<1>1. TypeOK'
  BY <1>0 DEF TypeOK, plan
<1>2. ReviewMeansDone'
  BY <1>0 DEF ReviewMeansDone, plan, Finished, Unresolved, StepsIn, TaskStatus
<1>3. Unique(turns')
  BY <1>0
<1>4. TurnRemains'
  BY <1>0 DEF TurnRemains, plan, StepsIn
<1>5. ClaimStarts'
  BY <1>0 DEF ClaimStarts
<1> QED
  BY <1>1, <1>2, <1>3, <1>4, <1>5 DEF Inv

-----------------------------------------------------------------------------
(* Reporting *)

\* After a report of a step or of the task, the queue has a reviewer's turn.
LEMMA ReportedQueue ==
  ASSUME Inv, NEW s \in Sessions, NEW named \in BOOLEAN, NEW at \in 0 .. MaxSteps,
         NEW next \in 0 .. MaxSteps, NEW role \in {"reviewer", "executor"}
  PROVE  LET q == Queued(Over(s, at, named), next, role)
         IN  /\ q \subseteq Assignment
             /\ Unique(q)
             /\ role = "reviewer" => \E a \in q : Canon(a.role) # "executor"
<1> DEFINE left == Over(s, at, named)
<1>1. left \in SUBSET turns
  BY CompletedKeeps DEF Over
<1> HIDE DEF left
<1>2. left \in SUBSET Assignment /\ Unique(left)
  BY <1>1, UniqueSubset DEF Inv, TypeOK
<1>3. role \in Roles
  BY CanonRoles
<1>4. /\ Queued(left, next, role) \subseteq Assignment
      /\ Unique(Queued(left, next, role))
      /\ \E a \in Queued(left, next, role) : a.role = role
  BY <1>2, <1>3, QueuedKeeps
<1> QED
  BY <1>4, CanonRoles DEF left

LEMMA NextStatusMeans ==
  ASSUME NEW q, NEW solved
  PROVE  /\ NextStatus(q, solved) \in {"review", "in_progress"}
         /\ NextStatus(q, solved) = "review" => Finished(q, solved)
  BY DEF NextStatus

LEMMA StepPlace ==
  ASSUME TypeOK, NEW at \in DOMAIN steps
  PROVE  at \in 1 .. MaxSteps /\ at \in 0 .. MaxSteps
<1>1. at \in 1 .. Len(steps) /\ Len(steps) <= MaxSteps
  BY DEF TypeOK
<1> QED
  BY <1>1, TaskWorkAssumption DEF TypeOK

LEMMA ReportsKeep ==
  ASSUME Inv, NEW s \in Sessions, NEW named \in BOOLEAN,
         \/ ReportTask(s, named)
         \/ \E at \in DOMAIN steps : ReportDone(s, at, named) \/ ReportFailed(s, at, named)
  PROVE  Inv'
<1>0. TypeOK /\ ClaimStarts
  BY DEF Inv
<1>1. CASE ReportTask(s, named)
  <2>1. 0 \in 0 .. MaxSteps /\ "reviewer" \in {"reviewer", "executor"}
    BY TaskWorkAssumption
  <2>2. /\ turns' \subseteq Assignment
        /\ Unique(turns')
        /\ \E a \in turns' : Canon(a.role) # "executor"
    BY <1>1, <2>1, ReportedQueue DEF ReportTask, Task
  <2>3. /\ status' = NextStatus(steps, resolved)
        /\ UNCHANGED <<plan, claim, verdicts, emptied, fresh>>
    BY <1>1 DEF ReportTask
  <2>4. TypeOK'
    BY <1>0, <2>2, <2>3, NextStatusMeans DEF TypeOK, plan, TaskStatus
  <2>5. ReviewMeansDone' /\ ClaimStarts'
    BY <1>0, <2>3, NextStatusMeans
       DEF ReviewMeansDone, ClaimStarts, plan, Finished, Unresolved, StepsIn
  <2> QED
    BY <2>2, <2>4, <2>5 DEF Inv, TurnRemains
<1>2. ASSUME NEW at \in DOMAIN steps, ReportDone(s, at, named) PROVE Inv'
  <2>1. at \in 0 .. MaxSteps /\ "reviewer" \in {"reviewer", "executor"}
    BY <1>0, StepPlace
  <2>2. /\ turns' \subseteq Assignment
        /\ Unique(turns')
        /\ \E a \in turns' : Canon(a.role) # "executor"
    BY <1>2, <2>1, ReportedQueue DEF ReportDone
  <2>3. steps' \in Seq(Step) /\ Len(steps') = Len(steps)
    BY <1>0, <1>2, EndedPlan DEF ReportDone
  <2>4. /\ status' = NextStatus(steps', resolved')
        /\ UNCHANGED <<resolved, claim, verdicts, emptied, fresh>>
    BY <1>2 DEF ReportDone
  <2>5. TypeOK'
    BY <1>0, <2>2, <2>3, <2>4, NextStatusMeans DEF TypeOK, TaskStatus
  <2>6. status' = "review" => Finished(steps', resolved')
    BY <2>4, NextStatusMeans
  <2>7. ReviewMeansDone'
    BY <2>6 DEF ReviewMeansDone, Finished, Unresolved, StepsIn
  <2>8. ClaimStarts'
    BY <2>4, NextStatusMeans DEF ClaimStarts
  <2> QED
    BY <2>2, <2>5, <2>7, <2>8 DEF Inv, TurnRemains
<1>3. ASSUME NEW at \in DOMAIN steps, ReportFailed(s, at, named) PROVE Inv'
  <2>0. Len(steps) + 1 <= MaxSteps /\ Len(steps) \in Nat /\ Len(steps) >= Planned
    BY <1>0, <1>3, TaskWorkAssumption DEF ReportFailed, TypeOK
  <2>1. at \in 0 .. MaxSteps /\ Len(steps) + 1 \in 0 .. MaxSteps
    BY <1>0, <2>0, StepPlace, TaskWorkAssumption
  <2>2. turns' \subseteq Assignment /\ Unique(turns')
    BY <1>3, <2>1, ReportedQueue DEF ReportFailed
  <2> DEFINE fix == FixStep(at, "failed_step", 0)
  <2>3. fix \in Step /\ fix.status = "pending"
    BY <2>1, FixIsStep, TaskWorkAssumption DEF Outcomes
  <2>4. Ended(at, FALSE) \in Seq(Step) /\ Len(Ended(at, FALSE)) = Len(steps)
    BY <1>0, EndedPlan
  <2>5. /\ steps' = Append(Ended(at, FALSE), fix)
        /\ status' = "in_progress"
        /\ UNCHANGED <<resolved, claim, verdicts, emptied, fresh>>
    BY <1>3 DEF ReportFailed
  <2> HIDE DEF fix
  <2>6. /\ steps' \in Seq(Step) /\ Len(steps') = Len(steps) + 1
        /\ steps'[Len(steps) + 1].status = "pending"
    <3> DEFINE ended == Ended(at, FALSE)
    <3>1. ended \in Seq(Step) /\ Len(ended) = Len(steps) /\ steps' = Append(ended, fix)
      BY <2>4, <2>5
    <3> HIDE DEF ended
    <3>2. /\ Append(ended, fix) \in Seq(Step)
          /\ Len(Append(ended, fix)) = Len(ended) + 1
          /\ Append(ended, fix)[Len(ended) + 1] = fix
      BY <2>3, <3>1, PlanAppend
    <3> QED
      BY <2>3, <3>1, <3>2
  <2>7. Len(steps') \in Planned .. MaxSteps
    BY <2>0, <2>6, TaskWorkAssumption
  <2>8. TypeOK'
    BY <1>0, <2>2, <2>5, <2>6, <2>7 DEF TypeOK, TaskStatus
  <2>9. StepsIn(steps', {"pending", "in_progress"}) # {}
    BY <2>0, <2>6 DEF StepsIn
  <2> QED
    BY <2>2, <2>5, <2>8, <2>9 DEF Inv, ReviewMeansDone, ClaimStarts, TurnRemains
<1> QED
  BY <1>1, <1>2, <1>3

-----------------------------------------------------------------------------
(* Remediation *)

\* An appended fix waits: the task is not in review and the queue is free.
LEMMA AppendKeeps ==
  ASSUME Inv, NEW at \in 0 .. MaxSteps, NEW why \in Outcomes, NEW v \in 0 .. MaxVerdicts,
         AppendFix(at, why, v),
         turns' \subseteq Assignment, Unique(turns'),
         UNCHANGED <<claim, verdicts, emptied, fresh>>
  PROVE  Inv'
<1> DEFINE fix == FixStep(at, why, v)
<1>0. TypeOK
  BY DEF Inv
<1>1. fix \in Step /\ fix.status = "pending"
  BY FixIsStep
<1>2. /\ steps' = Append(steps, fix)
      /\ status' = "in_progress"
      /\ resolved' = resolved
  BY DEF AppendFix
<1>3. Len(steps) + 1 <= MaxSteps /\ Len(steps) \in Nat /\ Len(steps) >= Planned
  BY <1>0, TaskWorkAssumption DEF AppendFix, TypeOK
<1> HIDE DEF fix
<1>4. /\ steps' \in Seq(Step) /\ Len(steps') = Len(steps) + 1
      /\ steps'[Len(steps) + 1].status = "pending"
  BY <1>0, <1>1, <1>2, PlanAppend DEF TypeOK
<1>5. Len(steps') \in Planned .. MaxSteps
  BY <1>3, <1>4, TaskWorkAssumption
<1>6. TypeOK'
  BY <1>0, <1>2, <1>4, <1>5 DEF TypeOK, TaskStatus
<1>7. StepsIn(steps', {"pending", "in_progress"}) # {}
  BY <1>3, <1>4 DEF StepsIn
<1> QED
  BY <1>2, <1>6, <1>7 DEF Inv, ReviewMeansDone, ClaimStarts, TurnRemains

LEMMA VerdictPlace ==
  ASSUME TypeOK, NEW v \in DOMAIN verdicts
  PROVE  v \in 0 .. MaxVerdicts /\ verdicts[v] \in Verdict /\ verdicts[v].step \in 0 .. MaxSteps
<1>1. v \in 1 .. Len(verdicts) /\ Len(verdicts) <= MaxVerdicts /\ Len(verdicts) \in Nat
  BY DEF TypeOK
<1>2. verdicts[v] \in Verdict
  BY DEF TypeOK
<1>3. verdicts[v].step \in 1 .. MaxSteps
  BY <1>2 DEF Verdict, StepIds
<1> QED
  BY <1>1, <1>2, <1>3, TaskWorkAssumption

LEMMA RemediationsKeep ==
  ASSUME Inv, NEW s \in Sessions, NEW at \in DOMAIN steps,
         \/ RemediateFailed(s, at)
         \/ \E why \in Returned, v \in DOMAIN verdicts : RemediateVerdict(s, at, why, v)
         \/ \E i \in DOMAIN steps : StepResolve(s, at, i)
  PROVE  Inv'
<1>0. TypeOK /\ Unique(turns) /\ TurnRemains /\ turns \subseteq Assignment
  BY DEF Inv, TypeOK
<1>1. at \in 0 .. MaxSteps /\ at \in StepIds
  BY <1>0, StepPlace DEF StepIds
<1>2. CASE RemediateFailed(s, at)
  <2>1. /\ AppendFix(at, "failed_step", 0)
        /\ UNCHANGED <<claim, turns, verdicts, emptied, fresh>>
    BY <1>2 DEF RemediateFailed
  <2>2. "failed_step" \in Outcomes /\ 0 \in 0 .. MaxVerdicts
    BY TaskWorkAssumption DEF Outcomes
  <2>3. turns' \subseteq Assignment /\ Unique(turns')
    BY <1>0, <2>1
  <2> QED
    BY <1>1, <2>1, <2>2, <2>3, AppendKeeps
<1>3. ASSUME NEW why \in Returned, NEW v \in DOMAIN verdicts, RemediateVerdict(s, at, why, v)
      PROVE  Inv'
  <2>1. /\ AppendFix(at, why, v)
        /\ UNCHANGED <<claim, turns, verdicts, emptied, fresh>>
    BY <1>3 DEF RemediateVerdict
  <2>2. why \in Outcomes /\ v \in 0 .. MaxVerdicts
    BY <1>0, VerdictPlace DEF Outcomes, Returned
  <2>3. turns' \subseteq Assignment /\ Unique(turns')
    BY <1>0, <2>1
  <2> QED
    BY <1>1, <2>1, <2>2, <2>3, AppendKeeps
<1>4. ASSUME NEW i \in DOMAIN steps, StepResolve(s, at, i) PROVE Inv'
  <2>1. /\ resolved' = resolved \cup {at}
        /\ status' = NextStatus(steps, resolved')
        /\ UNCHANGED <<steps, claim, turns, verdicts, emptied, fresh>>
    BY <1>4 DEF StepResolve
  <2>2. TypeOK'
    BY <1>0, <1>1, <2>1, NextStatusMeans DEF TypeOK, TaskStatus
  <2>3. status' = "review" => Finished(steps', resolved')
    BY <2>1, NextStatusMeans
  <2>4. ReviewMeansDone'
    BY <2>3 DEF ReviewMeansDone, Finished, Unresolved, StepsIn
  <2>5. TurnRemains'
    BY <1>0, <2>1 DEF TurnRemains, StepsIn
  <2>6. ClaimStarts' /\ Unique(turns')
    BY <1>0, <2>1, NextStatusMeans DEF ClaimStarts
  <2> QED
    BY <2>2, <2>4, <2>5, <2>6 DEF Inv
<1> QED
  BY <1>2, <1>3, <1>4

-----------------------------------------------------------------------------
(* Review *)

\* What a handoff that sends nothing back leaves of the queue: a turn that is
\* not the executor's stays, unless an acceptance has ended it.
LEMMA HandOnKeeps ==
  ASSUME Inv, NEW s \in Sessions, NEW at \in DOMAIN steps,
         NEW next \in {"reviewer", "adjudicator", "user", "complete"}, HandOn(s, at, next),
         emptied' \in {emptied, TRUE},
         \/ next \in {"reviewer", "adjudicator"}
         \/ Canon(RoleOf[s]) = "executor"
         \/ emptied'
  PROVE  Inv'
<1> DEFINE left == Completed(turns, at, {Canon(RoleOf[s])})
<1>0. TypeOK /\ ReviewMeansDone /\ Unique(turns) /\ TurnRemains /\ ClaimStarts
  BY DEF Inv
<1>1. /\ left \in SUBSET turns
      /\ \A a \in turns : a.role # Canon(RoleOf[s]) => a \in left
  BY CompletedKeeps
<1>2. /\ turns' = IF next \in {"reviewer", "adjudicator"} THEN Queued(left, at, next) ELSE left
      /\ UNCHANGED <<status, plan, claim, verdicts, fresh>>
  BY DEF HandOn
<1>3. at \in 0 .. MaxSteps
  BY <1>0, StepPlace
<1> HIDE DEF left
<1>4. left \in SUBSET Assignment /\ Unique(left)
  BY <1>0, <1>1, UniqueSubset DEF TypeOK
<1>5. CASE next \in {"reviewer", "adjudicator"}
  <2>1. next \in Roles /\ Canon(next) # "executor"
    BY <1>5, CanonRoles
  <2>2. /\ turns' \subseteq Assignment /\ Unique(turns')
        /\ \E a \in turns' : a.role = next
    BY <1>2, <1>3, <1>4, <1>5, <2>1, QueuedKeeps
  <2>3. TypeOK'
    BY <1>0, <1>2, <2>2 DEF TypeOK, plan
  <2>4. ReviewMeansDone' /\ ClaimStarts'
    BY <1>0, <1>2 DEF ReviewMeansDone, ClaimStarts, plan, Finished, Unresolved, StepsIn
  <2> QED
    BY <2>1, <2>2, <2>3, <2>4 DEF Inv, TurnRemains
<1>6. CASE next \notin {"reviewer", "adjudicator"}
  <2>1. turns' = left
    BY <1>2, <1>6
  <2>2. TypeOK'
    BY <1>0, <1>2, <1>4, <2>1 DEF TypeOK, plan
  <2>3. ReviewMeansDone' /\ ClaimStarts'
    BY <1>0, <1>2 DEF ReviewMeansDone, ClaimStarts, plan, Finished, Unresolved, StepsIn
  <2>4. ASSUME ~ emptied', StepsIn(steps', {"pending", "in_progress"}) = {}
        PROVE  \E a \in turns' : Canon(a.role) # "executor"
    <3>5. emptied' = emptied
      BY <2>4, Zenon
    <3>6. ~ emptied
      BY <2>4, <3>5
    <3>7. Canon(RoleOf[s]) = "executor"
      BY <1>6, <2>4, Zenon
    <3>1. Canon(RoleOf[s]) = "executor" /\ ~ emptied
      BY <3>6, <3>7
    <3>2. StepsIn(steps, {"pending", "in_progress"}) = {}
      BY <1>2, <2>4 DEF StepsIn, plan
    <3>3. PICK a \in turns : Canon(a.role) # "executor"
      BY <1>0, <3>1, <3>2 DEF TurnRemains
    <3>4. a.role # "executor"
      BY <3>3 DEF Canon
    <3> QED
      BY <1>1, <2>1, <3>1, <3>3, <3>4
  <2> QED
    BY <1>4, <2>1, <2>2, <2>3, <2>4 DEF Inv, TurnRemains
<1> QED
  BY <1>5, <1>6

\* Work that is sent back leaves one turn: the fix's.
LEMMA SendBackKeeps ==
  ASSUME Inv, NEW s, NEW at \in 0 .. MaxSteps, NEW why \in Returned,
         NEW v \in DOMAIN verdicts, SendBack(s, at, why, v)
  PROVE  Inv'
<1>0. TypeOK
  BY DEF Inv
<1>1. /\ AppendFix(at, why, v)
      /\ turns' = {Turn(Len(steps'), "executor")}
      /\ UNCHANGED <<claim, verdicts, emptied, fresh>>
  BY DEF SendBack
<1>2. why \in Outcomes /\ v \in 0 .. MaxVerdicts
  BY <1>0, VerdictPlace DEF Outcomes, Returned
<1>3. Len(steps') \in 0 .. MaxSteps
  <2>1. FixStep(at, why, v) \in Step /\ Len(steps) < MaxSteps /\ steps \in Seq(Step)
    BY <1>0, <1>1, <1>2, FixIsStep DEF AppendFix, TypeOK
  <2>2. Len(steps') = Len(steps) + 1
    BY <1>1, <2>1, PlanAppend DEF AppendFix
  <2> QED
    BY <2>1, <2>2, TaskWorkAssumption
<1>4. Turn(Len(steps'), "executor") \in Assignment
  BY <1>3, CanonRoles DEF Turn, Assignment
<1>5. turns' \subseteq Assignment /\ Unique(turns')
  BY <1>1, <1>4 DEF Unique
<1> QED
  BY <1>1, <1>2, <1>5, AppendKeeps

LEMMA ReviewsKeep ==
  ASSUME Inv, Review
  PROVE  Inv'
<1>0. TypeOK
  BY DEF Inv
<1>1. ASSUME NEW s \in Sessions, NEW at \in DOMAIN steps, NEW overall \in {"pass", "block"},
             VerdictSubmit(s, at, overall)
      PROVE  Inv'
  <2> DEFINE verdict == [overall |-> overall, step |-> at, session |-> s]
  <2>1. verdict \in Verdict
    BY <1>0, StepPlace DEF Verdict, StepIds
  <2>2. /\ verdicts' = Append(verdicts, verdict) /\ Len(verdicts) < MaxVerdicts
        /\ UNCHANGED <<status, plan, claim, turns, emptied, fresh>>
    BY <1>1 DEF VerdictSubmit
  <2> HIDE DEF verdict
  <2>3. verdicts \in Seq(Verdict) /\ Len(verdicts) \in Nat
    BY <1>0 DEF TypeOK
  <2>4. verdicts' \in Seq(Verdict) /\ Len(verdicts') = Len(verdicts) + 1
    BY <2>1, <2>2, <2>3
  <2>5. Len(verdicts') <= MaxVerdicts /\ fresh' \subseteq Sessions
    BY <1>0, <2>2, <2>3, <2>4, TaskWorkAssumption DEF TypeOK
  <2> QED
    BY <2>2, <2>4, <2>5, StatusKeeps
<1>2. ASSUME NEW s \in Sessions, NEW at \in DOMAIN steps,
             \/ HandoffReady(s, at) \/ HandoffPass(s, at)
             \/ HandoffStuck(s, at) \/ HandoffAccepted(s, at)
      PROVE  Inv'
  <2>1. CASE HandoffReady(s, at)
    BY <2>1, HandOnKeeps DEF HandoffReady
  <2>2. CASE HandoffPass(s, at)
    BY <2>2, HandOnKeeps DEF HandoffPass
  <2>3. CASE HandoffStuck(s, at)
    BY <2>3, HandOnKeeps DEF HandoffStuck
  <2>4. CASE HandoffAccepted(s, at)
    BY <2>4, HandOnKeeps DEF HandoffAccepted
  <2> QED
    BY <1>2, <2>1, <2>2, <2>3, <2>4
<1>3. ASSUME NEW s \in Sessions, NEW at \in {Task} \cup DOMAIN steps, HandoffBlocked(s, at)
      PROVE  Inv'
  <2>1. PICK v \in DOMAIN verdicts : SendBack(s, at, "reviewer_blocked", v)
    BY <1>3 DEF HandoffBlocked, Latest, Given
  <2>2. at \in 0 .. MaxSteps
    BY <1>0, StepPlace, TaskWorkAssumption DEF Task
  <2> QED
    BY <2>1, <2>2, SendBackKeeps DEF Returned
<1>4. ASSUME NEW s \in Sessions, HandoffReturned(s) PROVE Inv'
  <2>1. PICK v \in DOMAIN verdicts : SendBack(s, verdicts[v].step, "adjudicator_returned", v)
    BY <1>4 DEF HandoffReturned, Latest, Given
  <2>2. verdicts[v].step \in 0 .. MaxSteps
    BY <1>0, VerdictPlace
  <2> QED
    BY <2>1, <2>2, SendBackKeeps DEF Returned
<1> QED
  BY <1>1, <1>2, <1>3, <1>4 DEF Review

-----------------------------------------------------------------------------
(* The end of the task, and the theorems *)

LEMMA EndingKeeps ==
  ASSUME Inv, Ending
  PROVE  Inv'
<1>0. TypeOK
  BY DEF Inv
<1>1. verdicts \in Seq(Verdict) /\ Len(verdicts) <= MaxVerdicts /\ fresh \subseteq Sessions
  BY <1>0 DEF TypeOK
<1>2. CASE Rollback \/ Reopen \/ \E s \in Sessions, waiver \in BOOLEAN : Apply(s, waiver)
  <2>1. /\ UNCHANGED <<plan, claim, turns, verdicts, emptied, fresh>>
        /\ status' \in TaskStatus \ {"open", "review"}
    BY <1>2 DEF Rollback, Reopen, Apply, TaskStatus
  <2> QED
    BY <1>1, <2>1, StatusKeeps
<1>3. ASSUME NEW s \in Sessions, NEW waiver \in BOOLEAN, Close(s, waiver) PROVE Inv'
  <2>1. /\ emptied' = TRUE /\ status' = "closed" /\ turns' = {}
        /\ UNCHANGED <<plan, claim, verdicts, fresh>>
    BY <1>3 DEF Close
  <2>2. TypeOK'
    BY <1>0, <2>1 DEF TypeOK, plan, TaskStatus
  <2> QED
    BY <2>1, <2>2 DEF Inv, ReviewMeansDone, Unique, TurnRemains, ClaimStarts
<1> QED
  BY <1>2, <1>3 DEF Ending

LEMMA InvStep == Inv /\ [Next]_vars => Inv'
<1> SUFFICES ASSUME Inv, [Next]_vars PROVE Inv'
  OBVIOUS
<1>0. verdicts \in Seq(Verdict) /\ Len(verdicts) <= MaxVerdicts /\ fresh \subseteq Sessions
  BY DEF Inv, TypeOK
<1>1. CASE UNCHANGED vars
  BY <1>0, <1>1, StatusKeeps DEF vars
<1>2. ASSUME NEW s \in Mortal, GoStale(s) \/ HeardAgain(s) PROVE Inv'
  <2>1. /\ fresh' \subseteq Sessions
        /\ UNCHANGED <<status, plan, claim, turns, verdicts, emptied>>
    BY <1>0, <1>2, TaskWorkAssumption DEF GoStale, HeardAgain
  <2> QED
    BY <1>0, <2>1, StatusKeeps
<1>3. CASE Claiming
  BY <1>2, <1>3, ClaimKeeps, RecoveriesKeep DEF Claiming
<1>4. CASE Reporting
  BY <1>4, ReportsKeep DEF Reporting
<1>5. CASE Remediation
  BY <1>5, RemediationsKeep DEF Remediation
<1> QED
  BY <1>1, <1>3, <1>4, <1>5, ReviewsKeep, EndingKeeps DEF Next

LEMMA InvHolds == Spec => []Inv
  BY InvInit, InvStep, PTL DEF Spec

\* Every variable keeps its type.
THEOREM TypeCorrect == Spec => []TypeOK
<1>1. Inv => TypeOK
  BY DEF Inv
<1> QED
  BY <1>1, InvHolds, PTL

\* A task in review has no step waiting and no failed step unresolved, for any
\* plan, any sessions and any order of the handlers of task_collab*.rs.
THEOREM ReviewDone == Spec => []ReviewMeansDone
<1>1. Inv => ReviewMeansDone
  BY DEF Inv
<1> QED
  BY <1>1, InvHolds, PTL

\* A role never has two turns on a step in the queue of assignment_queue.rs.
THEOREM OneTurn == Spec => []OneAssignee
<1>1. Inv => OneAssignee
  BY DEF Inv, Unique, OneAssignee
<1> QED
  BY <1>1, InvHolds, PTL

\* Until something has emptied its queue, a task in review is a reviewer's or
\* an adjudicator's to take up.
THEOREM ReviewHasTurn == Spec => []ReviewIsQueued
<1>1. Inv => ReviewIsQueued
  BY DEF Inv, TurnRemains, ReviewMeansDone, ReviewIsQueued, Finished
<1> QED
  BY <1>1, InvHolds, PTL

\* A session that is heard of keeps its claim: a claim of another session is a
\* takeover, since a claimed task is in progress, and that asks for its silence.
THEOREM FreshKeeps == Spec => OwnerKeepsClaim
<1>1. Inv /\ [Next]_vars => [(claim \in fresh) => (claim' = claim)]_vars
  <2> SUFFICES ASSUME Inv, Next, claim \in fresh PROVE claim' = claim
    OBVIOUS
  <2>1. claim # NoClaim /\ status # "open"
    BY TaskWorkAssumption DEF Inv, TypeOK, ClaimStarts
  <2>2. ASSUME NEW s \in Sessions, NEW want \in {Task} \cup DOMAIN steps, Claim(s, want)
        PROVE  claim' = claim
    BY <2>1, <2>2 DEF Claim, MayClaim, TakesOver, MayTakeOver
  <2>3. CASE ClaimRecover
    BY <2>3 DEF ClaimRecover
  <2>4. ASSUME NEW h \in Sessions, NEW target \in {"executor", "reviewer", "adjudicator"},
               LeaseRecover(h, target)
        PROVE  claim' = claim
    BY <2>4 DEF LeaseRecover
  <2>5. ASSUME NEW s \in Mortal, GoStale(s) \/ HeardAgain(s) PROVE claim' = claim
    BY <2>5 DEF GoStale, HeardAgain
  <2>6. CASE Reporting
    BY <2>6 DEF Reporting, ReportDone, ReportFailed, ReportTask
  <2>7. CASE Remediation
    BY <2>7 DEF Remediation, RemediateFailed, RemediateVerdict, StepResolve
  <2>8. CASE Review
    BY <2>8 DEF Review, VerdictSubmit, HandoffReady, HandoffPass, HandoffStuck, HandoffAccepted,
                HandoffBlocked, HandoffReturned, HandOn, SendBack
  <2>9. CASE Ending
    BY <2>9 DEF Ending, Apply, Close, Rollback, Reopen
  <2> QED
    BY <2>2, <2>3, <2>4, <2>5, <2>6, <2>7, <2>8, <2>9 DEF Next, Claiming
<1> QED
  BY <1>1, InvHolds, PTL DEF Spec, OwnerKeepsClaim
===============================================================================
