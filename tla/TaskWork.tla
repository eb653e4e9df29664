------------------------------- MODULE TaskWork -------------------------------
(***************************************************************************)
(* The work on one task: its steps, the claim on it, the assignments that  *)
(* say whose turn it is, and the verdicts.  One action per handler of      *)
(* task_collab*.rs, with the calls into assignment_queue.rs it makes, that *)
(* changes them.                                                           *)
(*                                                                         *)
(* A handler runs under one connection lock in one SQLite transaction, so  *)
(* it is one action, and one that is refused changes nothing.  A write     *)
(* that needs a lease is open to every session of the lease's role: the    *)
(* lease passes from one to the next (TaskLease).  A request repeated      *)
(* under its id is answered from a ledger or a cache, or is one more call. *)
(***************************************************************************)
EXTENDS Integers, Sequences, FiniteSets

CONSTANTS
    Sessions,     \* agent sessions that work on the task
    RoleOf,       \* the runtime role each session is registered with
    Owner,        \* the transport owner key of each session
    Creator,      \* the owner key that created the task
    NoClaim,      \* no claim on the task
    Mortal,       \* bound: the sessions that may fall silent
    Planned,      \* how many steps the task is created with
    MaxSteps,     \* bound: length of the task's plan, remediations included
    MaxVerdicts   \* bound: length of the verdict ledger

\* canonical_claim_role
Canon(role) ==
    CASE role \in {"executor", "planner", "implementer", "tester", "evidence"} -> "executor"
      [] role \in {"reviewer", "independent_reviewer"} -> "reviewer"
      [] OTHER -> role

Roles == {"executor", "planner", "implementer", "tester", "evidence",
          "reviewer", "independent_reviewer", "adjudicator"}

ASSUME TaskWorkAssumption ==
    /\ RoleOf \in [Sessions -> Roles]
    /\ DOMAIN Owner = Sessions
    /\ NoClaim \notin Sessions
    /\ Mortal \subseteq Sessions
    /\ Planned \in Nat \ {0} /\ MaxSteps \in Nat /\ Planned <= MaxSteps
    /\ MaxVerdicts \in Nat

StepIds == 1 .. MaxSteps
Task == 0          \* the place of a step id when a request or a row has none

TaskStatus == {"open", "in_progress", "review", "applied", "closed", "reverted"}

\* What a fix_defect step remembers in its result column: the step it mends,
\* what sent the work back, and the verdict that did.
Outcomes == {"none", "failed_step", "reviewer_blocked", "adjudicator_returned"}
Step == [fix : BOOLEAN, status : {"pending", "in_progress", "done", "failed"},
         of : 0 .. MaxSteps, outcome : Outcomes, verdict : 0 .. MaxVerdicts]

Assignment == [step : 0 .. MaxSteps, role : Roles, status : {"queued", "claimed"},
               holder : Sessions \cup {NoClaim}]

Verdict == [overall : {"pass", "block"}, step : StepIds, session : Sessions]

VARIABLES
    status,     \* tasks.status
    steps,      \* task_steps, in step_index order
    resolved,   \* the steps that have a step_resolved event
    claim,      \* the session of the last claim event, NoClaim once released
    turns,      \* the active assignments the events of the task project to
    verdicts,   \* task_verdict_events
    emptied,    \* an acceptance, a recovery or a close has taken the queue's turns
    fresh       \* the sessions whose heartbeat is inside the stale window

plan == <<steps, resolved>>
vars == <<status, plan, claim, turns, verdicts, emptied, fresh>>

TypeOK ==
    /\ status \in TaskStatus
    /\ steps \in Seq(Step) /\ Len(steps) \in Planned .. MaxSteps
    /\ resolved \subseteq StepIds
    /\ claim \in Sessions \cup {NoClaim}
    /\ turns \subseteq Assignment
    /\ verdicts \in Seq(Verdict) /\ Len(verdicts) <= MaxVerdicts
    /\ emptied \in BOOLEAN
    /\ fresh \subseteq Sessions

PlanStep == [fix |-> FALSE, status |-> "pending", of |-> Task,
             outcome |-> "none", verdict |-> 0]

Turn(at, role) == [step |-> at, role |-> role, status |-> "queued", holder |-> NoClaim]

\* A task.create queues its first step for the executor.
Init ==
    /\ status = "open"
    /\ steps = [i \in 1 .. Planned |-> PlanStep]
    /\ resolved = {}
    /\ claim = NoClaim
    /\ turns = {Turn(1, "executor")}
    /\ verdicts = <<>>
    /\ emptied = FALSE
    /\ fresh = Sessions

-----------------------------------------------------------------------------
(* The plan *)

Least(ids) == CHOOSE i \in ids : \A j \in ids : i <= j

StepsIn(plan1, states) == {i \in DOMAIN plan1 : plan1[i].status \in states}

Unresolved(plan1, solved) == StepsIn(plan1, {"failed"}) \ solved

\* No step is waiting and every failed one has been resolved.
Finished(plan1, solved) ==
    StepsIn(plan1, {"pending", "in_progress"}) = {} /\ Unresolved(plan1, solved) = {}

FixStep(at, why, v) == [fix |-> TRUE, status |-> "pending", of |-> at,
                        outcome |-> why, verdict |-> v]

Returned == {"reviewer_blocked", "adjudicator_returned"}

\* required_remediation_step: the fixes that go before every other step.
Required ==
    {i \in StepsIn(steps, {"pending", "in_progress"}) :
        /\ steps[i].fix
        /\ \/ steps[i].of \in Unresolved(steps, resolved)
           \/ steps[i].outcome \in Returned}

\* A fix that names no step is refused while a failed step is unresolved.
Traceable(i) == steps[i].of = Task => Unresolved(steps, resolved) = {}

\* The plan with step i in another state.
Marked(i, state) == [steps EXCEPT ![i].status = state]

-----------------------------------------------------------------------------
(* The queue: a projection of the assignment events of the task *)

\* current_assignment is the one of these with the latest event.  Heartbeats
\* are events too, so any of them may be it: the model leaves it open.
Current(q, at, role) == {a \in q : at \in {Task, a.step} /\ a.role = role}

\* A mutant: only a turn nobody has taken counts as there.
QueuedAgain(q, at, role) ==
    IF \E a \in Current(q, at, role) : a.status = "queued" THEN q
    ELSE q \cup {Turn(at, role)}

\* queue_assignment: an active one for the step and role is left as it is.
Queued(q, at, role) == IF Current(q, at, role) # {} THEN q ELSE q \cup {Turn(at, role)}

\* A mutant: the roles are not looked at.
CompletedStep(q, at, hit) == {a \in q : at \notin {Task, a.step}}

\* complete_assignments of one step, or of all; of some roles.
Completed(q, at, hit) == {a \in q : ~ (at \in {Task, a.step} /\ a.role \in hit)}

-----------------------------------------------------------------------------
(* Claiming *)

\* The claim of another session is taken over when its owner was not heard of
\* for the stale window and the roles are the same.
TakesOver(s) ==
    /\ claim # NoClaim /\ claim # s
    /\ status = "in_progress"

\* A mutant: the owner's heartbeat is not read.
TakesAnyOver(s) == Canon(RoleOf[claim]) = Canon(RoleOf[s])

MayTakeOver(s) == claim \notin fresh /\ Canon(RoleOf[claim]) = Canon(RoleOf[s])

\* A mutant: the step gets the word the assignment has.
StartedClaimed(want) ==
    LET first == StepsIn(steps, {"pending"})
    IN  IF first = {} THEN steps ELSE Marked(Least(first), "claimed")

\* The step a claim starts: the one that was asked for, or the first pending.
Started(want) ==
    LET first == StepsIn(steps, {"pending"})
        i == IF want # Task THEN want ELSE IF first = {} THEN Task ELSE Least(first)
    IN  IF i = Task THEN steps ELSE Marked(i, "in_progress")

\* Where a claim's assignment belongs: the first step in progress.
FirstBusy(plan1) ==
    LET busy == StepsIn(plan1, {"in_progress"})
    IN  IF busy = {} THEN Task ELSE Least(busy)

\* What a claim with remediation_step_id = want is let through with.
MayClaim(s, want) ==
    /\ status \in {"open", "in_progress"}
    /\ Required # {} => want = Least(Required) /\ Traceable(want)
    /\ want # Task => steps[want].status \in {"pending", "in_progress"}
    /\ TakesOver(s) => MayTakeOver(s)

\* claim_assignment of assignment a: not out of the hands of another session,
\* unless its claim is taken over.
MayHold(s, a) == a.status = "queued" \/ a.holder = s \/ TakesOver(s)

Held(s, at) == [step |-> at, role |-> RoleOf[s], status |-> "claimed", holder |-> s]

Claim(s, want) ==
    /\ MayClaim(s, want)
    /\ LET at == FirstBusy(Started(want))
           there == Current(turns, at, RoleOf[s])
       IN  \/ /\ there = {}
              /\ turns' = turns \cup {Held(s, at)}
           \/ \E a \in there :
                /\ MayHold(s, a)
                /\ turns' = (turns \ {a}) \cup {Held(s, a.step)}
    /\ steps' = Started(want)
    /\ status' = "in_progress"
    /\ claim' = s
    /\ UNCHANGED <<resolved, verdicts, emptied, fresh>>

\* task.claim.recover by an adjudicator: every assignment is completed.
ClaimRecover ==
    /\ status \in {"open", "in_progress"}
    /\ claim \notin fresh \cup {NoClaim}
    /\ claim' = NoClaim
    /\ turns' = {}
    /\ emptied' = TRUE
    /\ UNCHANGED <<status, plan, verdicts, fresh>>

\* lease.recover of the lease h holds: the claim goes with it when h made it
\* under the target role, and the role's latest assignment becomes stale.
LeaseRecover(h, target) ==
    /\ h \notin fresh
    /\ Canon(RoleOf[h]) = target
    /\ claim' = IF /\ claim = h
                   /\ \/ RoleOf[h] = target
                      \/ target = "executor" /\ RoleOf[h] = "implementer"
                THEN NoClaim ELSE claim
    /\ LET there == Current(turns, Task, target)
       IN  \/ there = {} /\ UNCHANGED turns
           \/ \E a \in there : turns' = turns \ {a}
    /\ emptied' = TRUE
    /\ UNCHANGED <<status, plan, verdicts, fresh>>

\* A session is not heard of for the stale window; it may still act.
GoStale(s) ==
    /\ fresh' = fresh \ {s}
    /\ UNCHANGED <<status, plan, claim, turns, verdicts, emptied>>

HeardAgain(s) ==
    /\ fresh' = fresh \cup {s}
    /\ UNCHANGED <<status, plan, claim, turns, verdicts, emptied>>

-----------------------------------------------------------------------------
(* Reporting *)

\* Another owner may only report on a task nobody claimed.
MayReport(s) == claim # NoClaim => Owner[claim] = Owner[s] \/ claim = s

\* A mutant: a step in progress does not count as unfinished.
NextStatusPending(plan1, solved) ==
    IF StepsIn(plan1, {"pending"}) \cup Unresolved(plan1, solved) = {} THEN "review"
    ELSE "in_progress"

NextStatus(plan1, solved) == IF Finished(plan1, solved) THEN "review" ELSE "in_progress"

\* A fix keeps what it remembers when it is done and loses it when it fails.
Failing(step) == [fix |-> step.fix, status |-> "failed", of |-> Task,
                  outcome |-> "none", verdict |-> 0]

Ended(at, good) ==
    IF good THEN Marked(at, "done")
    ELSE [steps EXCEPT ![at] = Failing(steps[at])]

\* complete_assignments of what was reported: the reporter's turn, or with no
\* identity in the request (named = FALSE) every role's.
Over(s, at, named) == Completed(turns, at, IF named THEN {RoleOf[s]} ELSE Roles)

\* A step is reported done, whatever it was: its review is queued.
ReportDone(s, at, named) ==
    /\ MayReport(s)
    /\ steps' = Ended(at, TRUE)
    /\ status' = NextStatus(steps', resolved)
    /\ turns' = Queued(Over(s, at, named), at, "reviewer")
    /\ UNCHANGED <<resolved, claim, verdicts, emptied, fresh>>

\* A step is reported failed: a fix for it is appended and queued.
ReportFailed(s, at, named) ==
    /\ MayReport(s)
    /\ Len(steps) < MaxSteps
    /\ steps' = Append(Ended(at, FALSE), FixStep(at, "failed_step", 0))
    /\ status' = "in_progress"
    /\ turns' = Queued(Over(s, at, named), Len(steps) + 1, "executor")
    /\ UNCHANGED <<resolved, claim, verdicts, emptied, fresh>>

\* A report of the task as a whole.
ReportTask(s, named) ==
    /\ MayReport(s)
    /\ status' = NextStatus(steps, resolved)
    /\ turns' = Queued(Over(s, Task, named), Task, "reviewer")
    /\ UNCHANGED <<plan, claim, verdicts, emptied, fresh>>

-----------------------------------------------------------------------------
(* Remediation *)

\* The fix is appended; nothing is queued for it.
AppendFix(at, why, v) ==
    /\ Len(steps) < MaxSteps
    /\ steps' = Append(steps, FixStep(at, why, v))
    /\ status' = "in_progress"
    /\ UNCHANGED resolved

\* task.remediation_create for a failed step.
RemediateFailed(s, at) ==
    /\ Canon(RoleOf[s]) = "executor"
    /\ steps[at].status = "failed"
    /\ ~ \E i \in DOMAIN steps :
            steps[i].fix /\ steps[i].of = at /\ steps[i].outcome = "failed_step"
    /\ AppendFix(at, "failed_step", 0)
    /\ UNCHANGED <<claim, turns, verdicts, emptied, fresh>>

\* A verdict already answered by a fix that still remembers it.
Answered(v) == \E i \in DOMAIN steps : steps[i].fix /\ steps[i].verdict = v

Overall(why) == IF why = "reviewer_blocked" THEN "block" ELSE "pass"

\* task.remediation_create for a verdict, against any step.
RemediateVerdict(s, at, why, v) ==
    /\ Canon(RoleOf[s]) = "executor"
    /\ status = "review"
    /\ verdicts[v].overall = Overall(why)
    /\ ~ Answered(v)
    /\ AppendFix(at, why, v)
    /\ UNCHANGED <<claim, turns, verdicts, emptied, fresh>>

\* task.step_resolve: whatever the status of the task was.
StepResolve(s, at, i) ==
    /\ Canon(RoleOf[s]) = "executor"
    /\ steps[at].status = "failed"
    /\ steps[i].fix /\ steps[i].status = "done" /\ steps[i].of = at
    /\ resolved' = resolved \cup {at}
    /\ status' = NextStatus(steps, resolved')
    /\ UNCHANGED <<steps, claim, turns, verdicts, emptied, fresh>>

-----------------------------------------------------------------------------
(* Review *)

\* verdict.submit
VerdictSubmit(s, at, overall) ==
    /\ Canon(RoleOf[s]) = "reviewer"
    /\ status = "review"
    /\ Len(verdicts) < MaxVerdicts
    /\ verdicts' = Append(verdicts, [overall |-> overall, step |-> at, session |-> s])
    /\ UNCHANGED <<status, plan, claim, turns, emptied, fresh>>

Given(overall) == {v \in DOMAIN verdicts : verdicts[v].overall = overall}
Latest(overall) == {v \in Given(overall) : \A w \in Given(overall) : w <= v}

\* The creator and the claim's owner may hand over the task.
MayHandOff(s) == Owner[s] = Creator \/ (claim # NoClaim /\ Owner[claim] = Owner[s])

\* A handoff that sends nothing back: the role's own turn on the step ends and
\* the next role's, if there is one, begins.
HandOn(s, at, next) ==
    LET left == Completed(turns, at, {Canon(RoleOf[s])})
    IN  /\ MayHandOff(s)
        /\ turns' = IF next \in {"reviewer", "adjudicator"} THEN Queued(left, at, next) ELSE left
        /\ UNCHANGED <<status, plan, claim, verdicts, fresh>>

\* executor_ready_for_review, of a step that was reported; the status of the
\* task is not looked at.
HandoffReady(s, at) ==
    /\ Canon(RoleOf[s]) = "executor"
    /\ steps[at].status \in {"done", "failed"}
    /\ HandOn(s, at, "reviewer")
    /\ UNCHANGED emptied

\* executor_blocked_to_user
HandoffStuck(s, at) ==
    /\ Canon(RoleOf[s]) = "executor"
    /\ HandOn(s, at, "user")
    /\ UNCHANGED emptied

\* adjudicator_accepted
HandoffAccepted(s, at) ==
    /\ Canon(RoleOf[s]) = "adjudicator"
    /\ HandOn(s, at, "complete")
    /\ emptied' = TRUE

\* reviewer_pass: by the session whose pass verdict is the latest.
HandoffPass(s, at) ==
    /\ Canon(RoleOf[s]) = "reviewer"
    /\ status = "review"
    /\ \E v \in Latest("pass") : verdicts[v].step = at /\ verdicts[v].session = s
    /\ HandOn(s, at, "adjudicator")
    /\ UNCHANGED emptied

\* The work goes back: every assignment ends, and the fix is queued.
SendBack(s, at, why, v) ==
    /\ MayHandOff(s)
    /\ status = "review"
    /\ ~ Answered(v)
    /\ AppendFix(at, why, v)
    /\ turns' = {Turn(Len(steps'), "executor")}
    /\ UNCHANGED <<claim, verdicts, emptied, fresh>>

\* reviewer_blocked, of the verdict's step or of the task as a whole.
HandoffBlocked(s, at) ==
    /\ Canon(RoleOf[s]) = "reviewer"
    /\ \E v \in Latest("block") :
        /\ verdicts[v].session = s
        /\ at \in {Task, verdicts[v].step}
        /\ SendBack(s, at, "reviewer_blocked", v)

\* adjudicator_returned
HandoffReturned(s) ==
    /\ Canon(RoleOf[s]) = "adjudicator"
    /\ \E v \in Latest("pass") : SendBack(s, verdicts[v].step, "adjudicator_returned", v)

-----------------------------------------------------------------------------
(* The end of the task *)

\* require_verdict_or_waiver: only a task in review is asked for a verdict; a
\* waiver is written down when it is used.
WaiverNeeded == status = "review" /\ Given("pass") = {}

Apply(s, waiver) ==
    /\ Canon(RoleOf[s]) = "reviewer"
    /\ WaiverNeeded => waiver
    /\ status' = "applied"
    /\ UNCHANGED <<plan, claim, turns, verdicts, emptied, fresh>>

\* A task without subtasks: no step may be pending, none failed unresolved.
Close(s, waiver) ==
    /\ Canon(RoleOf[s]) = "reviewer"
    /\ StepsIn(steps, {"pending"}) = {}
    /\ Unresolved(steps, resolved) = {}
    /\ WaiverNeeded => waiver
    /\ emptied' = TRUE
    /\ status' = "closed"
    /\ turns' = {}
    /\ UNCHANGED <<plan, claim, verdicts, fresh>>

Rollback ==
    /\ status' = "reverted"
    /\ UNCHANGED <<plan, claim, turns, verdicts, emptied, fresh>>

Reopen ==
    /\ status' = "in_progress"
    /\ UNCHANGED <<plan, claim, turns, verdicts, emptied, fresh>>

-----------------------------------------------------------------------------

Claiming ==
    \/ \E s \in Sessions, want \in {Task} \cup DOMAIN steps : Claim(s, want)
    \/ ClaimRecover
    \/ \E h \in Sessions, target \in {"executor", "reviewer", "adjudicator"} :
            LeaseRecover(h, target)
    \/ \E s \in Mortal : GoStale(s) \/ HeardAgain(s)

Reporting ==
    \E s \in Sessions, named \in BOOLEAN :
        \/ \E at \in DOMAIN steps : ReportDone(s, at, named) \/ ReportFailed(s, at, named)
        \/ ReportTask(s, named)

Remediation ==
    \E s \in Sessions, at \in DOMAIN steps :
        \/ RemediateFailed(s, at)
        \/ \E why \in Returned, v \in DOMAIN verdicts : RemediateVerdict(s, at, why, v)
        \/ \E i \in DOMAIN steps : StepResolve(s, at, i)

Review ==
    \E s \in Sessions :
        \/ \E at \in DOMAIN steps :
            \/ \E overall \in {"pass", "block"} : VerdictSubmit(s, at, overall)
            \/ HandoffReady(s, at) \/ HandoffPass(s, at)
            \/ HandoffStuck(s, at) \/ HandoffAccepted(s, at)
        \/ \E at \in {Task} \cup DOMAIN steps : HandoffBlocked(s, at)
        \/ HandoffReturned(s)

Ending ==
    \/ \E s \in Sessions, waiver \in BOOLEAN : Apply(s, waiver) \/ Close(s, waiver)
    \/ Rollback \/ Reopen

Next == Claiming \/ Reporting \/ Remediation \/ Review \/ Ending

Spec == Init /\ [][Next]_vars

-----------------------------------------------------------------------------
(* Properties *)

\* A task is in review only when no step waits and every failed step has been
\* resolved, whichever of report, claim, remediation, resolution and handoff
\* moved it last: a reviewer never judges unfinished work.
ReviewMeansDone == status = "review" => Finished(steps, resolved)

\* However often a step is queued, claimed, taken over and handed on, one role
\* has one turn on it (assignment_queue.rs): nobody is sent to work that
\* another session of the role was sent to.
OneAssignee ==
    \A a, b \in turns : a.step = b.step /\ a.role = b.role => a = b

\* A task in review is somebody's to judge: a turn of the reviewer or of the
\* adjudicator stays in the queue through every order of reports, resolutions,
\* handoffs and claims.  Only an acceptance, a recovery or a close has ever
\* emptied it.
ReviewIsQueued ==
    status = "review" /\ ~ emptied =>
        \E a \in turns : Canon(a.role) # "executor"

\* A session that is still heard of never loses its claim: neither another
\* claim nor a recovery takes it while its heartbeat is fresh.
OwnerKeepsClaim ==
    [][(claim \in fresh) => (claim' = claim)]_vars

\* A failed step stays as it failed: what mends it is told by a resolution,
\* never by a later report of the step (task_collab_shared.rs).  The code does
\* not keep this and no run holds it: handle_task_report looks at no step's
\* status (README, Observations).
FailedStays ==
    [][\A i \in DOMAIN steps : steps[i].status = "failed" => steps'[i].status = "failed"]_vars
=============================================================================
