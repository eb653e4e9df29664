------------------------------- MODULE TaskTree -------------------------------
(***************************************************************************)
(* The tree of tasks and what may be closed in it: subtasks are created    *)
(* under a task, a leaf closes when its steps are settled, an inner task   *)
(* when its children are closed, and task.cascade_close closes a task and  *)
(* then its ancestors as far as it gets.  task.supersede relates a task to *)
(* the one that takes over its scope; a superseded leaf is closed with its *)
(* steps unsettled.                                                        *)
(*                                                                         *)
(* What happens inside one task is TaskWork; here it is one action that    *)
(* leaves the task live with its steps settled or not.  The lease, the     *)
(* identities and the verdict gate of task.close are left out: they refuse *)
(* a call and change nothing.                                              *)
(***************************************************************************)
EXTENDS Integers, Sequences, FiniteSets

CONSTANTS
    Tasks,      \* the ids tasks are created with (bound: how many there can be)
    NoTask,     \* the parent of a root
    Callers     \* coordinators that call task.cascade_close

ASSUME TaskTreeAssumption == NoTask \notin Tasks /\ IsFiniteSet(Tasks)

VARIABLES
    parent,       \* tasks.parent_id
    status,       \* tasks.status: "closed", or "live" for every other one
    steps,        \* the task has no steps, unsettled ones, or only settled ones
    superseded,   \* task_supersede_relations: pairs <<old, new>>
    chain,        \* per caller, the ancestors its cascade has collected
    failed        \* history: the last call was answered with an error that rolled it back

vars == <<parent, status, steps, superseded, chain, failed>>

StepStates == {"none", "unsettled", "settled"}

TypeOK ==
    /\ parent \in [Tasks -> Tasks \cup {NoTask}]
    /\ status \in [Tasks -> {"absent", "live", "closed"}]
    /\ steps \in [Tasks -> StepStates]
    /\ superseded \subseteq Tasks \X Tasks
    /\ chain \in [Callers -> Seq(Tasks)]
    /\ failed \in BOOLEAN

Init ==
    /\ parent = [t \in Tasks |-> NoTask]
    /\ status = [t \in Tasks |-> "absent"]
    /\ steps = [t \in Tasks |-> "none"]
    /\ superseded = {}
    /\ chain = [c \in Callers |-> <<>>]
    /\ failed = FALSE

Exists(t) == status[t] # "absent"
Children(t) == {c \in Tasks : Exists(c) /\ parent[c] = t}

-----------------------------------------------------------------------------
(* Growing the tree *)

\* task.create and task.create_subtask make one task, task.split several under
\* one parent.  The parent only has to exist: it may be closed.
Create(new, p, with) ==
    /\ new # {} /\ \A t \in new : ~ Exists(t)
    /\ p # NoTask => Exists(p)
    /\ parent' = [t \in Tasks |-> IF t \in new THEN p ELSE parent[t]]
    /\ status' = [t \in Tasks |-> IF t \in new THEN "live" ELSE status[t]]
    /\ steps' = [t \in Tasks |-> IF t \in new THEN with ELSE steps[t]]
    /\ failed' = FALSE
    /\ UNCHANGED <<superseded, chain>>

\* A mutant: the word of the steps' own states.
WorkPending(t, left) ==
    /\ Exists(t) /\ steps[t] # "none"
    /\ status' = [status EXCEPT ![t] = "live"]
    /\ steps' = [steps EXCEPT ![t] = "pending"]
    /\ failed' = FALSE
    /\ UNCHANGED <<parent, superseded, chain>>

\* A report, a resolution or a remediation in the task, whatever its status
\* was; claims and reviews are among the ones that leave it live.
Work(t, left) ==
    /\ Exists(t) /\ steps[t] # "none"
    /\ status' = [status EXCEPT ![t] = "live"]
    /\ steps' = [steps EXCEPT ![t] = left]
    /\ failed' = FALSE
    /\ UNCHANGED <<parent, superseded, chain>>

\* task.reopen and task.rollback look at nothing but the task's row.
Reopen(t) ==
    /\ Exists(t)
    /\ status' = [status EXCEPT ![t] = "live"]
    /\ failed' = FALSE
    /\ UNCHANGED <<parent, steps, superseded, chain>>

-----------------------------------------------------------------------------
(* Closing *)

\* S1: no child that is not closed.  done: what the cascade has closed so far.
ChildrenClosed(t, done) == \A c \in Children(t) : status[c] = "closed" \/ c \in done

\* task.close of one task.
Close(t) ==
    /\ Exists(t)
    /\ IF Children(t) # {} THEN ChildrenClosed(t, {}) ELSE steps[t] = "settled"
    /\ status' = [status EXCEPT ![t] = "closed"]
    /\ failed' = FALSE
    /\ UNCHANGED <<parent, steps, superseded, chain>>

IsSuperseded(t) == \E new \in Tasks : <<t, new>> \in superseded

\* A task and its ancestors, from the task to the root.
Ancestry(t, path) ==
    /\ path[1] = t
    /\ \A i \in DOMAIN path :
        parent[path[i]] = IF i + 1 \in DOMAIN path THEN path[i + 1] ELSE NoTask

\* task.cascade_close, first half: the ancestry is read under the connection
\* lock, which is then given up.
Collect(c, t) ==
    /\ Exists(t)
    /\ chain[c] = <<>>
    /\ \E n \in 1 .. Cardinality(Tasks) : \E path \in [1 .. n -> Tasks] :
        /\ Ancestry(t, path)
        /\ chain' = [chain EXCEPT ![c] = path]
    /\ failed' = FALSE
    /\ UNCHANGED <<parent, status, steps, superseded>>

\* A mutant: any relation of the task waives its steps.
PassesRelated(c, i) ==
    LET t == chain[c][i]
    IN  \/ status[t] = "closed"
        \/ Children(t) # {} /\ ChildrenClosed(t, {chain[c][j] : j \in 1 .. i - 1})
        \/ Children(t) = {} /\ (steps[t] # "unsettled" \/ \E p \in superseded : t \in {p[1], p[2]})

\* A mutant: what the cascade closed on its way does not count.
PassesAsRead(c, i) ==
    LET t == chain[c][i]
    IN  \/ status[t] = "closed"
        \/ Children(t) # {} /\ ChildrenClosed(t, {})
        \/ Children(t) = {} /\ (steps[t] # "unsettled" \/ IsSuperseded(t))

\* Whether the cascade gets past node i of its chain, having closed the ones
\* below: a closed node is skipped, a leaf without steps closes, and so does a
\* superseded leaf with unsettled ones.
Passes(c, i) ==
    LET t == chain[c][i]
        below == {chain[c][j] : j \in 1 .. i - 1}
    IN  \/ status[t] = "closed"
        \/ Children(t) # {} /\ ChildrenClosed(t, below)
        \/ Children(t) = {} /\ (steps[t] # "unsettled" \/ IsSuperseded(t))

\* A mutant: the cascade goes on past a node it cannot close.
ClearedOnward(c) == {chain[c][i] : i \in {k \in DOMAIN chain[c] : Passes(c, k)}}

\* The nodes before the first one it does not get past.
Cleared(c) ==
    {chain[c][i] : i \in {k \in DOMAIN chain[c] : \A j \in 1 .. k : Passes(c, j)}}

\* Second half: one transaction over the whole chain.
Cascade(c) ==
    /\ chain[c] # <<>>
    /\ status' = [t \in Tasks |-> IF t \in Cleared(c) THEN "closed" ELSE status[t]]
    /\ chain' = [chain EXCEPT ![c] = <<>>]
    /\ failed' = FALSE
    /\ UNCHANGED <<parent, steps, superseded>>

\* A node that is about to be closed gets a contract first when it has none; a
\* revision that is refused, or a write that fails, rolls the whole cascade back.
Abort(c) ==
    /\ \E t \in Cleared(c) : status[t] # "closed"
    /\ chain' = [chain EXCEPT ![c] = <<>>]
    /\ failed' = TRUE
    /\ UNCHANGED <<parent, status, steps, superseded>>

-----------------------------------------------------------------------------
(* Superseding *)

\* A mutant: one relation of each task is followed, whichever comes first.
ReachesFirst(new, old) ==
    \A seen \in SUBSET Tasks :
        /\ new \in seen
        /\ \A t \in seen : IsSuperseded(t) => (CHOOSE n \in Tasks : <<t, n>> \in superseded) \in seen
        => old \in seen

\* creates_cycle: the search from new along every relation, to old.  A set the
\* search has visited is closed under the relations; old is reached when every
\* such set holds it.
Reaches(new, old) ==
    \A seen \in SUBSET Tasks :
        new \in seen /\ (\A p \in superseded : p[1] \in seen => p[2] \in seen)
            => old \in seen

\* task.supersede writes the relation and touches neither task.
Supersede(old, new) ==
    /\ Exists(old) /\ Exists(new)
    /\ old # new
    /\ <<old, new>> \notin superseded
    /\ ~ Reaches(new, old)
    /\ superseded' = superseded \cup {<<old, new>>}
    /\ failed' = FALSE
    /\ UNCHANGED <<parent, status, steps, chain>>

-----------------------------------------------------------------------------

Next ==
    \/ \E new \in SUBSET Tasks, p \in Tasks \cup {NoTask}, with \in StepStates :
            Create(new, p, with)
    \/ \E t \in Tasks : \E left \in {"unsettled", "settled"} : Work(t, left)
    \/ \E t \in Tasks : Reopen(t) \/ Close(t)
    \/ \E c \in Callers : Cascade(c) \/ Abort(c) \/ \E t \in Tasks : Collect(c, t)
    \/ \E old, new \in Tasks : Supersede(old, new)

Spec == Init /\ [][Next]_vars

-----------------------------------------------------------------------------
(* Properties *)

\* Whichever call closes a task, and whatever happened to the tree between the
\* two halves of a cascade, it closes over children that are all closed.
ClosesOverClosed ==
    [][\A t \in Tasks : status[t] # "closed" /\ status'[t] = "closed" =>
            \A c \in Children(t) : status'[c] = "closed"]_vars

\* A leaf is closed over unsettled steps only when another task has taken over
\* its scope (task_collab_lifecycle_apply.rs, cascade_close).
LeavesNothingBehind ==
    [][\A t \in Tasks :
            /\ status[t] # "closed" /\ status'[t] = "closed"
            /\ Children(t) = {} /\ steps[t] = "unsettled"
            => IsSuperseded(t)]_vars

\* A cascade that is not rolled back stops for a cause: the lowest task it leaves open has a child that
\* is not closed, or is a leaf with unsettled steps that nothing superseded.
StopsForCause ==
    [][\A c \in Callers : chain[c] # <<>> /\ chain'[c] = <<>> /\ ~ failed' =>
        \A i \in DOMAIN chain[c] :
            LET t == chain[c][i]
            IN  /\ status'[t] # "closed"
                /\ \A j \in 1 .. i - 1 : status'[chain[c][j]] = "closed"
                => \/ \E child \in Children(t) : status'[child] # "closed"
                   \/ Children(t) = {} /\ steps[t] = "unsettled" /\ ~ IsSuperseded(t)]_vars

\* No task is, through others, superseded by itself: following the successors
\* of a task ends at one that nobody took over.
NoCircle ==
    \A t \in Tasks : \E seen \in SUBSET Tasks :
        /\ t \notin seen
        /\ \A p \in superseded : p[1] \in seen \cup {t} => p[2] \in seen
===============================================================================
