----------------------------- MODULE TaskTreeProofs -----------------------------
(***************************************************************************)
(* Proofs about TaskTree for any tasks and callers.                        *)
(***************************************************************************)
EXTENDS TaskTree, WellFoundedInduction, TLAPS

\* The initial state has the types.
LEMMA TypeInit == Init => TypeOK
<1> SUFFICES ASSUME Init PROVE TypeOK
  OBVIOUS
<1>1. /\ parent \in [Tasks -> Tasks \cup {NoTask}]
      /\ status \in [Tasks -> {"absent", "live", "closed"}]
      /\ steps \in [Tasks -> StepStates]
      /\ superseded \subseteq Tasks \X Tasks
      /\ chain \in [Callers -> Seq(Tasks)]
  BY DEF Init, StepStates
<1>2. failed \in BOOLEAN
  BY DEF Init
<1> QED
  BY <1>1, <1>2 DEF TypeOK

\* Every step keeps the types.
LEMMA TypeStep == TypeOK /\ [Next]_vars => TypeOK'
<1> SUFFICES ASSUME TypeOK, [Next]_vars PROVE TypeOK'
  OBVIOUS
<1> USE DEF TypeOK, StepStates
<1>1. CASE UNCHANGED vars
  BY <1>1 DEF vars
<1>2. ASSUME NEW new \in SUBSET Tasks, NEW p \in Tasks \cup {NoTask}, NEW with \in StepStates,
             Create(new, p, with)
      PROVE  TypeOK'
  BY <1>2 DEF Create
<1>3. ASSUME NEW t \in Tasks, NEW left \in {"unsettled", "settled"}, Work(t, left)
      PROVE  TypeOK'
  BY <1>3 DEF Work
<1>4. ASSUME NEW t \in Tasks, Reopen(t) PROVE TypeOK'
  BY <1>4 DEF Reopen
<1>5. ASSUME NEW t \in Tasks, Close(t) PROVE TypeOK'
  BY <1>5 DEF Close
<1>6. ASSUME NEW c \in Callers, Cascade(c) PROVE TypeOK'
  <2>1. chain' \in [Callers -> Seq(Tasks)]
    BY <1>6 DEF Cascade
  <2> QED
    BY <1>6, <2>1 DEF Cascade
<1>7. ASSUME NEW c \in Callers, NEW t \in Tasks, Collect(c, t) PROVE TypeOK'
  <2>1. PICK n \in 1 .. Cardinality(Tasks) : \E path \in [1 .. n -> Tasks] :
            chain' = [chain EXCEPT ![c] = path]
    BY <1>7 DEF Collect
  <2>2. PICK path \in [1 .. n -> Tasks] : chain' = [chain EXCEPT ![c] = path]
    BY <2>1
  <2>3. path \in Seq(Tasks)
    BY <2>1
  <2>4. chain' \in [Callers -> Seq(Tasks)]
    BY <2>2, <2>3
  <2> QED
    BY <1>7, <2>4 DEF Collect
<1>8. ASSUME NEW old \in Tasks, NEW new \in Tasks, Supersede(old, new) PROVE TypeOK'
  <2>1. superseded' \subseteq Tasks \X Tasks
    BY <1>8 DEF Supersede
  <2>2. failed' \in BOOLEAN
    BY <1>8 DEF Supersede
  <2> QED
    BY <1>8, <2>1, <2>2 DEF Supersede
<1>9. ASSUME NEW c \in Callers, Abort(c) PROVE TypeOK'
  <2>1. chain' \in [Callers -> Seq(Tasks)]
    BY <1>9 DEF Abort
  <2> QED
    BY <1>9, <2>1 DEF Abort
<1> QED
  BY <1>1, <1>2, <1>3, <1>4, <1>5, <1>6, <1>7, <1>8, <1>9 DEF Next

\* Every variable keeps its type.
THEOREM TypeCorrect == Spec => []TypeOK
  BY TypeInit, TypeStep, PTL DEF Spec

-----------------------------------------------------------------------------

\* Only task.close and the second half of task.cascade_close close a task.
LEMMA WhoCloses ==
  ASSUME TypeOK, [Next]_vars,
         NEW t \in Tasks, status[t] # "closed", status'[t] = "closed"
  PROVE  Close(t) \/ \E c \in Callers : Cascade(c)
<1> USE DEF TypeOK, StepStates
<1>1. CASE UNCHANGED vars
  BY <1>1 DEF vars
<1>2. ASSUME NEW new \in SUBSET Tasks, NEW p \in Tasks \cup {NoTask}, NEW with \in StepStates,
             Create(new, p, with)
      PROVE  FALSE
  BY <1>2 DEF Create
<1>3. ASSUME NEW u \in Tasks, NEW left \in {"unsettled", "settled"}, Work(u, left) PROVE FALSE
  BY <1>3 DEF Work
<1>4. ASSUME NEW u \in Tasks, Reopen(u) PROVE FALSE
  BY <1>4 DEF Reopen
<1>5. ASSUME NEW u \in Tasks, Close(u) PROVE u = t
  BY <1>5 DEF Close
<1>6. ASSUME NEW c \in Callers, NEW u \in Tasks, Collect(c, u) PROVE FALSE
  BY <1>6 DEF Collect
<1>7. ASSUME NEW old \in Tasks, NEW new \in Tasks, Supersede(old, new) PROVE FALSE
  BY <1>7 DEF Supersede
<1>8. ASSUME NEW c \in Callers, Abort(c) PROVE FALSE
  BY <1>8 DEF Abort
<1> QED
  BY <1>1, <1>2, <1>3, <1>4, <1>5, <1>6, <1>7, <1>8 DEF Next

\* What a cascade closes passed its test at its place in the chain, and all
\* the tasks below it in the chain are closed with it.
LEMMA ClearedPasses ==
  ASSUME TypeOK, NEW c \in Callers, NEW t \in Cleared(c)
  PROVE  \E k \in DOMAIN chain[c] :
            /\ chain[c][k] = t
            /\ Passes(c, k)
            /\ \A j \in 1 .. k - 1 : chain[c][j] \in Cleared(c)
<1>1. PICK k \in DOMAIN chain[c] : chain[c][k] = t /\ \A j \in 1 .. k : Passes(c, j)
  BY DEF Cleared
<1>2. chain[c] \in Seq(Tasks)
  BY DEF TypeOK
<1>3. k \in Nat /\ k >= 1 /\ 1 .. k \subseteq DOMAIN chain[c]
  BY <1>1, <1>2
<1>4. ASSUME NEW j \in 1 .. k - 1 PROVE chain[c][j] \in Cleared(c)
  <2>1. j \in DOMAIN chain[c] /\ \A i \in 1 .. j : Passes(c, i)
    BY <1>1, <1>3
  <2> QED
    BY <2>1 DEF Cleared
<1>5. Passes(c, k)
  BY <1>1, <1>3
<1> QED
  BY <1>1, <1>4, <1>5

\* The step of ClosesOverClosed.
LEMMA OverClosedStep ==
  ASSUME TypeOK, [Next]_vars,
         NEW t \in Tasks, status[t] # "closed", status'[t] = "closed",
         NEW child \in Children(t)
  PROVE  status'[child] = "closed"
<1>0. child \in Tasks
  BY DEF Children
<1>1. CASE Close(t)
  <2>1. status[child] = "closed"
    BY <1>1 DEF Close, ChildrenClosed
  <2> QED
    BY <1>0, <1>1, <2>1 DEF Close, TypeOK
<1>2. ASSUME NEW c \in Callers, Cascade(c) PROVE status'[child] = "closed"
  <2>1. \A u \in Tasks : u \in Cleared(c) => status'[u] = "closed"
    BY <1>2 DEF Cascade
  <2>2. \A u \in Tasks : status[u] = "closed" => status'[u] = "closed"
    BY <1>2 DEF Cascade
  <2>3. t \in Cleared(c)
    BY <1>2 DEF Cascade
  <2>4. PICK k \in DOMAIN chain[c] :
            /\ chain[c][k] = t
            /\ Passes(c, k)
            /\ \A j \in 1 .. k - 1 : chain[c][j] \in Cleared(c)
    BY <2>3, ClearedPasses
  <2>5. ChildrenClosed(t, {chain[c][j] : j \in 1 .. k - 1})
    BY <2>4 DEF Passes
  <2>6. status[child] = "closed" \/ child \in Cleared(c)
    BY <2>4, <2>5 DEF ChildrenClosed
  <2> QED
    BY <1>0, <2>1, <2>2, <2>6
<1> QED
  BY <1>1, <1>2, WhoCloses

\* task.close and task.cascade_close leave no open child under a task they
\* close, whatever happened between the two halves of the cascade.
THEOREM OverClosed == Spec => ClosesOverClosed
<1>1. TypeOK /\ [Next]_vars =>
        [\A t \in Tasks : status[t] # "closed" /\ status'[t] = "closed" =>
            \A c \in Children(t) : status'[c] = "closed"]_vars
  BY OverClosedStep
<1>2. Spec =>
        [][\A t \in Tasks : status[t] # "closed" /\ status'[t] = "closed" =>
            \A c \in Children(t) : status'[c] = "closed"]_vars
  BY <1>1, TypeCorrect, PTL DEF Spec
<1> QED
  BY <1>2 DEF ClosesOverClosed

\* The step of LeavesNothingBehind.
LEMMA NothingBehindStep ==
  ASSUME TypeOK, [Next]_vars,
         NEW t \in Tasks, status[t] # "closed", status'[t] = "closed",
         Children(t) = {}, steps[t] = "unsettled"
  PROVE  IsSuperseded(t)
<1>1. CASE Close(t)
  BY <1>1 DEF Close
<1>2. ASSUME NEW c \in Callers, Cascade(c) PROVE IsSuperseded(t)
  <2>1. t \in Cleared(c)
    BY <1>2 DEF Cascade
  <2>2. PICK k \in DOMAIN chain[c] : chain[c][k] = t /\ Passes(c, k)
    BY <2>1, ClearedPasses
  <2> QED
    BY <2>2 DEF Passes
<1> QED
  BY <1>1, <1>2, WhoCloses

\* Unsettled steps of a leaf are closed over only where a successor has them.
THEOREM NothingBehind == Spec => LeavesNothingBehind
<1>1. TypeOK /\ [Next]_vars =>
        [\A t \in Tasks :
            /\ status[t] # "closed" /\ status'[t] = "closed"
            /\ Children(t) = {} /\ steps[t] = "unsettled"
            => IsSuperseded(t)]_vars
  BY NothingBehindStep
<1> QED
  BY <1>1, TypeCorrect, PTL DEF Spec, LeavesNothingBehind

-----------------------------------------------------------------------------

\* A set of numbers that is not empty has a least one.
LEMMA LeastNumber ==
  ASSUME NEW T \in SUBSET Nat, T # {}
  PROVE  \E x \in T : \A y \in T : x <= y
<1> DEFINE R == OpToRel(<, Nat)
<1>1. IsWellFoundedOn(R, Nat)
  BY NatLessThanWellFounded
<1>2. \A x, y \in Nat : x < y => <<x, y>> \in R
  BY DEF OpToRel
<1> HIDE DEF R
<1>3. T \subseteq Nat
  OBVIOUS
<1>4. PICK x \in T : \A y \in T : <<y, x>> \notin R
  BY <1>1, <1>3, WFMin
<1>5. ASSUME NEW y \in T PROVE x <= y
  <2>1. x \in Nat /\ y \in Nat
    BY <1>3, <1>4
  <2>2. ~ (y < x)
    BY <1>2, <1>4, <2>1, Zenon
  <2> QED
    BY <2>1, <2>2
<1> QED
  BY <1>5

\* Only the second half of a cascade gives up a chain, unless it is rolled back.
LEMMA WhoCascades ==
  ASSUME TypeOK, [Next]_vars, NEW c \in Callers, chain[c] # <<>>, chain'[c] = <<>>, ~ failed'
  PROVE  Cascade(c)
<1> USE DEF TypeOK
<1>1. CASE chain' = chain
  BY <1>1
<1>2. ASSUME NEW k \in Callers, Cascade(k) PROVE k = c
  BY <1>2 DEF Cascade
<1>3. ASSUME NEW k \in Callers, NEW t \in Tasks, Collect(k, t) PROVE FALSE
  BY <1>3 DEF Collect
<1>4. chain' = chain \/ \E k \in Callers : Cascade(k) \/ \E t \in Tasks : Collect(k, t)
  BY DEF Next, vars, Create, Work, Reopen, Close, Abort, Supersede
<1> QED
  BY <1>1, <1>2, <1>3, <1>4

\* The lowest node of a chain that its cascade leaves open is the first that
\* did not pass: one that did not pass below it would be open as well.
LEMMA LowestOpenFails ==
  ASSUME TypeOK, NEW c \in Callers, Cascade(c), NEW i \in DOMAIN chain[c],
         status'[chain[c][i]] # "closed",
         \A j \in 1 .. i - 1 : status'[chain[c][j]] = "closed"
  PROVE  ~ Passes(c, i)
<1> DEFINE failing == {j \in 1 .. i : ~ Passes(c, j)}
<1>1. chain[c] \in Seq(Tasks)
  BY DEF TypeOK
<1>2. i \in Nat /\ 1 .. i \subseteq DOMAIN chain[c]
  BY <1>1
<1>3. chain[c][i] \notin Cleared(c)
  BY <1>1, <1>2 DEF Cascade, TypeOK
<1>4. failing # {}
  BY <1>2, <1>3 DEF Cleared
<1>5. PICK m \in failing : \A j \in failing : m <= j
  <2>1. failing \in SUBSET Nat
    BY <1>2
  <2> QED
    BY <1>4, <2>1, LeastNumber
<1>6. CASE m < i
  <2> DEFINE u == chain[c][m]
  <2>1. u \in Tasks /\ m \in 1 .. i - 1
    BY <1>1, <1>2, <1>6
  <2>2. status[u] # "closed" /\ status'[u] = "closed"
    BY <1>5, <2>1 DEF Passes
  <2>3. u \in Cleared(c)
    BY <2>1, <2>2 DEF Cascade
  <2>4. PICK k \in DOMAIN chain[c] : chain[c][k] = u /\ \A j \in 1 .. k : Passes(c, j)
    BY <2>3 DEF Cleared
  <2>5. k < m /\ k \in Nat /\ Passes(c, k)
    BY <1>1, <1>5, <2>1, <2>4
  <2>6. {chain[c][j] : j \in 1 .. k - 1} \subseteq {chain[c][j] : j \in 1 .. m - 1}
    BY <2>1, <2>5
  <2>7. Passes(c, m)
    BY <2>2, <2>4, <2>5, <2>6 DEF Passes, ChildrenClosed
  <2> QED
    BY <1>5, <2>7
<1>7. m = i \/ m < i
  BY <1>2, <1>5
<1> QED
  BY <1>5, <1>6, <1>7

\* The step of StopsForCause.
LEMMA StopsStep ==
  ASSUME TypeOK, NEW c \in Callers, Cascade(c), NEW i \in DOMAIN chain[c],
         status'[chain[c][i]] # "closed",
         \A j \in 1 .. i - 1 : status'[chain[c][j]] = "closed"
  PROVE  LET t == chain[c][i]
         IN  \/ \E child \in Children(t) : status'[child] # "closed"
             \/ Children(t) = {} /\ steps[t] = "unsettled" /\ ~ IsSuperseded(t)
<1> DEFINE t == chain[c][i]
<1> DEFINE below == {chain[c][j] : j \in 1 .. i - 1}
<1>1. chain[c] \in Seq(Tasks)
  BY DEF TypeOK
<1>2. t \in Tasks /\ i \in Nat
  BY <1>1
<1>3. ~ Passes(c, i)
  BY LowestOpenFails
<1>4. CASE Children(t) = {}
  BY <1>3, <1>4 DEF Passes
<1>5. CASE Children(t) # {}
  <2>1. PICK child \in Children(t) : status[child] # "closed" /\ child \notin below
    BY <1>3, <1>5 DEF Passes, ChildrenClosed
  <2>2. child \notin Cleared(c)
    <3> SUFFICES ASSUME child \in Cleared(c) PROVE FALSE
      OBVIOUS
    <3>1. PICK k \in DOMAIN chain[c] : chain[c][k] = child /\ \A j \in 1 .. k : Passes(c, j)
      BY DEF Cleared
    <3>2. k \in Nat /\ k >= 1
      BY <1>1, <3>1
    <3>3. CASE k < i
      BY <1>2, <2>1, <3>1, <3>2, <3>3
    <3>4. CASE i <= k
      BY <1>1, <1>2, <1>3, <3>1, <3>2, <3>4
    <3> QED
      BY <1>2, <3>2, <3>3, <3>4
  <2>3. status'[child] # "closed"
    BY <2>1, <2>2 DEF Cascade, Children
  <2> QED
    BY <2>3
<1> QED
  BY <1>4, <1>5

\* A cascade never leaves a task open that could have been closed: what it
\* closed on its way counts, and a waived leaf does not hold it up.
THEOREM Stops == Spec => StopsForCause
<1>1. ASSUME TypeOK, [Next]_vars, NEW c \in Callers, chain[c] # <<>>, chain'[c] = <<>>, ~ failed',
             NEW i \in DOMAIN chain[c]
      PROVE  LET t == chain[c][i]
             IN  /\ status'[t] # "closed"
                 /\ \A j \in 1 .. i - 1 : status'[chain[c][j]] = "closed"
                 => \/ \E child \in Children(t) : status'[child] # "closed"
                    \/ Children(t) = {} /\ steps[t] = "unsettled" /\ ~ IsSuperseded(t)
  BY <1>1, WhoCascades, StopsStep
<1>2. TypeOK /\ [Next]_vars =>
        [\A c \in Callers : chain[c] # <<>> /\ chain'[c] = <<>> /\ ~ failed' =>
            \A i \in DOMAIN chain[c] :
                LET t == chain[c][i]
                IN  /\ status'[t] # "closed"
                    /\ \A j \in 1 .. i - 1 : status'[chain[c][j]] = "closed"
                    => \/ \E child \in Children(t) : status'[child] # "closed"
                       \/ Children(t) = {} /\ steps[t] = "unsettled" /\ ~ IsSuperseded(t)]_vars
  BY <1>1
<1>3. Spec =>
        [][\A c \in Callers : chain[c] # <<>> /\ chain'[c] = <<>> /\ ~ failed' =>
            \A i \in DOMAIN chain[c] :
                LET t == chain[c][i]
                IN  /\ status'[t] # "closed"
                    /\ \A j \in 1 .. i - 1 : status'[chain[c][j]] = "closed"
                    => \/ \E child \in Children(t) : status'[child] # "closed"
                       \/ Children(t) = {} /\ steps[t] = "unsettled" /\ ~ IsSuperseded(t)]_vars
  BY <1>2, TypeCorrect, PTL DEF Spec
<1> QED
  BY <1>3 DEF StopsForCause

-----------------------------------------------------------------------------

\* Nothing is superseded in the initial state.
LEMMA CircleInit == Init => NoCircle
<1> SUFFICES ASSUME Init, NEW t \in Tasks
             PROVE  \E seen \in SUBSET Tasks :
                        /\ t \notin seen
                        /\ \A p \in superseded : p[1] \in seen \cup {t} => p[2] \in seen
  BY DEF NoCircle
<1> WITNESS {} \in SUBSET Tasks
<1> QED
  BY DEF Init

\* A relation that closes no circle for the search of creates_cycle leaves
\* every task outside its own successors: to the successors of a task the new
\* one's are added, unless the task is among these itself and cannot reach old.
LEMMA CircleStep ==
  ASSUME TypeOK, NoCircle,
         NEW old \in Tasks, NEW new \in Tasks, Supersede(old, new)
  PROVE  NoCircle'
<1>1. PICK found \in SUBSET Tasks :
        /\ new \in found /\ old \notin found
        /\ \A p \in superseded : p[1] \in found => p[2] \in found
  BY DEF Supersede, Reaches
<1>2. superseded' = superseded \cup {<<old, new>>}
  BY DEF Supersede
<1> SUFFICES ASSUME NEW t \in Tasks
             PROVE  \E seen \in SUBSET Tasks :
                        /\ t \notin seen
                        /\ \A p \in superseded' : p[1] \in seen \cup {t} => p[2] \in seen
  BY DEF NoCircle
<1>3. PICK seen \in SUBSET Tasks :
        /\ t \notin seen
        /\ \A p \in superseded : p[1] \in seen \cup {t} => p[2] \in seen
  BY DEF NoCircle
<1>4. CASE t \in found
  <2> WITNESS seen \cap found \in SUBSET Tasks
  <2>1. ASSUME NEW p \in superseded', p[1] \in (seen \cap found) \cup {t}
        PROVE  p[2] \in seen \cap found
    <3>1. p # <<old, new>>
      BY <1>1, <1>4, <2>1
    <3> QED
      BY <1>1, <1>2, <1>3, <1>4, <2>1, <3>1
  <2> QED
    BY <1>3, <2>1
<1>5. CASE t \notin found
  <2> WITNESS seen \cup found \in SUBSET Tasks
  <2>1. ASSUME NEW p \in superseded', p[1] \in (seen \cup found) \cup {t}
        PROVE  p[2] \in seen \cup found
    <3>1. CASE p = <<old, new>>
      BY <1>1, <3>1
    <3>2. CASE p \in superseded
      BY <1>1, <1>3, <2>1, <3>2
    <3> QED
      BY <1>2, <3>1, <3>2
  <2> QED
    BY <1>3, <1>5, <2>1
<1> QED
  BY <1>4, <1>5

\* task.supersede never makes a task, through others, its own successor.
THEOREM Circle == Spec => []NoCircle
<1>1. TypeOK /\ NoCircle /\ [Next]_vars => NoCircle'
  <2> SUFFICES ASSUME TypeOK, NoCircle, [Next]_vars PROVE NoCircle'
    OBVIOUS
  <2>1. CASE superseded' = superseded
    BY <2>1 DEF NoCircle
  <2>2. ASSUME NEW old \in Tasks, NEW new \in Tasks, Supersede(old, new) PROVE NoCircle'
    BY <2>2, CircleStep
  <2>3. superseded' = superseded \/ \E old, new \in Tasks : Supersede(old, new)
    BY DEF Next, vars, Create, Work, Reopen, Close, Cascade, Abort, Collect
  <2> QED
    BY <2>1, <2>2, <2>3
<1> QED
  BY <1>1, CircleInit, TypeCorrect, PTL DEF Spec
===============================================================================
