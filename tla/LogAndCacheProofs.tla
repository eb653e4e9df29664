---------------------------- MODULE LogAndCacheProofs ----------------------------
(***************************************************************************)
(* Proofs about DurableLog and SnapshotCache, for any bounds: both keep    *)
(* sequences of which they drop elements by position, and the proofs share *)
(* the lemmas about that.                                                  *)
(*                                                                         *)
(* DurableLog, both logs: types for any number of handles, and for one     *)
(* handle that nothing acknowledged is lost and that marks stay.           *)
(* SnapshotCache, any workers, workspaces and capacity: types, that no     *)
(* generation of a manager is there twice, and that the queue lists what   *)
(* is not cached only while its eviction is under way.                     *)
(***************************************************************************)
EXTENDS DurableLog, SnapshotCache, FiniteSetTheorems, SequenceTheorems, WellFoundedInduction, TLAPS

-----------------------------------------------------------------------------
(* Numbers, sequences and positions *)

\* A nonempty set of naturals has a least element.
LEMMA LeastNatural ==
    ASSUME NEW S \in SUBSET Nat, S # {}
    PROVE  \E m \in S : \A x \in S : m <= x
<1> DEFINE R == OpToRel(<, Nat)
<1>1. IsWellFoundedOn(R, Nat)
  BY NatLessThanWellFounded
<1>2. \A x, y \in Nat : x < y => <<x, y>> \in R
  BY DEF OpToRel
<1> HIDE DEF R
<1>3. PICK m \in S : \A y \in S : ~ (<<y, m>> \in R)
  BY <1>1, WFMin
<1>4. ASSUME NEW y \in S PROVE m <= y
  <2>1. m \in Nat /\ y \in Nat
    OBVIOUS
  <2>2. ~ (y < m)
    BY <2>1, <1>2, <1>3
  <2> QED
    BY <2>1, <2>2
<1> QED
  BY <1>4

\* The maximum of a set of naturals up to n that is not empty.
LEMMA MaxIs ==
    ASSUME NEW n \in Nat, NEW S \in SUBSET (0 .. n), S # {}
    PROVE  Max(S) \in S /\ \A x \in S : x <= Max(S)
<1> DEFINE Bounds == {b \in Nat : \A x \in S : x <= b}
<1>1. PICK m \in Bounds : \A b \in Bounds : m <= b
  <2>1. n \in Bounds /\ Bounds \in SUBSET Nat
    OBVIOUS
  <2> HIDE DEF Bounds
  <2> QED
    BY <2>1, LeastNatural
<1>2. m \in S
  <2>1. SUFFICES ASSUME m \notin S PROVE FALSE
    OBVIOUS
  <2>2. \A x \in S : x < m /\ x \in Nat
    BY <2>1
  <2>3. m # 0 /\ m \in Nat
    <3>1. PICK x \in S : TRUE
      OBVIOUS
    <3> QED
      BY <2>2, <3>1
  <2>4. m - 1 \in Bounds
    BY <2>2, <2>3
  <2> QED
    BY <1>1, <2>3, <2>4
<1>3. m \in S /\ \A x \in S : m >= x
  BY <1>1, <1>2
<1> HIDE DEF Bounds
<1>4. PICK k \in S : \A x \in S : k >= x
  BY <1>3
<1> QED
  BY <1>4 DEF Max

\* The place of a position among those of S.
Rank(S, i) == Cardinality({j \in S : j <= i})

\* The places are 1 to the number of positions, each taken once.
LEMMA RankIs ==
    ASSUME NEW n \in Nat, NEW S \in SUBSET (1 .. n)
    PROVE  /\ Cardinality(S) \in Nat
           /\ \A i \in S : Rank(S, i) \in 1 .. Cardinality(S)
           /\ \A i, j \in S : Rank(S, i) = Rank(S, j) => i = j
           /\ \A k \in 1 .. Cardinality(S) : \E i \in S : Rank(S, i) = k
<1> DEFINE UpTo(i) == {j \in S : j <= i}
<1>1. IsFiniteSet(S) /\ Cardinality(S) \in Nat
  <2>1. IsFiniteSet(1 .. n)
    BY FS_Interval
  <2>2. IsFiniteSet(S)
    BY <2>1, FS_Subset
  <2> QED
    BY <2>2, FS_CardinalityType
<1>2. ASSUME NEW i \in S
      PROVE  /\ UpTo(i) \subseteq S /\ i \in UpTo(i) /\ IsFiniteSet(UpTo(i))
             /\ Rank(S, i) \in 1 .. Cardinality(S)
  <2>1. UpTo(i) \in SUBSET S /\ i \in UpTo(i)
    OBVIOUS
  <2> HIDE DEF UpTo
  <2>2. IsFiniteSet(UpTo(i)) /\ Cardinality(UpTo(i)) <= Cardinality(S)
    BY <1>1, <2>1, FS_Subset
  <2>3. Cardinality(UpTo(i)) \in Nat /\ Cardinality(UpTo(i)) # 0
    BY <2>1, <2>2, FS_CardinalityType, FS_EmptySet
  <2> QED
    BY <1>1, <2>1, <2>2, <2>3 DEF Rank, UpTo
<1>3. ASSUME NEW i \in S, NEW j \in S, i < j PROVE Rank(S, i) # Rank(S, j)
  <2>0. \A x \in S : x \in Nat
    OBVIOUS
  <2>1. UpTo(i) \in SUBSET UpTo(j) /\ j \in UpTo(j) /\ j \notin UpTo(i)
    <3>1. i \in Nat /\ j \in Nat /\ j <= j /\ ~ (j <= i)
      BY <1>3, <2>0
    <3>2. \A x \in S : x <= i => x <= j
      BY <1>3, <2>0, <3>1
    <3> QED
      BY <3>1, <3>2
  <2>2. IsFiniteSet(UpTo(j))
    BY <1>2
  <2> HIDE DEF UpTo
  <2>3. Cardinality(UpTo(j)) # Cardinality(UpTo(i))
    BY <2>1, <2>2, FS_Subset
  <2> QED
    BY <2>3 DEF Rank, UpTo
<1>4. \A i, j \in S : Rank(S, i) = Rank(S, j) => i = j
  BY <1>3
<1> DEFINE r == [i \in S |-> Rank(S, i)]
           D == 1 .. Cardinality(S)
<1>5. r \in Injection(S, D)
  BY <1>2, <1>4 DEF Injection, IsInjective
<1>6. IsFiniteSet(D) /\ Cardinality(D) = Cardinality(S)
  BY <1>1, FS_Interval
<1> HIDE DEF r
<1>7. r \in Surjection(S, D)
  BY <1>5, <1>6, FS_Injection
<1>8. \A k \in D : \E i \in S : r[i] = k
  BY <1>7 DEF Surjection
<1> QED
  BY <1>1, <1>2, <1>4, <1>8 DEF r

\* p tells which element of s each element of t is.
Picks(t, s, p) ==
    /\ p \in [DOMAIN t -> DOMAIN s]
    /\ \A k \in DOMAIN t : t[k] = s[p[k]]
    /\ \A k, m \in DOMAIN t : p[k] = p[m] => k = m

\* AtPositions is a sequence of the elements at these positions, each once.
LEMMA AtPositionsIs ==
    ASSUME NEW T, NEW s \in Seq(T), NEW S \in SUBSET DOMAIN s
    PROVE  /\ AtPositions(s, S) \in Seq(T)
           /\ \E p : /\ Picks(AtPositions(s, S), s, p)
                     /\ \A i \in S : \E k \in DOMAIN AtPositions(s, S) : p[k] = i
                     /\ \A k \in DOMAIN AtPositions(s, S) : p[k] \in S
<1> DEFINE n == Cardinality(S)
           t == AtPositions(s, S)
           p == [k \in 1 .. n |-> CHOOSE i \in S : Rank(S, i) = k]
<1>1. DOMAIN s = 1 .. Len(s) /\ Len(s) \in Nat /\ \A i \in DOMAIN s : s[i] \in T
  BY LenProperties, ElementOfSeq
<1>2. /\ n \in Nat
      /\ \A i \in S : Rank(S, i) \in 1 .. n
      /\ \A k \in 1 .. n : \E i \in S : Rank(S, i) = k
      /\ \A i, j \in S : Rank(S, i) = Rank(S, j) => i = j
  BY <1>1, RankIs
<1>3. t = [k \in 1 .. n |-> s[p[k]]]
  BY DEF AtPositions, Rank
<1>4. \A k \in 1 .. n : p[k] \in S /\ Rank(S, p[k]) = k
  BY <1>2
<1> HIDE DEF t, p, n
<1>5. DOMAIN t = 1 .. n /\ \A k \in 1 .. n : t[k] = s[p[k]] /\ t[k] \in T
  BY <1>1, <1>3, <1>4
<1>6. t \in Seq(T)
  <2>1. t \in [1 .. n -> T]
    BY <1>3, <1>5
  <2> QED
    BY <1>2, <2>1, SeqDef
<1>7. Picks(t, s, p)
  <2>1. p \in [DOMAIN t -> DOMAIN s]
    BY <1>4, <1>5 DEF p
  <2>2. \A k, m \in DOMAIN t : p[k] = p[m] => k = m
    BY <1>4, <1>5
  <2> QED
    BY <1>5, <2>1, <2>2 DEF Picks
<1>8. \A i \in S : \E k \in DOMAIN t : p[k] = i
  BY <1>2, <1>4, <1>5
<1> QED
  BY <1>4, <1>5, <1>6, <1>7, <1>8 DEF t
-----------------------------------------------------------------------------
(* The inductive invariants *)

\* No number of a line is above the appends so far.
Numbered(s) == \A i \in DOMAIN s : s[i].id <= ids /\ s[i].lsn <= ids

\* What types need, for any number of handles.
AllNumbered ==
    /\ Numbered(file)
    /\ \A s \in tmp : Numbered(s)
    /\ \A h \in Handles : Numbered(job[h].lines) /\ next[h] <= ids + 1

\* Two entries of s have neither an id nor an LSN in common.
Distinct(s) ==
    \A i, j \in DOMAIN s :
        s[i].id # 0 /\ s[j].id # 0 /\ (s[i].id = s[j].id \/ s[i].lsn = s[j].lsn) => i = j

\* An entry of s and one of t have neither in common.
Apart(s, t) ==
    \A i \in DOMAIN s, j \in DOMAIN t :
        s[i].id # 0 /\ t[j].id # 0 => s[i].id # t[j].id /\ s[i].lsn # t[j].lsn

Below(s, n) == \A i \in DOMAIN s : s[i].id # 0 => s[i].lsn < n

Holds(s, S) == \A i \in S : \E k \in DOMAIN s : s[k].id = i

\* The entries of s with an id in S are not pending.
Settled(s, S) == \A i \in DOMAIN s : s[i].id \in S => s[i].status # "pending"

\* One handle: its numbers are new, and nobody else writes the file.
HandleInv(h) ==
    /\ acked \subseteq 1 .. ids /\ marked \subseteq 1 .. ids
    /\ open => file # <<>>
    /\ Distinct(file)
    /\ next[h] > 0 => Below(file, next[h])
    /\ Settled(file, marked)

\* A rewrite under way: what is about to be the file.
RewriteInv(h) ==
    LET j == job[h] IN
    j.pc # "idle" =>
        /\ next[h] > 0
        /\ Distinct(j.lines) /\ Below(j.lines, next[h])
        /\ j.mark \subseteq 1 .. ids
        /\ Settled(j.lines, marked \cup j.mark)
        /\ ~ Atomic => j.drop = {}
        /\ j.pc = "rename" => tmp = {j.lines}
        /\ j.pc = "fill" =>
             ~ Atomic /\ Apart(file, j.lines) /\ Settled(file, marked \cup j.mark)

\* Unless a write was cut off, what was acknowledged is in the file, and in what
\* is about to be the file.
KeptInv(h) ==
    LET j == job[h] IN
    ~ cut =>
        /\ ~ open
        /\ j.pc # "fill" => Holds(file, acked \ gone)
        /\ j.pc \in {"rewrite", "rename"} => Holds(j.lines, (acked \ gone) \ j.drop)
        /\ j.pc = "fill" =>
             \A i \in acked \ gone :
                \/ \E k \in DOMAIN file : file[k].id = i
                \/ \E k \in DOMAIN j.lines : j.lines[k].id = i

LogInv(h) == TypeOK /\ AllNumbered /\ HandleInv(h) /\ RewriteInv(h) /\ KeptInv(h)

-----------------------------------------------------------------------------
(* What the operators of the file return *)

\* t has some of the entries of s, each once, perhaps with another status.
Draws(t, s) ==
    \E p \in [DOMAIN t -> DOMAIN s] :
        /\ \A k \in DOMAIN t : t[k].id = s[p[k]].id /\ t[k].lsn = s[p[k]].lsn
        /\ \A k, m \in DOMAIN t : p[k] = p[m] => k = m

\* Drawing is transitive.
LEMMA DrawsTrans ==
    ASSUME NEW s, NEW t, NEW u, Draws(u, t), Draws(t, s)
    PROVE  Draws(u, s)
<1>1. PICK q \in [DOMAIN u -> DOMAIN t] :
        /\ \A k \in DOMAIN u : u[k].id = t[q[k]].id /\ u[k].lsn = t[q[k]].lsn
        /\ \A k, m \in DOMAIN u : q[k] = q[m] => k = m
  BY DEF Draws
<1>2. PICK p \in [DOMAIN t -> DOMAIN s] :
        /\ \A k \in DOMAIN t : t[k].id = s[p[k]].id /\ t[k].lsn = s[p[k]].lsn
        /\ \A k, m \in DOMAIN t : p[k] = p[m] => k = m
  BY DEF Draws
<1> DEFINE r == [k \in DOMAIN u |-> p[q[k]]]
<1>3. r \in [DOMAIN u -> DOMAIN s]
  BY <1>1, <1>2
<1>4. \A k \in DOMAIN u : u[k].id = s[r[k]].id /\ u[k].lsn = s[r[k]].lsn
  BY <1>1, <1>2
<1>5. \A k, m \in DOMAIN u : r[k] = r[m] => k = m
  BY <1>1, <1>2
<1> QED
  BY <1>3, <1>4, <1>5 DEF Draws

\* What is drawn keeps its numbers.
LEMMA DrawsKeep ==
    ASSUME NEW s, NEW t, Draws(t, s)
    PROVE  /\ Numbered(s) => Numbered(t)
           /\ Distinct(s) => Distinct(t)
           /\ \A n : Below(s, n) => Below(t, n)
  BY DEF Draws, Numbered, Distinct, Below

\* A reader gets the entries of the file, each once.
LEMMA EntriesIs ==
    ASSUME file \in Seq(Line)
    PROVE  /\ Entries \in Seq(Line) /\ Draws(Entries, file)
           /\ \A i \in DOMAIN file : file[i].id # 0 => \E k \in DOMAIN Entries : Entries[k] = file[i]
           /\ \A k \in DOMAIN Entries :
                Entries[k].id # 0 /\ \E i \in DOMAIN file : Entries[k] = file[i]
           /\ \E p : Picks(Entries, file, p)
<1> DEFINE S == {i \in DOMAIN file : file[i].id # 0}
<1>1. Entries = AtPositions(file, S)
  BY DEF Entries
<1>2. S \in SUBSET DOMAIN file
  OBVIOUS
<1>3. \A i \in S : i \in DOMAIN file /\ file[i].id # 0
  OBVIOUS
<1>4. \A i \in DOMAIN file : file[i].id # 0 => i \in S
  OBVIOUS
<1> HIDE DEF S
<1>5. Entries \in Seq(Line)
  BY <1>1, <1>2, AtPositionsIs
<1>6. PICK p : /\ Picks(Entries, file, p)
               /\ \A i \in S : \E k \in DOMAIN Entries : p[k] = i
               /\ \A k \in DOMAIN Entries : p[k] \in S
  BY <1>1, <1>2, AtPositionsIs
<1>7. Draws(Entries, file)
  BY <1>6 DEF Picks, Draws
<1> QED
  BY <1>3, <1>4, <1>5, <1>6, <1>7 DEF Picks

\* Entries with other statuses.
LEMMA MarkedIs ==
    ASSUME file \in Seq(Line), NEW lsns, NEW status \in {"applied", "failed"}
    PROVE  /\ Marked(lsns, status) \in Seq(Line)
           /\ DOMAIN Marked(lsns, status) = DOMAIN Entries
           /\ \A k \in DOMAIN Entries :
                /\ Marked(lsns, status)[k].id = Entries[k].id
                /\ Marked(lsns, status)[k].lsn = Entries[k].lsn
                /\ Marked(lsns, status)[k].status \in {status, Entries[k].status}
                /\ k \in Met(lsns) => Marked(lsns, status)[k].status = status
<1> DEFINE t == Marked(lsns, status)
<1>1. /\ Entries \in [1 .. Len(Entries) -> Line] /\ DOMAIN Entries = 1 .. Len(Entries)
      /\ Len(Entries) \in Nat
  BY EntriesIs, LenProperties
<1>2. t = [k \in DOMAIN Entries |->
              IF k \in Met(lsns) THEN [Entries[k] EXCEPT !.status = status] ELSE Entries[k]]
  BY DEF Marked
<1> HIDE DEF t
<1>3. \A k \in DOMAIN Entries :
        /\ Entries[k] \in Line
        /\ [Entries[k] EXCEPT !.status = status] \in Line
        /\ [Entries[k] EXCEPT !.status = status].id = Entries[k].id
        /\ [Entries[k] EXCEPT !.status = status].lsn = Entries[k].lsn
        /\ [Entries[k] EXCEPT !.status = status].status = status
  BY <1>1 DEF Line
<1>4. t \in [1 .. Len(Entries) -> Line]
  BY <1>1, <1>2, <1>3
<1>5. t \in Seq(Line)
  BY <1>1, <1>4, SeqDef
<1>6. \A k \in DOMAIN Entries :
        t[k] = IF k \in Met(lsns) THEN [Entries[k] EXCEPT !.status = status] ELSE Entries[k]
  BY <1>2
<1>7. DOMAIN t = DOMAIN Entries
  BY <1>2
<1> QED
  BY <1>3, <1>5, <1>6, <1>7 DEF t

\* Entries without the applied ones.
LEMMA KeptIs ==
    ASSUME file \in Seq(Line)
    PROVE  /\ Kept \in Seq(Line) /\ Draws(Kept, Entries)
           /\ \A i \in DOMAIN Entries :
                Entries[i].status # "applied" => \E k \in DOMAIN Kept : Kept[k] = Entries[i]
           /\ \A k \in DOMAIN Kept : \E i \in DOMAIN Entries : Kept[k] = Entries[i]
<1> DEFINE S == {i \in DOMAIN Entries : Entries[i].status # "applied"}
<1>1. Kept = AtPositions(Entries, S)
  BY DEF Kept
<1>2. S \in SUBSET DOMAIN Entries /\ Entries \in Seq(Line)
  BY EntriesIs
<1>3. \A i \in DOMAIN Entries : Entries[i].status # "applied" => i \in S
  OBVIOUS
<1> HIDE DEF S
<1>4. Kept \in Seq(Line)
  BY <1>1, <1>2, AtPositionsIs
<1>5. PICK p : /\ Picks(Kept, Entries, p)
               /\ \A i \in S : \E k \in DOMAIN Kept : p[k] = i
  BY <1>1, <1>2, AtPositionsIs
<1>6. Draws(Kept, Entries)
  BY <1>5 DEF Picks, Draws
<1> QED
  BY <1>3, <1>4, <1>5, <1>6 DEF Picks

\* The next LSN of a handle that opens the log is above those in the file.
LEMMA RecoveredIs ==
    ASSUME file \in Seq(Line), ids \in Nat, Numbered(file)
    PROVE  /\ Recovered \in Nat /\ Recovered > 0 /\ Recovered <= ids + 1
           /\ Below(file, Recovered)
<1> DEFINE S == Lsns \cup {0}
<1>1. \A k \in DOMAIN Entries : Entries[k].lsn \in 0 .. ids
  <2> TAKE k \in DOMAIN Entries
  <2>1. PICK i \in DOMAIN file : Entries[k] = file[i]
    BY EntriesIs
  <2>2. file[i] \in Line
    BY LenProperties, ElementOfSeq
  <2>3. file[i].lsn \in Nat /\ file[i].lsn <= ids
    BY <2>2 DEF Numbered, Line
  <2> QED
    BY <2>1, <2>3
<1>2. S \in SUBSET (0 .. ids) /\ S # {}
  BY <1>1 DEF Lsns, ToSet
<1>3. \A i \in DOMAIN file : file[i].id # 0 => file[i].lsn \in S
  BY EntriesIs DEF Lsns, ToSet
<1> HIDE DEF S
<1>4. Max(S) \in S /\ \A x \in S : x <= Max(S)
  BY <1>2, MaxIs
<1>5. Recovered = Max(S) + 1
  BY DEF Recovered, S
<1>6. Max(S) \in 0 .. ids
  BY <1>2, <1>4
<1>7. Below(file, Recovered)
  <2> SUFFICES ASSUME NEW i \in DOMAIN file, file[i].id # 0 PROVE file[i].lsn < Recovered
    BY DEF Below
  <2>1. file[i].lsn \in S /\ file[i].lsn <= Max(S) /\ file[i].lsn \in 0 .. ids
    BY <1>2, <1>3, <1>4
  <2> QED
    BY <1>5, <1>6, <2>1
<1> QED
  BY <1>5, <1>6, <1>7

\* A line written at the end.
LEMMA WithIs ==
    ASSUME file \in Seq(Line), NEW l \in Line
    PROVE  /\ With(l) \in Seq(Line)
           /\ \A k \in DOMAIN With(l) :
                \/ k \in DOMAIN file /\ With(l)[k] = file[k]
                \/ With(l)[k] = Garbage
                \/ k = Len(file) + 1 /\ With(l)[k] = l
           /\ ~ open => /\ \A k \in DOMAIN file : k \in DOMAIN With(l) /\ With(l)[k] = file[k]
                        /\ Len(file) + 1 \in DOMAIN With(l) /\ With(l)[Len(file) + 1] = l
           /\ (open => file # <<>>) => With(l) # <<>>
<1>1. DOMAIN file = 1 .. Len(file) /\ Len(file) \in Nat /\ file \in [1 .. Len(file) -> Line]
  BY LenProperties
<1>2. Garbage \in Line
  BY DEF Garbage, Line
<1>3. CASE ~ open
  <2>1. With(l) = Append(file, l)
    BY <1>3 DEF With
  <2>2. /\ With(l) \in Seq(Line) /\ With(l) # <<>> /\ Len(With(l)) = Len(file) + 1
        /\ \A k \in 1 .. Len(file) : With(l)[k] = file[k]
        /\ With(l)[Len(file) + 1] = l
    BY <2>1, AppendProperties
  <2>3. DOMAIN With(l) = 1 .. Len(file) + 1
    BY <2>2, LenProperties
  <2> HIDE DEF With
  <2>4. \A k \in 1 .. Len(file) + 1 : k \in 1 .. Len(file) \/ k = Len(file) + 1
    BY <1>1
  <2> QED
    BY <1>1, <1>3, <2>2, <2>3, <2>4
<1>4. CASE open
  <2>1. With(l) = [file EXCEPT ![Len(file)] = Garbage]
    BY <1>4 DEF With
  <2>2. With(l) \in [1 .. Len(file) -> Line]
    BY <1>1, <1>2, <2>1
  <2>3. \A k \in 1 .. Len(file) : With(l)[k] = file[k] \/ With(l)[k] = Garbage
    BY <1>1, <2>1
  <2>4. With(l) \in Seq(Line)
    BY <1>1, <2>2, SeqDef
  <2>5. file # <<>> => Len(file) # 0
    BY <1>1, EmptySeq
  <2>6. With(l) = <<>> => Len(file) = 0
    <3>1. ASSUME With(l) = <<>> PROVE 1 .. Len(file) = {}
      BY <2>2, <3>1
    <3> QED
      BY <1>1, <3>1
  <2> QED
    BY <1>1, <1>4, <2>2, <2>3, <2>4, <2>5, <2>6
<1> QED
  BY <1>3, <1>4

\* The job of a handle that ends, keeping what it has read.
LEMMA EndsIs ==
    ASSUME TypeOK, NEW h \in Handles, GiveUp(h) \/ Done(h)
    PROVE  /\ job' \in [Handles -> Job]
           /\ \A g \in Handles : g # h => job'[g] = job[g]
           /\ job'[h].pc = "idle" /\ job'[h].lines = <<>>
<1>1. job \in [Handles -> Job] /\ job[h] \in Job
  BY DEF TypeOK
<1>2. job' = [job EXCEPT ![h] = [Idle EXCEPT !.batch = job[h].batch, !.own = job[h].own]]
  BY DEF GiveUp, Done
<1>3. job[h].batch \in SUBSET Nat /\ job[h].own \in Nat
  BY <1>1 DEF Job
<1>4. <<>> \in Seq(Line)
  OBVIOUS
<1>5. /\ [Idle EXCEPT !.batch = job[h].batch, !.own = job[h].own] \in Job
      /\ [Idle EXCEPT !.batch = job[h].batch, !.own = job[h].own].pc = "idle"
      /\ [Idle EXCEPT !.batch = job[h].batch, !.own = job[h].own].lines = <<>>
  BY <1>3, <1>4 DEF Idle, Job
<1> QED
  BY <1>1, <1>2, <1>5

\* What a rewrite of the file is about to write.
Rewritten(lines, drop, mark) ==
    /\ lines \in Seq(Line) /\ Draws(lines, file)
    /\ drop \subseteq Nat /\ mark \subseteq Nat
    /\ \A i \in mark : \E k \in DOMAIN file : file[k].id = i /\ i # 0
    /\ ~ Atomic => drop = {}
    /\ \A i \in DOMAIN file :
         file[i].id # 0 => file[i].id \in drop \/ \E k \in DOMAIN lines : lines[k].id = file[i].id
    /\ \A k \in DOMAIN lines :
         lines[k].status = "pending" =>
            \E i \in DOMAIN file : file[i].id = lines[k].id /\ file[i].status = "pending"
    /\ Distinct(file) =>
         \A k \in DOMAIN lines : lines[k].id \in mark => lines[k].status # "pending"

\* A mark changes the entries it is for and no others.
LEMMA MarkRewrites ==
    ASSUME TypeOK, NEW lsns \in SUBSET Nat, NEW status \in {"applied", "failed"}
    PROVE  Rewritten(Marked(lsns, status), {}, IdsOf(lsns))
<1> DEFINE t == Marked(lsns, status)
           M == IdsOf(lsns)
<1>1. file \in Seq(Line) /\ \A i \in DOMAIN file : file[i] \in Line
  BY LenProperties, ElementOfSeq DEF TypeOK
<1>2. /\ t \in Seq(Line) /\ DOMAIN t = DOMAIN Entries
      /\ \A k \in DOMAIN Entries :
           /\ t[k].id = Entries[k].id /\ t[k].lsn = Entries[k].lsn
           /\ t[k].status \in {status, Entries[k].status}
           /\ k \in Met(lsns) => t[k].status = status
  BY <1>1, MarkedIs
<1>3. \A i \in M : \E k \in DOMAIN Entries : Entries[k].id = i /\ k \in Met(lsns)
  BY DEF IdsOf, Met
<1> HIDE DEF t, M
<1>4. /\ Entries \in Seq(Line) /\ Draws(Entries, file)
      /\ \A i \in DOMAIN file : file[i].id # 0 => \E k \in DOMAIN Entries : Entries[k] = file[i]
      /\ \A k \in DOMAIN Entries :
           Entries[k].id # 0 /\ \E i \in DOMAIN file : Entries[k] = file[i]
  BY <1>1, EntriesIs
<1>5. Draws(t, file)
  <2>1. Draws(t, Entries)
    <3> DEFINE p == [k \in DOMAIN t |-> k]
    <3>1. /\ p \in [DOMAIN t -> DOMAIN Entries]
          /\ \A k \in DOMAIN t : t[k].id = Entries[p[k]].id /\ t[k].lsn = Entries[p[k]].lsn
          /\ \A k, m \in DOMAIN t : p[k] = p[m] => k = m
      BY <1>2
    <3> QED
      BY <3>1 DEF Draws
  <2> QED
    BY <1>4, <2>1, DrawsTrans
<1>6. \A i \in M : \E k \in DOMAIN file : file[k].id = i /\ i # 0
  BY <1>3, <1>4
<1>7. M \subseteq Nat
  BY <1>1, <1>6 DEF Line
<1>8. \A i \in DOMAIN file : file[i].id # 0 => \E k \in DOMAIN t : t[k].id = file[i].id
  BY <1>2, <1>4
<1>9. \A k \in DOMAIN t : t[k].status = "pending" =>
        \E i \in DOMAIN file : file[i].id = t[k].id /\ file[i].status = "pending"
  BY <1>2, <1>4
<1>10. ASSUME Distinct(file), NEW k \in DOMAIN t, t[k].id \in M
       PROVE  t[k].status # "pending"
  <2>1. PICK m \in DOMAIN Entries : Entries[m].id = t[k].id /\ m \in Met(lsns)
    BY <1>3, <1>10
  <2>2. Distinct(Entries)
    BY <1>4, <1>10, DrawsKeep
  <2>3. k = m
    BY <1>2, <1>4, <2>1, <2>2 DEF Distinct
  <2> QED
    BY <1>2, <2>1, <2>3
<1> QED
  BY <1>2, <1>5, <1>6, <1>7, <1>8, <1>9, <1>10 DEF Rewritten, t, M

\* A compaction drops what is applied.
LEMMA CompactRewrites ==
    ASSUME TypeOK, Atomic
    PROVE  Rewritten(Kept, {l.id : l \in {x \in ToSet(Entries) : x.status = "applied"}}, {})
<1> DEFINE D == {l.id : l \in {x \in ToSet(Entries) : x.status = "applied"}}
<1>1. file \in Seq(Line) /\ \A i \in DOMAIN file : file[i] \in Line
  BY LenProperties, ElementOfSeq DEF TypeOK
<1>2. /\ Draws(Entries, file)
      /\ \A i \in DOMAIN file : file[i].id # 0 => \E k \in DOMAIN Entries : Entries[k] = file[i]
      /\ \A k \in DOMAIN Entries : \E i \in DOMAIN file : Entries[k] = file[i]
  BY <1>1, EntriesIs
<1>3. /\ Kept \in Seq(Line) /\ Draws(Kept, Entries)
      /\ \A i \in DOMAIN Entries :
           Entries[i].status # "applied" => \E k \in DOMAIN Kept : Kept[k] = Entries[i]
      /\ \A k \in DOMAIN Kept : \E i \in DOMAIN Entries : Kept[k] = Entries[i]
  BY <1>1, KeptIs
<1>4. \A k \in DOMAIN Entries : Entries[k].status = "applied" => Entries[k].id \in D
  BY DEF ToSet
<1>5. D \subseteq Nat
  <2>1. \A k \in DOMAIN Entries : Entries[k] \in Line
    BY <1>1, <1>2
  <2>2. \A k \in DOMAIN Entries : Entries[k].id \in Nat
    BY <2>1 DEF Line
  <2> QED
    BY <2>2 DEF ToSet
<1> HIDE DEF D
<1>6. Draws(Kept, file)
  BY <1>2, <1>3, DrawsTrans
<1>7. \A i \in DOMAIN file :
        file[i].id # 0 => file[i].id \in D \/ \E k \in DOMAIN Kept : Kept[k].id = file[i].id
  <2> SUFFICES ASSUME NEW i \in DOMAIN file, file[i].id # 0, file[i].id \notin D
               PROVE  \E k \in DOMAIN Kept : Kept[k].id = file[i].id
    OBVIOUS
  <2>1. PICK m \in DOMAIN Entries : Entries[m] = file[i]
    BY <1>2
  <2>2. Entries[m].status # "applied"
    BY <1>4, <2>1
  <2> QED
    BY <1>3, <2>1, <2>2
<1>8. \A k \in DOMAIN Kept : \E i \in DOMAIN file : Kept[k] = file[i]
  BY <1>2, <1>3
<1> QED
  BY <1>3, <1>5, <1>6, <1>7, <1>8 DEF Rewritten, D

\* increment_retry writes every entry again.
LEMMA TouchRewrites ==
    ASSUME TypeOK
    PROVE  Rewritten(Entries, {}, {})
<1>1. file \in Seq(Line)
  BY DEF TypeOK
<1>2. /\ Entries \in Seq(Line) /\ Draws(Entries, file)
      /\ \A i \in DOMAIN file : file[i].id # 0 => \E k \in DOMAIN Entries : Entries[k] = file[i]
      /\ \A k \in DOMAIN Entries : \E i \in DOMAIN file : Entries[k] = file[i]
  BY <1>1, EntriesIs
<1> QED
  BY <1>2 DEF Rewritten

\* Every rewrite starts with such lines.
LEMMA RewriteIs ==
    ASSUME TypeOK, NEW h \in Handles,
           MarkApplied(h) \/ MarkFailed(h) \/ Compact(h) \/ Touch(h)
    PROVE  \E lines, drop, mark : Rewritten(lines, drop, mark) /\ Rewrite(h, lines, drop, mark)
<1>0. job[h].batch \in SUBSET Nat /\ job[h].own \in Nat
  BY DEF TypeOK, Job
<1>1. CASE MarkApplied(h)
  <2>1. PICK lsns \in IF Atomic THEN {job[h].batch} ELSE {{n} : n \in job[h].batch} :
          Rewrite(h, Marked(lsns, "applied"), {}, IdsOf(lsns))
    BY <1>1 DEF MarkApplied
  <2>2. lsns \in SUBSET Nat
    BY <1>0
  <2>3. Rewritten(Marked(lsns, "applied"), {}, IdsOf(lsns))
    BY <2>2, MarkRewrites
  <2> QED
    BY <2>1, <2>3
<1>2. CASE MarkFailed(h)
  <2>1. PICK lsn \in job[h].batch \cup {job[h].own} :
          Rewrite(h, Marked({lsn}, "failed"), {}, IdsOf({lsn}))
    BY <1>2 DEF MarkFailed
  <2>2. {lsn} \in SUBSET Nat
    BY <1>0
  <2>3. Rewritten(Marked({lsn}, "failed"), {}, IdsOf({lsn}))
    BY <2>2, MarkRewrites
  <2> QED
    BY <2>1, <2>3
<1>3. CASE Compact(h)
  BY <1>3, CompactRewrites DEF Compact
<1>4. CASE Touch(h)
  BY <1>4, TouchRewrites DEF Touch
<1> QED
  BY <1>1, <1>2, <1>3, <1>4

\* A handle that starts a rewrite.
LEMMA RewriteJob ==
    ASSUME TypeOK, NEW h \in Handles, NEW lines, NEW drop, NEW mark,
           Rewritten(lines, drop, mark), Rewrite(h, lines, drop, mark)
    PROVE  /\ job' \in [Handles -> Job]
           /\ \A g \in Handles : g # h => job'[g] = job[g]
           /\ job'[h].pc = "rewrite" /\ job'[h].lines = lines
           /\ job'[h].drop = drop /\ job'[h].mark = mark
<1>1. job \in [Handles -> Job] /\ job[h] \in Job
  BY DEF TypeOK
<1> DEFINE j == [job[h] EXCEPT !.pc = "rewrite", !.lines = lines, !.drop = drop, !.mark = mark]
<1>2. job' = [job EXCEPT ![h] = j]
  BY <1>1 DEF Rewrite
<1>3. lines \in Seq(Line) /\ drop \in SUBSET Nat /\ mark \in SUBSET Nat
  BY DEF Rewritten
<1>4. j \in Job /\ j.pc = "rewrite" /\ j.lines = lines /\ j.drop = drop /\ j.mark = mark
  BY <1>1, <1>3 DEF Job
<1> HIDE DEF j
<1> QED
  BY <1>1, <1>2, <1>4

\* The tail of a sequence that is not empty.
LEMMA TailIs ==
    ASSUME NEW T, NEW s \in Seq(T), s # <<>>
    PROVE  /\ Tail(s) \in Seq(T) /\ Head(s) = s[1] /\ 1 \in DOMAIN s
           /\ \A i \in DOMAIN Tail(s) : i + 1 \in DOMAIN s /\ Tail(s)[i] = s[i + 1] /\ i \in Nat /\ i > 0
           /\ \A i \in DOMAIN s : i = 1 \/ (i - 1 \in DOMAIN Tail(s) /\ Tail(s)[i - 1] = s[i])
<1>1. Len(s) \in Nat /\ DOMAIN s = 1 .. Len(s) /\ Len(s) # 0
  BY LenProperties, EmptySeq
<1>2. /\ Head(s) = s[1] /\ Tail(s) \in Seq(T) /\ Len(Tail(s)) = Len(s) - 1
      /\ \A i \in 1 .. Len(Tail(s)) : Tail(s)[i] = s[i + 1]
  BY HeadTailProperties
<1>3. DOMAIN Tail(s) = 1 .. Len(s) - 1
  BY <1>1, <1>2, LenProperties
<1> QED
  BY <1>1, <1>2, <1>3

\* What a write of l at the end of the file may do, all or a part of it done.
Written(l) ==
    /\ file' \in Seq(Line) /\ open' \in BOOLEAN
    /\ \A k \in DOMAIN file' :
         \/ k \in DOMAIN file /\ file'[k] = file[k]
         \/ file'[k] = Garbage
         \/ k = Len(file) + 1 /\ file'[k] = l
    /\ ~ open => \A k \in DOMAIN file : k \in DOMAIN file' /\ file'[k] = file[k]
    /\ (open => file # <<>>) => (open' => file' # <<>>)

\* The writes of an append and of a rewrite in place.
LEMMA WrittenIs ==
    ASSUME TypeOK, NEW l \in Line, Leaves(l) \/ (file' = With(l) /\ open' = FALSE)
    PROVE  Written(l)
<1>1. file \in Seq(Line) /\ open \in BOOLEAN /\ Garbage \in Line
  BY DEF TypeOK, Garbage, Line
<1>2. CASE UNCHANGED <<file, open>>
  BY <1>1, <1>2 DEF Written
<1>3. CASE file' = With(l) /\ open' \in BOOLEAN
  BY <1>1, <1>3, WithIs DEF Written
<1>4. CASE file' = With(Garbage) /\ open' \in BOOLEAN
  BY <1>1, <1>4, WithIs DEF Written
<1> QED
  BY <1>2, <1>3, <1>4 DEF Leaves

\* What is written has the numbers of the file and of the line.
LEMMA WrittenNumbered ==
    ASSUME TypeOK, Numbered(file), NEW l \in Line, Written(l),
           ids' \in Nat, ids <= ids', l.id <= ids', l.lsn <= ids'
    PROVE  Numbered(file)'
<1> SUFFICES ASSUME NEW k \in DOMAIN file'
             PROVE  file'[k].id <= ids' /\ file'[k].lsn <= ids'
  BY DEF Numbered
<1>1. ids \in Nat
  BY DEF TypeOK
<1>2. CASE k \in DOMAIN file /\ file'[k] = file[k]
  <2>1. file[k].id \in Nat /\ file[k].lsn \in Nat
    <3>1. file[k] \in Line
      BY <1>2, LenProperties, ElementOfSeq DEF TypeOK
    <3> QED
      BY <3>1 DEF Line
  <2>2. file[k].id <= ids /\ file[k].lsn <= ids
    BY <1>2 DEF Numbered
  <2> QED
    BY <1>1, <1>2, <2>1, <2>2
<1>3. CASE file'[k] = Garbage
  BY <1>3 DEF Garbage
<1>4. CASE file'[k] = l
  BY <1>4
<1> QED
  BY <1>2, <1>3, <1>4 DEF Written

\* Numbers that were below the appends so far stay so.
LEMMA NumberedStays ==
    ASSUME ids \in Nat, ids' \in Nat, ids <= ids', NEW s \in Seq(Line), Numbered(s)
    PROVE  \A i \in DOMAIN s : s[i].id <= ids' /\ s[i].lsn <= ids'
<1> TAKE i \in DOMAIN s
<1>1. s[i] \in Line
  BY LenProperties, ElementOfSeq
<1>2. s[i].id \in Nat /\ s[i].lsn \in Nat
  BY <1>1 DEF Line
<1>3. s[i].id <= ids /\ s[i].lsn <= ids
  BY DEF Numbered
<1> QED
  BY <1>2, <1>3

\* A job that changes for one handle, to lines with numbers in range.
LEMMA JobsNumbered ==
    ASSUME TypeOK, AllNumbered, NEW h \in Handles, ids' \in Nat, ids <= ids',
           \A g \in Handles : g # h => job'[g] = job[g],
           \A i \in DOMAIN job'[h].lines :
              job'[h].lines[i].id <= ids' /\ job'[h].lines[i].lsn <= ids'
    PROVE  \A g \in Handles : Numbered(job[g].lines)'
<1> SUFFICES ASSUME NEW g \in Handles, g # h
             PROVE  Numbered(job[g].lines)'
  BY DEF Numbered
<1>1. job[g].lines \in Seq(Line) /\ Numbered(job[g].lines) /\ ids \in Nat
  BY DEF TypeOK, Job, AllNumbered
<1>2. \A i \in DOMAIN job[g].lines : job[g].lines[i].id <= ids' /\ job[g].lines[i].lsn <= ids'
  BY <1>1, NumberedStays
<1> QED
  BY <1>2 DEF Numbered

\* What an append does.
LEMMA AppendIs ==
    ASSUME TypeOK, AllNumbered, NEW h \in Handles, AppendEntry(h)
    PROVE  LET l == [id |-> ids + 1, lsn |-> next[h], status |-> "pending"] IN
           /\ l \in Line /\ Written(l)
           /\ ids' = ids + 1 /\ ids' \in Nat
           /\ next' \in [Handles -> Nat] /\ next'[h] = next[h] + 1
           /\ \A g \in Handles : g # h => next'[g] = next[g]
           /\ job' \in [Handles -> Job]
           /\ \A g \in Handles : g # h => job'[g] = job[g]
           /\ job'[h].lines = job[h].lines /\ job'[h].pc = job[h].pc
<1> DEFINE l == [id |-> ids + 1, lsn |-> next[h], status |-> "pending"]
<1>1. ids \in Nat /\ next \in [Handles -> Nat] /\ job \in [Handles -> Job]
  BY DEF TypeOK
<1>2. l \in Line /\ l.lsn \in Nat
  BY <1>1 DEF Line
<1>3. /\ ids' = ids + 1 /\ next' = [next EXCEPT ![h] = @ + 1]
      /\ Leaves(l) \/ (file' = With(l) /\ open' = FALSE)
      /\ job' = job \/ job' = [job EXCEPT ![h].own = l.lsn]
  BY DEF AppendEntry
<1> HIDE DEF l
<1>4. Written(l)
  BY <1>2, <1>3, WrittenIs
<1>5. /\ job' \in [Handles -> Job]
      /\ \A g \in Handles : g # h => job'[g] = job[g]
      /\ job'[h].lines = job[h].lines /\ job'[h].pc = job[h].pc
  <2>1. CASE job' = job
    BY <1>1, <2>1
  <2>2. CASE job' = [job EXCEPT ![h].own = l.lsn]
    <3> DEFINE j == [job[h] EXCEPT !.own = l.lsn]
    <3>1. job' = [job EXCEPT ![h] = j]
      BY <1>1, <2>2
    <3>2. j \in Job /\ j.lines = job[h].lines /\ j.pc = job[h].pc
      BY <1>1, <1>2 DEF Job
    <3> HIDE DEF j
    <3> QED
      BY <1>1, <3>1, <3>2
  <2> QED
    BY <1>3, <2>1, <2>2
<1>6. /\ ids' \in Nat /\ next' \in [Handles -> Nat] /\ next'[h] = next[h] + 1
      /\ \A g \in Handles : g # h => next'[g] = next[g]
  BY <1>1, <1>3
<1> QED
  BY <1>2, <1>3, <1>4, <1>5, <1>6 DEF l

\* A step of the log keeps its types.
LEMMA TypeStep ==
    ASSUME TypeOK, AllNumbered, Next
    PROVE  TypeOK' /\ AllNumbered'
<1> USE DEF counters, history
<1>1. /\ kind' = kind /\ kind \in Kinds /\ file \in Seq(Line) /\ open \in BOOLEAN
      /\ tmp \subseteq Seq(Line) /\ next \in [Handles -> Nat] /\ job \in [Handles -> Job]
      /\ ids \in Nat /\ faults \in Nat /\ crashes \in Nat /\ cut \in BOOLEAN
      /\ acked \subseteq Nat /\ gone \subseteq Nat /\ marked \subseteq Nat
  BY DEF TypeOK, Next
<1>2. \A g \in Handles : /\ job[g].lines \in Seq(Line) /\ job[g].drop \subseteq Nat
                         /\ job[g].mark \subseteq Nat
  BY <1>1 DEF Job
<1>3. /\ Numbered(file) /\ \A s \in tmp : Numbered(s)
      /\ \A g \in Handles : Numbered(job[g].lines) /\ next[g] <= ids + 1
  BY DEF AllNumbered
<1>4. ASSUME NEW h \in Handles, Open(h) PROVE TypeOK' /\ AllNumbered'
  <2>1. Recovered \in Nat /\ Recovered <= ids + 1
    BY <1>1, <1>3, RecoveredIs
  <2>2. /\ next' = [next EXCEPT ![h] = Recovered]
        /\ UNCHANGED <<file, open, tmp, job, ids, faults, crashes, cut, acked, gone, marked>>
    BY <1>4 DEF Open
  <2>3. next' \in [Handles -> Nat] /\ \A g \in Handles : next'[g] <= ids + 1
    BY <1>1, <1>3, <2>1, <2>2
  <2> QED
    BY <1>1, <1>3, <2>2, <2>3 DEF TypeOK, AllNumbered, Numbered
<1>5. ASSUME NEW h \in Handles, AppendEntry(h) PROVE TypeOK' /\ AllNumbered'
  <2> DEFINE l == [id |-> ids + 1, lsn |-> next[h], status |-> "pending"]
  <2>1. /\ l \in Line /\ Written(l) /\ ids' = ids + 1 /\ ids' \in Nat
        /\ next' \in [Handles -> Nat] /\ next'[h] = next[h] + 1
        /\ \A g \in Handles : g # h => next'[g] = next[g]
        /\ job' \in [Handles -> Job] /\ job'[h].lines = job[h].lines
        /\ \A g \in Handles : g # h => job'[g] = job[g]
    BY <1>5, AppendIs
  <2>2. /\ tmp' = tmp /\ faults' \in Nat /\ crashes' = crashes /\ gone' = gone
        /\ marked' = marked /\ acked' \subseteq Nat
    BY <1>1, <1>5 DEF AppendEntry, Fails, Works
  <2>3. cut' \in BOOLEAN
    BY <1>1, <1>5 DEF AppendEntry
  <2>4. l.id <= ids' /\ l.lsn <= ids'
    BY <1>1, <1>3, <2>1
  <2> HIDE DEF l
  <2>5. ids <= ids' /\ Numbered(file)'
    BY <1>1, <1>3, <2>1, <2>4, WrittenNumbered
  <2>6. \A s \in tmp : \A i \in DOMAIN s : s[i].id <= ids' /\ s[i].lsn <= ids'
    BY <1>1, <1>3, <2>1, <2>5, NumberedStays
  <2>7. \A i \in DOMAIN job[h].lines : job[h].lines[i].id <= ids' /\ job[h].lines[i].lsn <= ids'
    BY <1>1, <1>2, <1>3, <2>1, <2>5, NumberedStays
  <2>8. \A g \in Handles : Numbered(job[g].lines)'
    BY <2>1, <2>5, <2>7, JobsNumbered
  <2>9. \A g \in Handles : next'[g] <= ids' + 1
    BY <1>1, <1>3, <2>1
  <2>10. TypeOK'
    BY <1>1, <2>1, <2>2, <2>3 DEF TypeOK, Written
  <2> QED
    BY <2>2, <2>5, <2>6, <2>8, <2>9, <2>10 DEF AllNumbered, Numbered
<1>6. ASSUME NEW h \in Handles, ReadPending(h) PROVE TypeOK' /\ AllNumbered'
  <2> DEFINE j == [job[h] EXCEPT !.batch = Pending]
  <2>1. job' = [job EXCEPT ![h] = j]
    BY <1>1, <1>6 DEF ReadPending
  <2>2. \A k \in DOMAIN Entries : Entries[k].lsn \in Nat
    <3>1. \A k \in DOMAIN Entries : Entries[k] \in Line
      BY <1>1, EntriesIs, LenProperties, ElementOfSeq
    <3> QED
      BY <3>1 DEF Line
  <2>3. Pending \subseteq Nat
    BY <2>2 DEF Pending, ToSet
  <2>4. j \in Job /\ j.lines = job[h].lines
    BY <1>1, <2>3 DEF Job
  <2> HIDE DEF j
  <2>5. job' \in [Handles -> Job] /\ \A g \in Handles : job'[g].lines = job[g].lines
    BY <1>1, <2>1, <2>4
  <2>6. UNCHANGED <<file, open, tmp, next, ids, faults, crashes, cut, acked, gone, marked>>
    BY <1>6 DEF ReadPending
  <2> QED
    BY <1>1, <1>3, <2>5, <2>6 DEF TypeOK, AllNumbered, Numbered
<1>7. ASSUME NEW h \in Handles, MarkApplied(h) \/ MarkFailed(h) \/ Compact(h) \/ Touch(h)
      PROVE TypeOK' /\ AllNumbered'
  <2>1. PICK lines, drop, mark : Rewritten(lines, drop, mark) /\ Rewrite(h, lines, drop, mark)
    BY <1>7, RewriteIs
  <2>2. /\ job' \in [Handles -> Job] /\ job'[h].lines = lines
        /\ \A g \in Handles : g # h => job'[g] = job[g]
    BY <2>1, RewriteJob
  <2>3. UNCHANGED <<file, open, tmp, next, ids, faults, crashes, cut, acked, gone, marked>>
    BY <2>1 DEF Rewrite
  <2>4. Numbered(lines)
    BY <1>3, <2>1, DrawsKeep DEF Rewritten
  <2>5. \A g \in Handles : Numbered(job[g].lines)'
    BY <1>1, <2>2, <2>3, <2>4, JobsNumbered DEF Numbered
  <2> QED
    BY <1>1, <1>3, <2>2, <2>3, <2>5 DEF TypeOK, AllNumbered, Numbered
<1>8. ASSUME NEW h \in Handles, WriteTmp(h) PROVE TypeOK' /\ AllNumbered'
  <2>0. UNCHANGED <<file, open, next, ids, crashes, cut, acked, gone, marked>>
    BY <1>8 DEF WriteTmp, GiveUp
  <2>1. CASE /\ faults' = faults /\ tmp' = {job[h].lines}
             /\ job' = [job EXCEPT ![h].pc = "rename"]
    <3> DEFINE j == [job[h] EXCEPT !.pc = "rename"]
    <3>1. job' = [job EXCEPT ![h] = j]
      BY <1>1, <2>1
    <3>2. j \in Job /\ j.lines = job[h].lines
      BY <1>1 DEF Job
    <3> HIDE DEF j
    <3>3. job' \in [Handles -> Job] /\ \A g \in Handles : job'[g].lines = job[g].lines
      BY <1>1, <3>1, <3>2
    <3> QED
      BY <1>1, <1>2, <1>3, <2>0, <2>1, <3>3 DEF TypeOK, AllNumbered, Numbered
  <2>2. CASE /\ Fails /\ GiveUp(h)
             /\ \E n \in 0 .. Len(job[h].lines) : tmp' = {SubSeq(job[h].lines, 1, n)}
    <3>1. /\ job' \in [Handles -> Job] /\ job'[h].lines = <<>>
          /\ \A g \in Handles : g # h => job'[g] = job[g]
      BY <2>2, EndsIs
    <3>2. PICK n \in 0 .. Len(job[h].lines) : tmp' = {SubSeq(job[h].lines, 1, n)}
      BY <2>2
    <3> DEFINE s == SubSeq(job[h].lines, 1, n)
    <3>3. s \in Seq(Line) /\ DOMAIN s = 1 .. n /\ \A i \in 1 .. n : s[i] = job[h].lines[i]
      <4>1. Len(job[h].lines) \in Nat /\ n \in Nat /\ n <= Len(job[h].lines)
        BY <1>2, LenProperties
      <4>2. /\ s \in Seq(Line) /\ Len(s) = n
            /\ \A i \in 1 .. n : s[i] = job[h].lines[i]
        <5>1. /\ s \in Seq(Line)
              /\ Len(s) = IF 1 <= n THEN n - 1 + 1 ELSE 0
              /\ \A i \in 1 .. n - 1 + 1 : s[i] = job[h].lines[1 + i - 1]
          BY <1>2, <4>1, SubSeqProperties
        <5> HIDE DEF s
        <5> QED
          BY <4>1, <5>1
      <4> HIDE DEF s
      <4> QED
        BY <4>2, LenProperties
    <3>4. Numbered(s)
      <4>1. DOMAIN job[h].lines = 1 .. Len(job[h].lines) /\ Len(job[h].lines) \in Nat
        BY <1>2, LenProperties
      <4>2. \A i \in DOMAIN s : i \in DOMAIN job[h].lines /\ s[i] = job[h].lines[i]
        BY <3>3, <4>1
      <4> QED
        BY <1>3, <4>2 DEF Numbered
    <3>5. tmp' = {s}
      BY <3>2
    <3> HIDE DEF s
    <3>6. \A g \in Handles : Numbered(job[g].lines)'
      <4>1. \A g \in Handles : g # h => job'[g].lines = job[g].lines
        BY <3>1
      <4> QED
        BY <1>3, <2>0, <3>1, <4>1 DEF Numbered
    <3>7. faults' \in Nat
      BY <1>1, <2>2 DEF Fails
    <3>8. TypeOK'
      BY <1>1, <2>0, <3>1, <3>3, <3>5, <3>7 DEF TypeOK
    <3> QED
      BY <1>3, <2>0, <3>4, <3>5, <3>6, <3>8 DEF AllNumbered, Numbered
  <2> QED
    BY <1>8, <2>1, <2>2 DEF WriteTmp, Works
<1>9. ASSUME NEW h \in Handles, Rename(h) \/ Filled(h) PROVE TypeOK' /\ AllNumbered'
  <2>1. /\ job' \in [Handles -> Job] /\ job'[h].lines = <<>>
        /\ \A g \in Handles : g # h => job'[g] = job[g]
    BY <1>9, EndsIs DEF Rename, Filled
  <2>2. UNCHANGED <<next, ids, crashes, cut>>
    BY <1>9 DEF Rename, Filled
  <2>3. /\ acked' \subseteq Nat /\ gone' \subseteq Nat /\ marked' \subseteq Nat
    <3>1. Done(h) \/ GiveUp(h)
      BY <1>9 DEF Rename, Filled
    <3> QED
      BY <1>1, <1>2, <3>1 DEF Done, GiveUp
  <2>4. /\ \/ file' \in tmp /\ open' = FALSE
           \/ file' = file /\ open' = open
        /\ tmp' \subseteq tmp
    BY <1>9 DEF Rename, Filled
  <2>5. faults' \in Nat
    BY <1>1, <1>9 DEF Rename, Filled, Fails, Works
  <2>6. file' \in Seq(Line) /\ open' \in BOOLEAN /\ tmp' \subseteq Seq(Line)
    BY <1>1, <2>4
  <2>7. Numbered(file)' /\ \A s \in tmp' : Numbered(s)
    BY <1>3, <2>2, <2>4 DEF Numbered
  <2>8. \A g \in Handles : Numbered(job[g].lines)'
    <3>1. \A g \in Handles : g # h => job'[g].lines = job[g].lines
      BY <2>1
    <3> QED
      BY <1>3, <2>1, <2>2, <3>1 DEF Numbered
  <2>9. TypeOK'
    BY <1>1, <2>1, <2>2, <2>3, <2>5, <2>6 DEF TypeOK
  <2> QED
    BY <1>3, <2>2, <2>7, <2>8, <2>9 DEF AllNumbered, Numbered
<1>10. ASSUME NEW h \in Handles, Truncate(h) PROVE TypeOK' /\ AllNumbered'
  <2> DEFINE j == [job[h] EXCEPT !.pc = "fill"]
  <2>1. job' = [job EXCEPT ![h] = j]
    BY <1>1, <1>10 DEF Truncate
  <2>2. j \in Job /\ j.lines = job[h].lines
    BY <1>1 DEF Job
  <2> HIDE DEF j
  <2>3. job' \in [Handles -> Job] /\ \A g \in Handles : job'[g].lines = job[g].lines
    BY <1>1, <2>1, <2>2
  <2>4. /\ file' = <<>> /\ open' = FALSE
        /\ UNCHANGED <<tmp, next, ids, faults, crashes, cut, acked, gone, marked>>
    BY <1>10 DEF Truncate
  <2>5. file' \in Seq(Line) /\ Numbered(file)'
    BY <2>4 DEF Numbered
  <2> QED
    BY <1>1, <1>3, <2>3, <2>4, <2>5 DEF TypeOK, AllNumbered, Numbered
<1>11. ASSUME NEW h \in Handles, Fill(h) PROVE TypeOK' /\ AllNumbered'
  <2> DEFINE l == Head(job[h].lines)
  <2>1. /\ job[h].lines # <<>> /\ UNCHANGED <<tmp, next, ids, crashes, acked, gone, marked>>
        /\ (Leaves(l) \/ (file' = With(l) /\ open' = FALSE))
        /\ faults' \in Nat /\ cut' \in BOOLEAN
    <3>1. job[h].lines # <<>> /\ UNCHANGED <<tmp, next, ids, crashes>>
      BY <1>11 DEF Fill
    <3>2. \/ Works /\ file' = With(l) /\ open' = FALSE /\ UNCHANGED <<cut, history>>
          \/ Fails /\ Leaves(l) /\ cut' = TRUE /\ GiveUp(h)
      BY <1>11 DEF Fill
    <3>3. UNCHANGED <<acked, gone, marked>> /\ faults' \in Nat
      BY <1>1, <3>2 DEF GiveUp, Fails, Works
    <3>4. cut' \in BOOLEAN
      BY <1>1, <3>2
    <3> QED
      BY <3>1, <3>2, <3>3, <3>4
  <2>2. l = job[h].lines[1] /\ l \in Line /\ 1 \in DOMAIN job[h].lines
    <3>1. Len(job[h].lines) \in Nat /\ DOMAIN job[h].lines = 1 .. Len(job[h].lines)
      BY <1>2, LenProperties
    <3>2. Len(job[h].lines) # 0
      BY <1>2, <2>1, EmptySeq
    <3> QED
      BY <1>2, <2>1, <3>1, <3>2, HeadTailProperties
  <2>3. l.id <= ids' /\ l.lsn <= ids' /\ ids' \in Nat /\ ids <= ids'
    BY <1>1, <1>3, <2>1, <2>2 DEF Numbered
  <2> HIDE DEF l
  <2>4. Written(l) /\ Numbered(file)'
    BY <1>3, <2>1, <2>2, <2>3, WrittenIs, WrittenNumbered
  <2>5. /\ job' \in [Handles -> Job]
        /\ \A g \in Handles : g # h => job'[g] = job[g]
        /\ \A i \in DOMAIN job'[h].lines :
             job'[h].lines[i].id <= ids' /\ job'[h].lines[i].lsn <= ids'
    <3>1. CASE GiveUp(h)
      BY <3>1, EndsIs
    <3>2. CASE job' = [job EXCEPT ![h].lines = Tail(@)]
      <4> DEFINE j == [job[h] EXCEPT !.lines = Tail(job[h].lines)]
      <4>1. job' = [job EXCEPT ![h] = j]
        BY <1>1, <3>2
      <4>2. Tail(job[h].lines) \in Seq(Line)
        BY <1>2, <2>1, HeadTailProperties
      <4>3. j \in Job /\ j.lines = Tail(job[h].lines)
        BY <1>1, <4>2 DEF Job
      <4>4. \A i \in DOMAIN Tail(job[h].lines) :
               i + 1 \in DOMAIN job[h].lines /\ Tail(job[h].lines)[i] = job[h].lines[i + 1]
        BY <1>2, <2>1, TailIs
      <4>5. \A i \in DOMAIN j.lines : j.lines[i].id <= ids' /\ j.lines[i].lsn <= ids'
        BY <1>3, <2>1, <4>3, <4>4 DEF Numbered
      <4> HIDE DEF j
      <4> QED
        BY <1>1, <4>1, <4>3, <4>5
    <3> QED
      BY <1>11, <3>1, <3>2 DEF Fill
  <2>6. \A g \in Handles : Numbered(job[g].lines)'
    BY <2>3, <2>5, JobsNumbered
  <2>7. TypeOK'
    BY <1>1, <2>1, <2>4, <2>5 DEF TypeOK, Written
  <2> QED
    BY <1>3, <2>1, <2>4, <2>6, <2>7 DEF AllNumbered, Numbered
<1>12. CASE Crash
  <2>1. \A g \in Handles : job'[g] = Idle /\ next'[g] = 0
    BY <1>12 DEF Crash
  <2>2. Idle \in Job /\ Idle.lines = <<>>
    BY DEF Idle, Job
  <2>3. /\ job' \in [Handles -> Job] /\ next' \in [Handles -> Nat]
        /\ crashes' \in Nat /\ cut' \in BOOLEAN
        /\ UNCHANGED <<file, open, tmp, ids, faults, acked, gone, marked>>
    BY <1>1, <1>12, <2>2 DEF Crash
  <2> QED
    BY <1>1, <1>3, <2>1, <2>2, <2>3 DEF TypeOK, AllNumbered, Numbered
<1> QED
  BY <1>4, <1>5, <1>6, <1>7, <1>8, <1>9, <1>10, <1>11, <1>12 DEF Next, Step

\* Every line, written or about to be, is an entry of the log or what no reader
\* can parse, with numbers no append has yet to give out.
THEOREM TypeCorrect == Spec => []TypeOK
<1>1. Init => TypeOK /\ AllNumbered
  <2> SUFFICES ASSUME Init PROVE TypeOK /\ AllNumbered
    OBVIOUS
  <2>1. Idle \in Job /\ Idle.lines = <<>>
    BY DEF Idle, Job
  <2>2. TypeOK
    <3>1. /\ file \in Seq(Line) /\ tmp \subseteq Seq(Line) /\ next \in [Handles -> Nat]
          /\ job \in [Handles -> Job]
      BY <2>1 DEF Init
    <3> QED
      BY <3>1 DEF Init, TypeOK
  <2>3. \A h \in Handles : job[h].lines = <<>> /\ next[h] = 0
    BY <2>1 DEF Init
  <2>4. file = <<>> /\ tmp = {} /\ ids = 0
    BY DEF Init
  <2> QED
    BY <2>2, <2>3, <2>4 DEF AllNumbered, Numbered
<1>2. TypeOK /\ AllNumbered /\ [Next]_vars => (TypeOK /\ AllNumbered)'
  <2> SUFFICES ASSUME TypeOK, AllNumbered, [Next]_vars PROVE TypeOK' /\ AllNumbered'
    OBVIOUS
  <2>1. CASE Next
    BY <2>1, TypeStep
  <2>2. CASE UNCHANGED vars
    BY <2>2 DEF vars, counters, history, TypeOK, AllNumbered, Numbered
  <2> QED
    BY <2>1, <2>2
<1> QED
  BY <1>1, <1>2, PTL DEF Spec

-----------------------------------------------------------------------------
(* One handle *)

\* The numbers of the file after a write of l.
LEMMA WrittenKeeps ==
    ASSUME NEW l, Written(l)
    PROVE  /\ Distinct(file) /\ (\A i \in DOMAIN file : file[i].id # 0 /\ l.id # 0 =>
                                     file[i].id # l.id /\ file[i].lsn # l.lsn)
                => Distinct(file)'
           /\ \A S : Settled(file, S) /\ (l.id \in S => l.status # "pending")
                => \A i \in DOMAIN file' : file'[i].id \in S => file'[i].status # "pending"
           /\ \A n : Below(file, n) /\ (l.id # 0 => l.lsn < n)
                => \A i \in DOMAIN file' : file'[i].id # 0 => file'[i].lsn < n
<1>1. Garbage.id = 0 /\ Garbage.status = "garbage"
  BY DEF Garbage
<1>2. \A k \in DOMAIN file' :
         \/ k \in DOMAIN file /\ file'[k] = file[k]
         \/ file'[k] = Garbage
         \/ k = Len(file) + 1 /\ file'[k] = l
  BY DEF Written
<1>3. ASSUME Distinct(file),
             \A i \in DOMAIN file : file[i].id # 0 /\ l.id # 0 =>
                file[i].id # l.id /\ file[i].lsn # l.lsn
      PROVE  Distinct(file)'
  <2> SUFFICES ASSUME NEW i \in DOMAIN file', NEW j \in DOMAIN file',
                      file'[i].id # 0, file'[j].id # 0,
                      file'[i].id = file'[j].id \/ file'[i].lsn = file'[j].lsn
               PROVE  i = j
    BY DEF Distinct
  <2>1. CASE i \in DOMAIN file /\ file'[i] = file[i]
    <3>1. CASE j \in DOMAIN file /\ file'[j] = file[j]
      BY <1>3, <2>1, <3>1 DEF Distinct
    <3>2. CASE j = Len(file) + 1 /\ file'[j] = l
      BY <1>3, <2>1, <3>2
    <3> QED
      BY <1>1, <1>2, <3>1, <3>2
  <2>2. CASE i = Len(file) + 1 /\ file'[i] = l
    <3>1. CASE j \in DOMAIN file /\ file'[j] = file[j]
      BY <1>3, <2>2, <3>1
    <3>2. CASE j = Len(file) + 1 /\ file'[j] = l
      BY <2>2, <3>2
    <3> QED
      BY <1>1, <1>2, <3>1, <3>2
  <2> QED
    BY <1>1, <1>2, <2>1, <2>2
<1>4. ASSUME NEW S, Settled(file, S), l.id \in S => l.status # "pending"
      PROVE  \A i \in DOMAIN file' : file'[i].id \in S => file'[i].status # "pending"
  BY <1>1, <1>2, <1>4 DEF Settled
<1>5. ASSUME NEW n, Below(file, n), l.id # 0 => l.lsn < n
      PROVE  \A i \in DOMAIN file' : file'[i].id # 0 => file'[i].lsn < n
  BY <1>1, <1>2, <1>5 DEF Below
<1> QED
  BY <1>3, <1>4, <1>5

\* An entry of the file has a number of an append.
LEMMA EntryNumber ==
    ASSUME TypeOK, AllNumbered, NEW i \in DOMAIN file, file[i].id # 0
    PROVE  file[i].id \in 1 .. ids
<1>1. file[i] \in Line
  BY LenProperties, ElementOfSeq DEF TypeOK
<1>2. file[i].id \in Nat /\ file[i].id <= ids /\ ids \in Nat
  BY <1>1 DEF Line, AllNumbered, Numbered, TypeOK
<1> QED
  BY <1>2

\* A handle is opened while it does nothing.
LEMMA OpenKeeps ==
    ASSUME NEW h \in Handles, LogInv(h), Open(h), kind' = kind
    PROVE  HandleInv(h)' /\ RewriteInv(h)' /\ KeptInv(h)'
<1> USE DEF counters, history
<1>1. /\ next[h] = 0 /\ next' = [next EXCEPT ![h] = Recovered]
      /\ UNCHANGED <<file, open, tmp, job, ids, cut, acked, gone, marked>>
  BY DEF Open
<1>2. file \in Seq(Line) /\ ids \in Nat /\ Numbered(file) /\ next \in [Handles -> Nat]
  BY DEF LogInv, TypeOK, AllNumbered
<1>3. next'[h] = Recovered /\ Below(file, Recovered)
  BY <1>1, <1>2, RecoveredIs
<1>4. job[h].pc = "idle"
  BY <1>1 DEF LogInv, RewriteInv
<1>5. HandleInv(h)'
  BY <1>1, <1>3 DEF LogInv, HandleInv, Below, Distinct, Settled
<1>6. RewriteInv(h)'
  BY <1>1, <1>4 DEF RewriteInv
<1>7. KeptInv(h)'
  BY <1>1 DEF LogInv, KeptInv, Holds
<1> QED
  BY <1>5, <1>6, <1>7

\* An append has numbers of its own.
LEMMA AppendKeeps ==
    ASSUME NEW h \in Handles, LogInv(h), AppendEntry(h), kind' = kind
    PROVE  HandleInv(h)' /\ RewriteInv(h)' /\ KeptInv(h)'
<1> DEFINE l == [id |-> ids + 1, lsn |-> next[h], status |-> "pending"]
<1>0. TypeOK /\ AllNumbered /\ HandleInv(h) /\ KeptInv(h)
  BY DEF LogInv
<1>1. /\ ids \in Nat /\ next[h] \in Nat /\ next[h] > 0 /\ job[h].pc = "idle"
      /\ acked \subseteq Nat /\ file \in Seq(Line)
  BY <1>0 DEF AppendEntry, Ready, TypeOK
<1>2. /\ l \in Line /\ Written(l) /\ ids' = ids + 1 /\ next'[h] = next[h] + 1
      /\ job'[h].pc = "idle"
  BY <1>0, <1>1, AppendIs
<1>3. /\ gone' = gone /\ marked' = marked
      /\ \/ file' = With(l) /\ open' = FALSE /\ acked' = acked \cup {l.id} /\ cut' = cut
         \/ acked' = acked /\ cut' = (cut \/ open')
  BY DEF AppendEntry
<1>4. l.id = ids + 1 /\ l.lsn = next[h]
  OBVIOUS
<1> HIDE DEF l
<1>5. \A i \in DOMAIN file : file[i].id # 0 => file[i].id # l.id /\ file[i].lsn # l.lsn
  <2> SUFFICES ASSUME NEW i \in DOMAIN file, file[i].id # 0
               PROVE  file[i].id # l.id /\ file[i].lsn # l.lsn
    OBVIOUS
  <2>1. file[i].id \in 1 .. ids
    BY <1>0, EntryNumber
  <2>2. file[i].lsn < next[h] /\ file[i].lsn \in Nat
    <3>1. file[i] \in Line
      BY <1>1, LenProperties, ElementOfSeq
    <3> QED
      BY <1>0, <1>1, <3>1 DEF HandleInv, Below, Line
  <2> QED
    BY <1>1, <1>4, <2>1, <2>2
<1>6. HandleInv(h)'
  <2>1. acked' \subseteq 1 .. ids' /\ marked' \subseteq 1 .. ids'
    <3>1. acked \subseteq 1 .. ids /\ marked \subseteq 1 .. ids
      BY <1>0 DEF HandleInv
    <3>2. 1 .. ids \subseteq 1 .. ids' /\ l.id \in 1 .. ids'
      BY <1>1, <1>2, <1>4
    <3>3. acked' \subseteq acked \cup {l.id} /\ marked' = marked
      BY <1>3
    <3> QED
      BY <3>1, <3>2, <3>3
  <2>2. open' => file' # <<>>
    BY <1>0, <1>2 DEF HandleInv, Written
  <2>3. Distinct(file)'
    BY <1>0, <1>2, <1>5, WrittenKeeps DEF HandleInv
  <2>4. Below(file, next[h])'
    <3>1. \A i \in DOMAIN file : file[i].id # 0 => file[i].lsn < next[h] + 1
      <4> SUFFICES ASSUME NEW i \in DOMAIN file, file[i].id # 0
                   PROVE  file[i].lsn < next[h] + 1
        OBVIOUS
      <4>1. file[i] \in Line
        BY <1>1, LenProperties, ElementOfSeq
      <4>2. file[i].lsn \in Nat /\ file[i].lsn < next[h]
        BY <1>0, <1>1, <4>1 DEF HandleInv, Below, Line
      <4> QED
        BY <1>1, <4>2
    <3>2. Below(file, next[h] + 1) /\ l.lsn < next[h] + 1
      BY <1>1, <1>4, <3>1 DEF Below
    <3>3. \A i \in DOMAIN file' : file'[i].id # 0 => file'[i].lsn < next[h] + 1
      BY <1>2, <3>2, WrittenKeeps
    <3> QED
      BY <1>2, <3>3 DEF Below
  <2>5. Settled(file, marked)'
    <3>1. l.id \notin marked
      BY <1>0, <1>1, <1>4 DEF HandleInv
    <3>2. \A i \in DOMAIN file' : file'[i].id \in marked => file'[i].status # "pending"
      BY <1>0, <1>2, <3>1, WrittenKeeps DEF HandleInv
    <3> QED
      BY <1>3, <3>2 DEF Settled
  <2> QED
    BY <2>1, <2>2, <2>3, <2>4, <2>5 DEF HandleInv
<1>7. RewriteInv(h)'
  BY <1>2 DEF RewriteInv
<1>8. KeptInv(h)'
  <2> SUFFICES ASSUME ~ cut' PROVE ~ open' /\ Holds(file, acked \ gone)'
    BY <1>2 DEF KeptInv
  <2>1. ~ cut
    BY <1>3
  <2>2. ~ open /\ Holds(file, acked \ gone)
    BY <1>0, <1>1, <2>1 DEF KeptInv
  <2>3. \A k \in DOMAIN file : k \in DOMAIN file' /\ file'[k] = file[k]
    BY <1>2, <2>2 DEF Written
  <2>4. CASE file' = With(l) /\ open' = FALSE /\ acked' = acked \cup {l.id}
    <3>1. Len(file) + 1 \in DOMAIN file' /\ file'[Len(file) + 1] = l
      BY <1>1, <1>2, <2>2, <2>4, WithIs
    <3> QED
      BY <1>3, <2>2, <2>3, <2>4, <3>1 DEF Holds
  <2>5. CASE acked' = acked /\ cut' = (cut \/ open')
    BY <1>3, <2>2, <2>3, <2>5 DEF Holds
  <2> QED
    BY <1>3, <2>4, <2>5
<1> QED
  BY <1>6, <1>7, <1>8

\* A reader changes nothing but what it has read.
LEMMA ReadKeeps ==
    ASSUME NEW h \in Handles, LogInv(h), ReadPending(h), kind' = kind
    PROVE  HandleInv(h)' /\ RewriteInv(h)' /\ KeptInv(h)'
<1> USE DEF counters, history
<1>1. /\ UNCHANGED <<file, open, tmp, next, ids, cut, acked, gone, marked>>
      /\ job[h].pc = "idle" /\ job' = [job EXCEPT ![h].batch = Pending]
      /\ job \in [Handles -> Job]
  BY DEF ReadPending, Ready, LogInv, TypeOK
<1>2. job'[h].pc = "idle"
  <2>1. job'[h] = [job[h] EXCEPT !.batch = Pending]
    BY <1>1
  <2> QED
    BY <1>1, <2>1 DEF Job
<1>3. HandleInv(h)'
  BY <1>1 DEF LogInv, HandleInv, Below, Distinct, Settled
<1>4. RewriteInv(h)'
  BY <1>2 DEF RewriteInv
<1>5. KeptInv(h)'
  BY <1>1, <1>2 DEF LogInv, KeptInv, Holds
<1> QED
  BY <1>3, <1>4, <1>5

\* A rewrite starts from lines that lose no entry and no mark.
LEMMA RewriteKeeps ==
    ASSUME NEW h \in Handles, LogInv(h), kind' = kind,
           MarkApplied(h) \/ MarkFailed(h) \/ Compact(h) \/ Touch(h)
    PROVE  HandleInv(h)' /\ RewriteInv(h)' /\ KeptInv(h)'
<1> USE DEF counters, history
<1>0. TypeOK /\ AllNumbered /\ HandleInv(h) /\ KeptInv(h)
  BY DEF LogInv
<1>1. PICK lines, drop, mark : Rewritten(lines, drop, mark) /\ Rewrite(h, lines, drop, mark)
  BY <1>0, RewriteIs
<1>2. /\ job'[h].pc = "rewrite" /\ job'[h].lines = lines
      /\ job'[h].drop = drop /\ job'[h].mark = mark
  BY <1>0, <1>1, RewriteJob
<1>3. /\ UNCHANGED <<file, open, tmp, next, ids, cut, acked, gone, marked>>
      /\ next[h] > 0 /\ job[h].pc = "idle"
  BY <1>1 DEF Rewrite, Ready
<1>4. HandleInv(h)'
  BY <1>0, <1>3 DEF HandleInv, Below, Distinct, Settled
<1>5. RewriteInv(h)'
  <2>1. Distinct(lines) /\ Below(lines, next[h])
    BY <1>0, <1>1, <1>3, DrawsKeep DEF HandleInv, Rewritten
  <2>2. mark \subseteq 1 .. ids
    BY <1>0, <1>1, EntryNumber DEF Rewritten
  <2>3. Settled(lines, marked \cup mark)
    BY <1>0, <1>1 DEF Rewritten, HandleInv, Settled
  <2>4. ~ Atomic' => drop = {}
    BY <1>1 DEF Rewritten, Atomic
  <2> QED
    BY <1>2, <1>3, <2>1, <2>2, <2>3, <2>4 DEF RewriteInv, Distinct, Below, Settled
<1>6. KeptInv(h)'
  <2> SUFFICES ASSUME ~ cut'
               PROVE  ~ open' /\ Holds(file, acked \ gone)'
                      /\ Holds(job[h].lines, (acked \ gone) \ job[h].drop)'
    BY <1>2 DEF KeptInv
  <2>1. ~ open /\ Holds(file, acked \ gone)
    BY <1>0, <1>3 DEF KeptInv
  <2>2. \A i \in acked \ gone : i \in drop \/ \E k \in DOMAIN lines : lines[k].id = i
    <3> TAKE i \in acked \ gone
    <3>1. PICK k \in DOMAIN file : file[k].id = i
      BY <2>1 DEF Holds
    <3>2. i # 0
      BY <1>0 DEF HandleInv
    <3> QED
      BY <1>1, <3>1, <3>2 DEF Rewritten
  <2> QED
    BY <1>2, <1>3, <2>1, <2>2 DEF Holds
<1> QED
  BY <1>4, <1>5, <1>6

\* The temporary file holds the lines of the rewrite.
LEMMA WriteTmpKeeps ==
    ASSUME NEW h \in Handles, LogInv(h), WriteTmp(h), kind' = kind
    PROVE  HandleInv(h)' /\ RewriteInv(h)' /\ KeptInv(h)'
<1> USE DEF history
<1>0. TypeOK /\ HandleInv(h) /\ RewriteInv(h) /\ KeptInv(h) /\ job \in [Handles -> Job]
  BY DEF LogInv, TypeOK
<1>1. /\ Atomic /\ job[h].pc = "rewrite"
      /\ UNCHANGED <<file, open, next, ids, cut, acked, gone, marked>>
  BY DEF WriteTmp, GiveUp
<1>2. HandleInv(h)'
  BY <1>0, <1>1 DEF HandleInv, Below, Distinct, Settled
<1>3. CASE tmp' = {job[h].lines} /\ job' = [job EXCEPT ![h].pc = "rename"]
  <2>1. job'[h] = [job[h] EXCEPT !.pc = "rename"]
    BY <1>0, <1>3
  <2>2. /\ job'[h].pc = "rename" /\ job'[h].lines = job[h].lines
        /\ job'[h].drop = job[h].drop /\ job'[h].mark = job[h].mark
    BY <1>0, <2>1 DEF Job
  <2>3. RewriteInv(h)'
    <3>1. Atomic'
      BY <1>1 DEF Atomic
    <3> QED
      BY <1>0, <1>1, <1>3, <2>2, <3>1 DEF RewriteInv, Distinct, Below, Settled
  <2>4. KeptInv(h)'
    BY <1>0, <1>1, <2>2 DEF KeptInv, Holds
  <2> QED
    BY <1>2, <2>3, <2>4
<1>4. CASE GiveUp(h)
  <2>1. job'[h].pc = "idle"
    BY <1>0, <1>4, EndsIs
  <2>2. RewriteInv(h)'
    BY <2>1 DEF RewriteInv
  <2>3. KeptInv(h)'
    BY <1>0, <1>1, <2>1 DEF KeptInv, Holds
  <2> QED
    BY <1>2, <2>2, <2>3
<1> QED
  BY <1>3, <1>4 DEF WriteTmp

\* The renamed file is the one of the rewrite: what it drops and marks is
\* dropped and marked.
LEMMA RenameKeeps ==
    ASSUME NEW h \in Handles, LogInv(h), Rename(h), kind' = kind
    PROVE  HandleInv(h)' /\ RewriteInv(h)' /\ KeptInv(h)'
<1> USE DEF history
<1>0. TypeOK /\ HandleInv(h) /\ RewriteInv(h) /\ KeptInv(h)
  BY DEF LogInv
<1>1. job[h].pc = "rename" /\ UNCHANGED <<next, ids, cut>>
  BY DEF Rename
<1>2. job'[h].pc = "idle"
  BY <1>0, EndsIs DEF Rename
<1>3. RewriteInv(h)'
  BY <1>2 DEF RewriteInv
<1>4. CASE file' \in tmp /\ open' = FALSE /\ Done(h)
  <2>1. /\ file' = job[h].lines /\ Distinct(job[h].lines) /\ Below(job[h].lines, next[h])
        /\ job[h].mark \subseteq 1 .. ids /\ Settled(job[h].lines, marked \cup job[h].mark)
    BY <1>0, <1>1, <1>4 DEF RewriteInv
  <2>2. /\ gone' = gone \cup job[h].drop /\ marked' = marked \cup job[h].mark
        /\ acked' = acked
    BY <1>4 DEF Done
  <2>3. HandleInv(h)'
    BY <1>0, <1>1, <1>4, <2>1, <2>2 DEF HandleInv, Distinct, Below, Settled
  <2>4. KeptInv(h)'
    <3>1. ~ cut => Holds(job[h].lines, (acked \ gone) \ job[h].drop)
      BY <1>0, <1>1 DEF KeptInv
    <3> QED
      BY <1>1, <1>2, <1>4, <2>1, <2>2, <3>1 DEF KeptInv, Holds
  <2> QED
    BY <1>3, <2>3, <2>4
<1>5. CASE GiveUp(h) /\ UNCHANGED <<file, open, tmp>>
  <2>1. UNCHANGED <<acked, gone, marked>>
    BY <1>5 DEF GiveUp
  <2>2. HandleInv(h)'
    BY <1>0, <1>1, <1>5, <2>1 DEF HandleInv, Distinct, Below, Settled
  <2>3. KeptInv(h)'
    BY <1>0, <1>1, <1>2, <1>5, <2>1 DEF KeptInv, Holds
  <2> QED
    BY <1>3, <2>2, <2>3
<1> QED
  BY <1>4, <1>5 DEF Rename

\* A rewrite in place starts from the empty file.
LEMMA TruncateKeeps ==
    ASSUME NEW h \in Handles, LogInv(h), Truncate(h), kind' = kind
    PROVE  HandleInv(h)' /\ RewriteInv(h)' /\ KeptInv(h)'
<1> USE DEF counters, history
<1>0. TypeOK /\ HandleInv(h) /\ RewriteInv(h) /\ KeptInv(h) /\ job \in [Handles -> Job]
  BY DEF LogInv, TypeOK
<1>1. /\ ~ Atomic /\ job[h].pc = "rewrite" /\ file' = <<>> /\ open' = FALSE
      /\ job' = [job EXCEPT ![h].pc = "fill"]
      /\ UNCHANGED <<tmp, next, ids, cut, acked, gone, marked>>
  BY DEF Truncate
<1>2. job'[h] = [job[h] EXCEPT !.pc = "fill"]
  BY <1>0, <1>1
<1>3. /\ job'[h].pc = "fill" /\ job'[h].lines = job[h].lines
      /\ job'[h].drop = job[h].drop /\ job'[h].mark = job[h].mark
  BY <1>0, <1>2 DEF Job
<1>4. ~ Atomic' /\ DOMAIN file' = {}
  BY <1>1 DEF Atomic
<1>5. HandleInv(h)'
  BY <1>0, <1>1, <1>4 DEF HandleInv, Distinct, Below, Settled
<1>6. RewriteInv(h)'
  BY <1>0, <1>1, <1>3, <1>4 DEF RewriteInv, Distinct, Below, Settled, Apart
<1>7. KeptInv(h)'
  <2>1. ~ cut => Holds(job[h].lines, (acked \ gone) \ job[h].drop)
    BY <1>0, <1>1 DEF KeptInv
  <2>2. job[h].drop = {}
    BY <1>0, <1>1 DEF RewriteInv
  <2> QED
    BY <1>1, <1>3, <2>1, <2>2 DEF KeptInv, Holds
<1> QED
  BY <1>5, <1>6, <1>7

\* A line goes from what is to be written to the file.
LEMMA FillKeeps ==
    ASSUME NEW h \in Handles, LogInv(h), Fill(h), kind' = kind
    PROVE  HandleInv(h)' /\ RewriteInv(h)' /\ KeptInv(h)'
<1> USE DEF history
<1> DEFINE s == job[h].lines
           l == Head(s)
           M == marked \cup job[h].mark
<1>0. /\ TypeOK /\ HandleInv(h) /\ RewriteInv(h) /\ KeptInv(h)
      /\ job \in [Handles -> Job] /\ file \in Seq(Line)
  BY DEF LogInv, TypeOK
<1>1. /\ job[h].pc = "fill" /\ s # <<>> /\ UNCHANGED <<tmp, next, ids>>
      /\ \/ file' = With(l) /\ open' = FALSE /\ cut' = cut
            /\ job' = [job EXCEPT ![h].lines = Tail(@)]
            /\ UNCHANGED <<acked, gone, marked>>
         \/ Leaves(l) /\ cut' = TRUE /\ GiveUp(h)
  BY DEF Fill
<1>2. s \in Seq(Line)
  BY <1>0 DEF Job
<1>3. /\ l = s[1] /\ 1 \in DOMAIN s
      /\ \A i \in DOMAIN Tail(s) : i + 1 \in DOMAIN s /\ Tail(s)[i] = s[i + 1] /\ i \in Nat /\ i > 0
      /\ \A i \in DOMAIN s : i = 1 \/ (i - 1 \in DOMAIN Tail(s) /\ Tail(s)[i - 1] = s[i])
  BY <1>1, <1>2, TailIs
<1>4. l \in Line
  BY <1>2, <1>3, LenProperties, ElementOfSeq
<1>5. UNCHANGED <<acked, gone, marked>>
  BY <1>1 DEF GiveUp
<1>6. /\ next[h] > 0 /\ Distinct(s) /\ Below(s, next[h]) /\ job[h].mark \subseteq 1 .. ids
      /\ Settled(s, M) /\ ~ Atomic /\ job[h].drop = {} /\ Apart(file, s) /\ Settled(file, M)
  BY <1>0, <1>1 DEF RewriteInv
<1> HIDE DEF l, s, M
<1>7. Written(l)
  BY <1>0, <1>1, <1>4, WrittenIs
<1>8. \A i \in DOMAIN file : file[i].id # 0 /\ l.id # 0 =>
          file[i].id # l.id /\ file[i].lsn # l.lsn
  BY <1>3, <1>6 DEF Apart
<1>9. \A i \in DOMAIN file' : file'[i].id \in M => file'[i].status # "pending"
  <2>1. l.id \in M => l.status # "pending"
    BY <1>3, <1>6 DEF Settled
  <2> QED
    BY <1>6, <1>7, <2>1, WrittenKeeps
<1>10. HandleInv(h)'
  <2>1. Distinct(file)'
    BY <1>0, <1>7, <1>8, WrittenKeeps DEF HandleInv
  <2>2. Below(file, next[h])'
    <3>1. Below(file, next[h]) /\ (l.id # 0 => l.lsn < next[h])
      BY <1>0, <1>3, <1>6 DEF HandleInv, Below
    <3>2. \A i \in DOMAIN file' : file'[i].id # 0 => file'[i].lsn < next[h]
      BY <1>7, <3>1, WrittenKeeps
    <3> QED
      BY <1>1, <3>2 DEF Below
  <2>3. Settled(file, marked)'
    BY <1>5, <1>9 DEF Settled, M
  <2>4. open' => file' # <<>>
    BY <1>0, <1>7 DEF HandleInv, Written
  <2>5. acked' \subseteq 1 .. ids' /\ marked' \subseteq 1 .. ids'
    BY <1>0, <1>1, <1>5 DEF HandleInv
  <2> QED
    BY <2>1, <2>2, <2>3, <2>4, <2>5 DEF HandleInv
<1>11. CASE /\ file' = With(l) /\ open' = FALSE /\ cut' = cut
            /\ job' = [job EXCEPT ![h].lines = Tail(@)]
  <2>1. job'[h] = [job[h] EXCEPT !.lines = Tail(s)]
    BY <1>0, <1>11 DEF s
  <2>2. /\ job'[h].pc = "fill" /\ job'[h].lines = Tail(s)
        /\ job'[h].drop = {} /\ job'[h].mark = job[h].mark
    BY <1>0, <1>1, <1>6, <2>1 DEF Job
  <2>3. Distinct(Tail(s))
    <3> SUFFICES ASSUME NEW i \in DOMAIN Tail(s), NEW j \in DOMAIN Tail(s),
                        Tail(s)[i].id # 0, Tail(s)[j].id # 0,
                        Tail(s)[i].id = Tail(s)[j].id \/ Tail(s)[i].lsn = Tail(s)[j].lsn
                 PROVE  i = j
      BY DEF Distinct
    <3>1. /\ i + 1 \in DOMAIN s /\ Tail(s)[i] = s[i + 1] /\ i \in Nat
          /\ j + 1 \in DOMAIN s /\ Tail(s)[j] = s[j + 1] /\ j \in Nat
      BY <1>3
    <3>2. i + 1 = j + 1
      BY <1>6, <3>1 DEF Distinct
    <3> QED
      BY <3>1, <3>2
  <2>4. Below(Tail(s), next[h]) /\ Settled(Tail(s), M)
    BY <1>3, <1>6 DEF Below, Settled
  <2>5. \A i \in DOMAIN file', j \in DOMAIN Tail(s) :
           file'[i].id # 0 /\ Tail(s)[j].id # 0 =>
              file'[i].id # Tail(s)[j].id /\ file'[i].lsn # Tail(s)[j].lsn
    <3> SUFFICES ASSUME NEW i \in DOMAIN file', NEW j \in DOMAIN Tail(s),
                        file'[i].id # 0, Tail(s)[j].id # 0
                 PROVE  file'[i].id # Tail(s)[j].id /\ file'[i].lsn # Tail(s)[j].lsn
      OBVIOUS
    <3>1. j + 1 \in DOMAIN s /\ Tail(s)[j] = s[j + 1] /\ j \in Nat /\ j + 1 # 1
      BY <1>3
    <3>2. CASE i \in DOMAIN file /\ file'[i] = file[i]
      BY <1>6, <3>1, <3>2 DEF Apart
    <3>3. CASE file'[i] = l
      BY <1>3, <1>6, <3>1, <3>3 DEF Distinct
    <3> QED
      BY <1>7, <3>2, <3>3 DEF Written, Garbage
  <2>6. RewriteInv(h)'
    <3>1. ~ Atomic'
      BY <1>6 DEF Atomic
    <3> QED
      BY <1>1, <1>5, <1>6, <1>9, <2>2, <2>3, <2>4, <2>5, <3>1
         DEF RewriteInv, Distinct, Below, Settled, Apart, M
  <2>7. KeptInv(h)'
    <3> SUFFICES ASSUME ~ cut', NEW i \in acked' \ gone'
                 PROVE  \/ \E k \in DOMAIN file' : file'[k].id = i
                        \/ \E k \in DOMAIN Tail(s) : Tail(s)[k].id = i
      BY <1>11, <2>2 DEF KeptInv
    <3>1. ~ open
      BY <1>0, <1>11 DEF KeptInv
    <3>2. \/ \E k \in DOMAIN file : file[k].id = i
          \/ \E k \in DOMAIN s : s[k].id = i
      BY <1>0, <1>1, <1>5, <1>11 DEF KeptInv, s
    <3>3. /\ \A k \in DOMAIN file : k \in DOMAIN file' /\ file'[k] = file[k]
          /\ Len(file) + 1 \in DOMAIN file' /\ file'[Len(file) + 1] = l
      BY <1>0, <1>4, <1>11, <3>1, WithIs
    <3> QED
      BY <1>3, <3>2, <3>3
  <2> QED
    BY <1>10, <2>6, <2>7
<1>12. CASE cut' = TRUE /\ GiveUp(h)
  <2>1. job'[h].pc = "idle"
    BY <1>0, <1>12, EndsIs
  <2> QED
    BY <1>10, <1>12, <2>1 DEF RewriteInv, KeptInv
<1> QED
  BY <1>1, <1>11, <1>12 DEF l, s

\* A rewrite in place ends with all its lines in the file.
LEMMA FilledKeeps ==
    ASSUME NEW h \in Handles, LogInv(h), Filled(h), kind' = kind
    PROVE  HandleInv(h)' /\ RewriteInv(h)' /\ KeptInv(h)'
<1> USE DEF history
<1>0. TypeOK /\ HandleInv(h) /\ RewriteInv(h) /\ KeptInv(h)
  BY DEF LogInv
<1>1. /\ job[h].pc = "fill" /\ job[h].lines = <<>> /\ (Done(h) \/ GiveUp(h))
      /\ UNCHANGED <<file, open, tmp, next, ids, cut>>
  BY DEF Filled
<1>2. job'[h].pc = "idle"
  BY <1>0, <1>1, EndsIs
<1>3. /\ job[h].mark \subseteq 1 .. ids /\ job[h].drop = {}
      /\ Settled(file, marked \cup job[h].mark)
  BY <1>0, <1>1 DEF RewriteInv
<1>4. /\ acked' = acked /\ gone' = gone
      /\ marked' = marked \/ marked' = marked \cup job[h].mark
  BY <1>1, <1>3 DEF Done, GiveUp
<1>5. HandleInv(h)'
  <2>1. marked' \subseteq 1 .. ids /\ Settled(file, marked')
    BY <1>0, <1>3, <1>4 DEF HandleInv, Settled
  <2> QED
    BY <1>0, <1>1, <1>4, <2>1 DEF HandleInv, Distinct, Below, Settled
<1>6. RewriteInv(h)'
  BY <1>2 DEF RewriteInv
<1>7. KeptInv(h)'
  BY <1>0, <1>1, <1>2, <1>4 DEF KeptInv, Holds
<1> QED
  BY <1>5, <1>6, <1>7

\* A crash leaves the file as it is.
LEMMA CrashKeeps ==
    ASSUME NEW h \in Handles, LogInv(h), Crash, kind' = kind
    PROVE  HandleInv(h)' /\ RewriteInv(h)' /\ KeptInv(h)'
<1> USE DEF history
<1>0. TypeOK /\ HandleInv(h) /\ RewriteInv(h) /\ KeptInv(h)
  BY DEF LogInv
<1>1. /\ next'[h] = 0 /\ job'[h] = Idle /\ ((cut \/ job[h].pc = "fill") => cut')
      /\ UNCHANGED <<file, open, tmp, ids, acked, gone, marked>>
  BY DEF Crash
<1>2. job'[h].pc = "idle"
  BY <1>1 DEF Idle
<1>3. HandleInv(h)'
  BY <1>0, <1>1 DEF HandleInv, Distinct, Below, Settled
<1>4. RewriteInv(h)'
  BY <1>2 DEF RewriteInv
<1>5. KeptInv(h)'
  BY <1>0, <1>1, <1>2 DEF KeptInv, Holds
<1> QED
  BY <1>3, <1>4, <1>5

\* A step of the log with one handle keeps its invariant.
LEMMA LogStep ==
    ASSUME NEW h, Handles = {h}, LogInv(h), Next
    PROVE  LogInv(h)'
<1>1. TypeOK' /\ AllNumbered'
  BY TypeStep DEF LogInv
<1>2. HandleInv(h)' /\ RewriteInv(h)' /\ KeptInv(h)'
  <2>1. h \in Handles /\ kind' = kind
    BY DEF Next
  <2>2. \/ Open(h) \/ AppendEntry(h) \/ ReadPending(h)
        \/ MarkApplied(h) \/ MarkFailed(h) \/ Compact(h) \/ Touch(h)
        \/ WriteTmp(h) \/ Rename(h) \/ Truncate(h) \/ Fill(h) \/ Filled(h)
        \/ Crash
    BY DEF Next, Step
  <2> QED
    BY <2>1, <2>2, OpenKeeps, AppendKeeps, ReadKeeps, RewriteKeeps, WriteTmpKeeps,
       RenameKeeps, TruncateKeeps, FillKeeps, FilledKeeps, CrashKeeps
<1> QED
  BY <1>1, <1>2 DEF LogInv

\* The invariant of a log with one handle: its numbers are new, and every
\* rewrite under way keeps what was acknowledged and what was marked.
THEOREM LogInvariant ==
    ASSUME NEW CONSTANT h, Handles = {h}
    PROVE  Spec => []LogInv(h)
<1>1. Init => LogInv(h)
  <2> SUFFICES ASSUME Init PROVE LogInv(h)
    OBVIOUS
  <2>0. /\ file = <<>> /\ open = FALSE /\ tmp = {} /\ ids = 0
        /\ acked = {} /\ gone = {} /\ marked = {} /\ cut = FALSE
        /\ job[h] = Idle /\ next[h] = 0
    BY DEF Init
  <2>1. Idle \in Job /\ Idle.lines = <<>> /\ Idle.pc = "idle"
    BY DEF Idle, Job
  <2>2. TypeOK
    <3>1. /\ file \in Seq(Line) /\ tmp \subseteq Seq(Line) /\ next \in [Handles -> Nat]
          /\ job \in [Handles -> Job]
      BY <2>1 DEF Init
    <3> QED
      BY <3>1 DEF Init, TypeOK
  <2>3. AllNumbered
    BY <2>0, <2>1 DEF AllNumbered, Numbered
  <2>4. HandleInv(h) /\ RewriteInv(h) /\ KeptInv(h)
    BY <2>0, <2>1 DEF HandleInv, RewriteInv, KeptInv, Distinct, Settled, Below, Holds
  <2> QED
    BY <2>2, <2>3, <2>4 DEF LogInv
<1>2. LogInv(h) /\ [Next]_vars => LogInv(h)'
  <2> SUFFICES ASSUME LogInv(h), [Next]_vars PROVE LogInv(h)'
    OBVIOUS
  <2>1. CASE Next
    BY <2>1, LogStep
  <2>2. CASE UNCHANGED vars
    BY <2>2 DEF vars, counters, history, LogInv, TypeOK, AllNumbered, Numbered, HandleInv,
                RewriteInv, KeptInv, Distinct, Settled, Below, Holds, Apart, Atomic
  <2> QED
    BY <2>1, <2>2
<1> QED
  BY <1>1, <1>2, PTL DEF Spec

\* With one handle on the log, an entry whose append returned can be read until
\* a compaction drops it, whatever fails or crashes, unless a line, or a rewrite
\* in place, was cut off in the middle.
THEOREM NoLossHolds ==
    ASSUME NEW CONSTANT h, Handles = {h}
    PROVE  Spec => []NoLoss
<1>1. LogInv(h) => NoLoss
  <2> SUFFICES ASSUME LogInv(h), ~ cut, job[h].pc # "fill", NEW i \in acked \ gone
               PROVE  \E l \in ToSet(file) : l.id = i
    BY DEF NoLoss
  <2>1. PICK k \in DOMAIN file : file[k].id = i
    BY DEF LogInv, KeptInv, Holds
  <2> QED
    BY <2>1 DEF ToSet
<1> QED
  BY <1>1, LogInvariant, PTL

\* With one handle on the log, an entry whose mark returned is not pending again.
THEOREM MarksStayHolds ==
    ASSUME NEW CONSTANT h, Handles = {h}
    PROVE  Spec => []MarksStay
<1>1. LogInv(h) => MarksStay
  BY DEF LogInv, HandleInv, Settled, MarksStay, ToSet
<1> QED
  BY <1>1, LogInvariant, PTL

-----------------------------------------------------------------------------
(* The snapshot cache *)

\* A manager has at most one current snapshot, and its snapshots are of its
\* workspace and of generations it has given out.
Owns(x) ==
    /\ x.next > 0
    /\ (x.current = {} \/ \E s : x.current = {s})
    /\ \A s \in x.current \cup ToSet(x.history) : s.ws = x.ws /\ s.gen \in 1 .. x.next - 1

\* What a worker has in hand fits the step it is at.
Fits(j) ==
    /\ j.pc \in {"load", "alloc", "swap", "push", "find"} => j.mgr \in DOMAIN mgr
    /\ j.pc = "guard" => j.held # {}
    /\ j.pc \in {"swap", "push"} =>
         \E s : /\ j.held = {s} /\ s.ws = mgr[j.mgr].ws
                /\ s.gen \in 1 .. mgr[j.mgr].next - 1

CacheInv ==
    /\ CacheTypeOK
    /\ \A m \in DOMAIN mgr : Owns(mgr[m])
    /\ \A w \in Workers : Fits(work[w])

\* The types, in the form in which they are used.
LEMMA CacheTypes ==
    ASSUME CacheInv
    PROVE  /\ mgr \in Seq(Manager) /\ DOMAIN mgr = 1 .. Len(mgr) /\ Len(mgr) \in Nat
           /\ \A m \in DOMAIN mgr :
                /\ mgr[m] \in Manager /\ Owns(mgr[m])
                /\ mgr[m].ws \in Workspaces /\ mgr[m].next \in Nat
                /\ mgr[m].current \subseteq Snapshot
                /\ mgr[m].history \in Seq(Snapshot)
           /\ cached \in [Workspaces -> 0 .. Len(mgr)]
           /\ order \in Seq(Workspaces)
           /\ work \in [Workers -> Work]
           /\ \A w \in Workers :
                /\ work[w] \in Work /\ Fits(work[w])
                /\ work[w].mgr \in Nat /\ work[w].held \subseteq Snapshot
                /\ work[w].todo \in Seq(Workspaces)
<1>1. /\ mgr \in Seq(Manager)
      /\ cached \in [Workspaces -> 0 .. Len(mgr)]
      /\ order \in Seq(Workspaces)
      /\ work \in [Workers -> Work]
  BY DEF CacheInv, CacheTypeOK
<1>2. DOMAIN mgr = 1 .. Len(mgr) /\ Len(mgr) \in Nat /\ \A m \in DOMAIN mgr : mgr[m] \in Manager
  BY <1>1, LenProperties, ElementOfSeq
<1>3. \A m \in DOMAIN mgr :
        /\ mgr[m].ws \in Workspaces /\ mgr[m].next \in Nat
        /\ mgr[m].current \subseteq Snapshot
        /\ mgr[m].history \in Seq(Snapshot)
  BY <1>2 DEF Manager
<1>4. \A w \in Workers :
        /\ work[w] \in Work
        /\ work[w].mgr \in Nat /\ work[w].held \subseteq Snapshot
        /\ work[w].todo \in Seq(Workspaces)
  BY <1>1 DEF Work
<1> QED
  BY <1>1, <1>2, <1>3, <1>4 DEF CacheInv

\* The job of one worker changes.
Turn(w) ==
    /\ work' \in [Workers -> Work]
    /\ \A v \in Workers : v # w => work'[v] = work[v]

\* What keeps the types, said of the managers, the cache and one worker's job.
LEMMA CacheKeeps ==
    ASSUME CacheInv, NEW w \in Workers, Turn(w), Fits(work[w])',
           mgr' \in Seq(Manager), DOMAIN mgr \subseteq DOMAIN mgr',
           \A m \in DOMAIN mgr : mgr'[m].ws = mgr[m].ws /\ mgr'[m].next >= mgr[m].next,
           \A m \in DOMAIN mgr' : Owns(mgr'[m]),
           cached' \in [Workspaces -> 0 .. Len(mgr')], order' \in Seq(Workspaces)
    PROVE  CacheInv'
<1>1. \A v \in Workers : Fits(work[v])'
  <2> SUFFICES ASSUME NEW v \in Workers, v # w PROVE Fits(work[v])'
    OBVIOUS
  <2>1. work'[v] = work[v] /\ Fits(work[v])
    BY CacheTypes DEF Turn
  <2>2. \A m \in DOMAIN mgr : mgr[m].next \in Nat /\ mgr'[m].next \in Nat
    <3>1. \A m \in DOMAIN mgr' : mgr'[m] \in Manager
      BY LenProperties, ElementOfSeq
    <3> QED
      BY <3>1, CacheTypes DEF Manager
  <2>3. ASSUME work[v].pc \in {"swap", "push"}
        PROVE  \E s : /\ work[v].held = {s} /\ s.ws = mgr'[work[v].mgr].ws
                      /\ s.gen \in 1 .. mgr'[work[v].mgr].next - 1
    <3>1. work[v].mgr \in DOMAIN mgr
      BY <2>1, <2>3 DEF Fits
    <3>2. PICK s : /\ work[v].held = {s} /\ s.ws = mgr[work[v].mgr].ws
                   /\ s.gen \in 1 .. mgr[work[v].mgr].next - 1
      BY <2>1, <2>3 DEF Fits
    <3>3. s.gen \in 1 .. mgr'[work[v].mgr].next - 1
      BY <2>2, <3>1, <3>2
    <3> QED
      BY <3>1, <3>2, <3>3
  <2> QED
    BY <2>1, <2>3 DEF Fits
<1>2. \A m \in DOMAIN mgr' : \A s \in mgr'[m].current \cup ToSet(mgr'[m].history) :
         s.ws = mgr'[m].ws /\ s.gen \in 1 .. mgr'[m].next - 1
  BY DEF Owns
<1>3. CacheTypeOK'
  BY <1>2 DEF CacheTypeOK, Turn
<1> QED
  BY <1>1, <1>3 DEF CacheInv

\* A step that leaves the managers alone.
LEMMA SameManagers ==
    ASSUME CacheInv, NEW w \in Workers, Turn(w), Fits(work[w])', mgr' = mgr,
           cached' \in [Workspaces -> 0 .. Len(mgr)], order' \in Seq(Workspaces)
    PROVE  CacheInv'
<1>1. \A m \in DOMAIN mgr : Owns(mgr[m]) /\ mgr[m].next \in Nat
  BY CacheTypes
<1>2. /\ \A m \in DOMAIN mgr : mgr'[m].ws = mgr[m].ws /\ mgr'[m].next >= mgr[m].next
      /\ \A m \in DOMAIN mgr' : Owns(mgr'[m])
  BY <1>1
<1>3. mgr' \in Seq(Manager) /\ DOMAIN mgr \subseteq DOMAIN mgr'
  BY CacheTypes
<1>4. cached' \in [Workspaces -> 0 .. Len(mgr')]
  OBVIOUS
<1> QED
  BY <1>2, <1>3, <1>4, CacheKeeps

\* A step that changes one manager.
LEMMA OneManager ==
    ASSUME CacheInv, NEW w \in Workers, Turn(w), Fits(work[w])',
           NEW m \in DOMAIN mgr, NEW x \in Manager, mgr' = [mgr EXCEPT ![m] = x],
           x.ws = mgr[m].ws, x.next >= mgr[m].next, Owns(x),
           cached' = cached, order' = order
    PROVE  CacheInv'
<1>1. /\ \A k \in DOMAIN mgr : Owns(mgr[k]) /\ mgr[k].next \in Nat
      /\ mgr \in [1 .. Len(mgr) -> Manager] /\ DOMAIN mgr = 1 .. Len(mgr)
      /\ Len(mgr) \in Nat
  BY CacheTypes, LenProperties
<1>2. mgr' \in [1 .. Len(mgr) -> Manager]
  BY <1>1
<1>3. mgr' \in Seq(Manager) /\ Len(mgr') = Len(mgr) /\ DOMAIN mgr' = DOMAIN mgr
  <2>1. mgr' \in Seq(Manager)
    BY <1>1, <1>2, SeqDef
  <2>2. DOMAIN mgr' = 1 .. Len(mgr') /\ Len(mgr') \in Nat
    BY <2>1, LenProperties
  <2>3. DOMAIN mgr' = 1 .. Len(mgr)
    BY <1>2
  <2> QED
    BY <1>1, <2>1, <2>2, <2>3
<1>4. \A k \in DOMAIN mgr : mgr'[k].ws = mgr[k].ws /\ mgr'[k].next >= mgr[k].next
  BY <1>1
<1>5. \A k \in DOMAIN mgr' : Owns(mgr'[k])
  BY <1>1, <1>3
<1> QED
  BY <1>3, <1>4, <1>5, CacheKeeps, CacheTypes

\* A job that ends.
LEMMA EndTurns ==
    ASSUME CacheInv, NEW w \in Workers, End(w)
    PROVE  Turn(w) /\ work'[w] = NoWork /\ work'[w].pc = "idle" /\ Fits(work[w])'
<1>1. work \in [Workers -> Work]
  BY CacheTypes
<1>2. NoWork \in Work /\ NoWork.pc = "idle"
  BY DEF NoWork, Work
<1>3. Turn(w) /\ work'[w] = NoWork
  BY <1>1, <1>2 DEF End, Turn
<1> QED
  BY <1>2, <1>3 DEF Fits

\* A job that goes on.
LEMMA JobTurns ==
    ASSUME CacheInv, NEW w \in Workers, NEW j \in Work, work' = [work EXCEPT ![w] = j]
    PROVE  Turn(w) /\ work'[w] = j
<1>1. work \in [Workers -> Work]
  BY CacheTypes
<1> QED
  BY <1>1 DEF Turn

\* The least of a set of positions.
LEMMA MinIs ==
    ASSUME NEW S \in SUBSET Nat, S # {}
    PROVE  Min(S) \in S /\ \A x \in S : Min(S) <= x
<1>1. \E m \in S : \A x \in S : m =< x
  BY LeastNatural
<1> QED
  BY <1>1 DEF Min

\* What an eviction for room leaves of the cache and the queue.
LEMMA EvictedIs ==
    ASSUME CacheInv
    PROVE  /\ Evicted.cache \in [Workspaces -> 0 .. Len(mgr)]
           /\ Evicted.queue \in Seq(Workspaces)
<1> DEFINE V == Victims
<1>1. cached \in [Workspaces -> 0 .. Len(mgr)] /\ order \in Seq(Workspaces) /\ Len(mgr) \in Nat
  BY CacheTypes
<1>2. CASE ~ Full
  BY <1>1, <1>2 DEF Evicted
<1>3. CASE Full /\ V = {}
  <2>1. Evicted = [cache |-> cached, queue |-> <<>>]
    BY <1>3 DEF Evicted
  <2> QED
    BY <1>1, <2>1
<1>4. CASE Full /\ V # {}
  <2>1. /\ DOMAIN order = 1 .. Len(order) /\ Len(order) \in Nat
        /\ \A i \in DOMAIN order : order[i] \in Workspaces
    BY <1>1, LenProperties, ElementOfSeq
  <2>2. V \in SUBSET (1 .. Len(order))
    BY <2>1 DEF Victims
  <2>3. Min(V) \in V
    BY <1>4, <2>1, <2>2, MinIs
  <2> DEFINE f == Min(V)
  <2>4. f \in 1 .. Len(order) /\ order[f] \in Workspaces
    BY <2>1, <2>2, <2>3
  <2>5. Evicted = [cache |-> [cached EXCEPT ![order[f]] = 0],
                         queue |-> SubSeq(order, f + 1, Len(order))]
    BY <1>4 DEF Evicted
  <2> HIDE DEF f, V
  <2>6. [cached EXCEPT ![order[f]] = 0] \in [Workspaces -> 0 .. Len(mgr)]
    BY <1>1, <2>4
  <2>7. SubSeq(order, f + 1, Len(order)) \in Seq(Workspaces)
    <3>1. \A i \in f + 1 .. Len(order) : order[i] \in Workspaces
      BY <2>1, <2>4
    <3>2. f + 1 \in Int /\ Len(order) \in Int
      BY <2>1, <2>4
    <3> QED
      BY <3>1, <3>2, SubSeqProperties
  <2> QED
    BY <2>5, <2>6, <2>7
<1> QED
  BY <1>2, <1>3, <1>4

\* A worker that starts a publication.
LEMMA FindTypes ==
    ASSUME CacheInv, NEW w \in Workers, NEW ws \in Workspaces, Find(w, ws)
    PROVE  CacheInv'
<1>1. CASE ws \in InCache
  <2>1. cached[ws] \in DOMAIN mgr /\ cached[ws] \in Nat
    BY <1>1, CacheTypes DEF InCache
  <2> DEFINE j == [work[w] EXCEPT !.pc = "load", !.mgr = cached[ws]]
  <2>2. j \in Work /\ j.pc = "load" /\ j.mgr = cached[ws]
    BY <2>1, CacheTypes DEF Work
  <2>3. /\ work' = [work EXCEPT ![w] = j] /\ UNCHANGED <<mgr, cached, order>>
    BY <1>1, CacheTypes DEF Find
  <2> HIDE DEF j
  <2>4. Turn(w) /\ work'[w] = j
    BY <2>2, <2>3, JobTurns
  <2>5. Fits(work[w])'
    BY <2>1, <2>2, <2>3, <2>4 DEF Fits
  <2> QED
    BY <2>3, <2>4, <2>5, SameManagers, CacheTypes
<1>2. CASE ws \notin InCache
  <2> DEFINE x == [ws |-> ws, next |-> 1, current |-> {}, history |-> <<>>]
             j == [work[w] EXCEPT !.pc = "load", !.mgr = Len(mgr) + 1]
  <2>0. Len(mgr) \in Nat /\ DOMAIN mgr = 1 .. Len(mgr) /\ mgr \in Seq(Manager)
    BY CacheTypes
  <2>1. /\ mgr' = Append(mgr, x)
        /\ cached' = [Evicted.cache EXCEPT ![ws] = Len(mgr) + 1]
        /\ order' = Append(Evicted.queue, ws)
        /\ work' = [work EXCEPT ![w] = j]
    <3>1. /\ mgr' = Append(mgr, x)
          /\ cached' = [Evicted.cache EXCEPT ![ws] = Len(mgr) + 1]
          /\ order' = Append(Evicted.queue, ws)
          /\ work' = [work EXCEPT ![w].pc = "load", ![w].mgr = Len(mgr) + 1]
      BY <1>2 DEF Find
    <3>2. work \in [Workers -> Work]
      BY CacheTypes
    <3> QED
      BY <3>1, <3>2
  <2>2. j \in Work /\ j.pc = "load" /\ j.mgr = Len(mgr) + 1
    <3>1. work[w] \in Work /\ Len(mgr) + 1 \in Nat
      BY <2>0, CacheTypes
    <3> QED
      BY <3>1 DEF Work
  <2>3. x \in Manager /\ Owns(x)
    BY DEF Manager, Owns, ToSet
  <2> HIDE DEF x, j
  <2>4. /\ mgr' \in Seq(Manager) /\ Len(mgr') = Len(mgr) + 1
        /\ \A i \in 1 .. Len(mgr) : mgr'[i] = mgr[i]
        /\ mgr'[Len(mgr) + 1] = x
    BY <2>0, <2>1, <2>3, AppendProperties
  <2>5. DOMAIN mgr' = 1 .. Len(mgr) + 1
    BY <2>4, LenProperties
  <2>6. Turn(w) /\ work'[w] = j
    BY <2>1, <2>2, JobTurns
  <2>7. Fits(work[w])'
    BY <2>0, <2>2, <2>5, <2>6 DEF Fits
  <2>8. \A m \in DOMAIN mgr : mgr'[m].ws = mgr[m].ws /\ mgr'[m].next >= mgr[m].next
    BY <2>0, <2>4, CacheTypes
  <2>9. \A m \in DOMAIN mgr' : Owns(mgr'[m])
    BY <2>0, <2>3, <2>4, <2>5, CacheTypes
  <2>10. cached' \in [Workspaces -> 0 .. Len(mgr')] /\ order' \in Seq(Workspaces)
    <3>1. \A k \in 0 .. Len(mgr) : k \in 0 .. Len(mgr) + 1
      BY <2>0
    <3>2. cached' \in [Workspaces -> 0 .. Len(mgr) + 1]
      BY <2>0, <2>1, <3>1, EvictedIs
    <3>3. order' \in Seq(Workspaces)
      BY <2>1, EvictedIs, AppendProperties
    <3> QED
      BY <2>4, <3>2, <3>3
  <2>11. DOMAIN mgr \subseteq DOMAIN mgr'
    BY <2>0, <2>5
  <2> QED
    BY <2>4, <2>6, <2>7, <2>8, <2>9, <2>10, <2>11, CacheKeeps
<1> QED
  BY <1>1, <1>2

\* A worker that evicts a workspace, in two steps.
LEMMA EvictTypes ==
    ASSUME CacheInv, NEW w \in Workers, NEW ws \in Workspaces, Evict(w, ws)
    PROVE  CacheInv'
<1> DEFINE j == [work[w] EXCEPT !.pc = "evict", !.todo = <<ws>>]
<1>1. /\ work' = [work EXCEPT ![w] = j] /\ UNCHANGED <<mgr, order>>
      /\ cached' = [cached EXCEPT ![ws] = 0]
  BY CacheTypes DEF Evict
<1>2. <<ws>> \in Seq(Workspaces)
  OBVIOUS
<1>3. j \in Work /\ j.pc = "evict"
  BY <1>2, CacheTypes DEF Work
<1> HIDE DEF j
<1>4. Turn(w) /\ work'[w] = j
  BY <1>1, <1>3, JobTurns
<1>5. Fits(work[w])'
  BY <1>3, <1>4 DEF Fits
<1>6. cached' \in [Workspaces -> 0 .. Len(mgr)]
  BY <1>1, CacheTypes
<1> QED
  BY <1>1, <1>4, <1>5, <1>6, SameManagers, CacheTypes

LEMMA EvictOrderTypes ==
    ASSUME CacheInv, NEW w \in Workers, EvictOrder(w)
    PROVE  CacheInv'
<1> DEFINE S == {i \in DOMAIN order : order[i] # Head(work[w].todo)}
<1>1. /\ order' = AtPositions(order, S) /\ End(w) /\ UNCHANGED <<mgr, cached>>
  BY DEF EvictOrder
<1>2. order \in Seq(Workspaces) /\ S \in SUBSET DOMAIN order
  BY CacheTypes
<1> HIDE DEF S
<1>3. order' \in Seq(Workspaces)
  BY <1>1, <1>2, AtPositionsIs
<1>4. Turn(w) /\ Fits(work[w])'
  BY <1>1, EndTurns
<1> QED
  BY <1>1, <1>3, <1>4, SameManagers, CacheTypes

\* A collection, for each listed workspace.
LEMMA CollectTypes ==
    ASSUME CacheInv, NEW w \in Workers, Collect(w)
    PROVE  CacheInv'
<1> DEFINE t == AtPositions(order, Victims)
           j == [work[w] EXCEPT !.pc = "gc", !.todo = t]
<1>1. order \in Seq(Workspaces) /\ Victims \in SUBSET DOMAIN order
  BY CacheTypes DEF Victims
<1>2. t \in Seq(Workspaces)
  BY <1>1, AtPositionsIs
<1>3. work' = [work EXCEPT ![w].pc = "gc", ![w].todo = t] /\ UNCHANGED <<mgr, cached, order>>
  BY DEF Collect
<1> HIDE DEF t
<1>4. j \in Work /\ j.pc = "gc"
  BY <1>2, CacheTypes DEF Work
<1>5. work' = [work EXCEPT ![w] = j]
  BY <1>3, CacheTypes
<1> HIDE DEF j
<1>6. Turn(w) /\ work'[w] = j
  BY <1>4, <1>5, JobTurns
<1>7. Fits(work[w])'
  BY <1>4, <1>6 DEF Fits
<1> QED
  BY <1>3, <1>6, <1>7, SameManagers, CacheTypes

\* A truncated history keeps a first part.
LEMMA TruncatedIs ==
    ASSUME NEW T, NEW h \in Seq(T), NEW keep \in 0 .. 1
    PROVE  /\ Truncated(h, keep) \in Seq(T)
           /\ \A i \in DOMAIN Truncated(h, keep) :
                i \in DOMAIN h /\ Truncated(h, keep)[i] = h[i]
<1> DEFINE n == IF keep < Len(h) THEN keep ELSE Len(h)
           t == SubSeq(h, 1, n)
<1>1. Len(h) \in Nat /\ DOMAIN h = 1 .. Len(h) /\ \A i \in DOMAIN h : h[i] \in T
  BY LenProperties, ElementOfSeq
<1>2. n \in Nat /\ n <= Len(h)
  BY <1>1
<1> HIDE DEF n
<1>3. \A i \in 1 .. n : h[i] \in T
  BY <1>1, <1>2
<1>4. /\ t \in Seq(T) /\ Len(t) = IF 1 <= n THEN n - 1 + 1 ELSE 0
      /\ \A i \in 1 .. n - 1 + 1 : t[i] = h[1 + i - 1]
  BY <1>2, <1>3, SubSeqProperties
<1>5. Truncated(h, keep) = t
  BY DEF Truncated, n
<1> HIDE DEF t
<1>6. Len(t) = n /\ \A i \in 1 .. n : t[i] = h[i]
  BY <1>2, <1>4
<1>7. DOMAIN t = 1 .. n
  BY <1>4, <1>6, LenProperties
<1> QED
  BY <1>1, <1>2, <1>4, <1>5, <1>6, <1>7

LEMMA CollectOneTypes ==
    ASSUME CacheInv, NEW w \in Workers, CollectOne(w)
    PROVE  CacheInv'
<1>0. cached' = cached /\ order' = order
  BY DEF CollectOne
<1>1. CASE End(w) /\ mgr' = mgr
  <2>1. Turn(w) /\ Fits(work[w])'
    BY <1>1, EndTurns
  <2> QED
    BY <1>0, <1>1, <2>1, SameManagers, CacheTypes
<1>2. CASE /\ work[w].todo # <<>> /\ work' = [work EXCEPT ![w].todo = Tail(@)]
           /\ work[w].pc = "gc"
           /\ LET m == cached[Head(work[w].todo)] IN
              \E keep \in 0 .. 1 :
                 mgr' = IF m = 0 THEN mgr
                        ELSE [mgr EXCEPT ![m].history = Truncated(@, keep)]
  <2> DEFINE j == [work[w] EXCEPT !.todo = Tail(work[w].todo)]
             m == cached[Head(work[w].todo)]
  <2>1. Tail(work[w].todo) \in Seq(Workspaces) /\ Head(work[w].todo) \in Workspaces
    BY <1>2, CacheTypes, HeadTailProperties
  <2>2. j \in Work /\ j.pc = "gc"
    BY <1>2, <2>1, CacheTypes DEF Work
  <2>3. work' = [work EXCEPT ![w] = j]
    BY <1>2, CacheTypes
  <2>4. PICK keep \in 0 .. 1 :
          mgr' = IF m = 0 THEN mgr ELSE [mgr EXCEPT ![m].history = Truncated(@, keep)]
    BY <1>2
  <2>5. m \in 0 .. Len(mgr)
    BY <2>1, CacheTypes
  <2> HIDE DEF j, m
  <2>6. Turn(w) /\ work'[w] = j
    BY <2>2, <2>3, JobTurns
  <2>7. Fits(work[w])'
    BY <2>2, <2>6 DEF Fits
  <2>8. CASE m = 0
    <3>1. mgr' = mgr
      BY <2>4, <2>8
    <3> QED
      BY <1>0, <2>6, <2>7, <3>1, SameManagers, CacheTypes
  <2>9. CASE m # 0
    <3>1. m \in DOMAIN mgr
      BY <2>5, <2>9, CacheTypes
    <3> DEFINE h == Truncated(mgr[m].history, keep)
               x == [mgr[m] EXCEPT !.history = h]
    <3>2. mgr' = [mgr EXCEPT ![m] = x]
      <4>1. mgr' = [mgr EXCEPT ![m].history = Truncated(@, keep)]
        BY <2>4, <2>9
      <4>2. mgr \in [1 .. Len(mgr) -> Manager]
        BY CacheTypes, LenProperties
      <4> QED
        BY <3>1, <4>1, <4>2
    <3>3. h \in Seq(Snapshot) /\ \A i \in DOMAIN h : i \in DOMAIN mgr[m].history /\ h[i] = mgr[m].history[i]
      <4>1. mgr[m].history \in Seq(Snapshot)
        BY <3>1, CacheTypes
      <4> QED
        BY <4>1, TruncatedIs
    <3> HIDE DEF h
    <3>4. /\ x \in Manager /\ x.ws = mgr[m].ws /\ x.next = mgr[m].next
          /\ x.current = mgr[m].current /\ x.history = h
      BY <3>1, <3>3, CacheTypes DEF Manager
    <3>5. x.next >= mgr[m].next
      BY <3>1, <3>4, CacheTypes
    <3> HIDE DEF x
    <3>6. Owns(x)
      <4>1. Owns(mgr[m]) /\ ToSet(h) \subseteq ToSet(mgr[m].history)
        BY <3>1, <3>3, CacheTypes DEF ToSet
      <4> QED
        BY <3>4, <4>1 DEF Owns
    <3> QED
      BY <1>0, <2>6, <2>7, <3>1, <3>2, <3>4, <3>5, <3>6, OneManager
  <2> QED
    BY <2>8, <2>9
<1> QED
  BY <1>1, <1>2 DEF CollectOne, At

\* A publication: the database is loaded, a generation taken, the current
\* snapshot replaced.
LEMMA LoadTypes ==
    ASSUME CacheInv, NEW w \in Workers, Load(w)
    PROVE  CacheInv'
<1>0. work[w].pc = "load" /\ UNCHANGED <<mgr, cached, order>>
  BY DEF Load, At
<1>1. CASE End(w)
  <2>1. Turn(w) /\ Fits(work[w])'
    BY <1>1, EndTurns
  <2> QED
    BY <1>0, <2>1, SameManagers, CacheTypes
<1>2. CASE Goto(w, "alloc")
  <2> DEFINE j == [work[w] EXCEPT !.pc = "alloc"]
  <2>1. j \in Work /\ j.pc = "alloc" /\ j.mgr = work[w].mgr
    BY CacheTypes DEF Work
  <2>2. work' = [work EXCEPT ![w] = j]
    BY <1>2, CacheTypes DEF Goto
  <2> HIDE DEF j
  <2>3. Turn(w) /\ work'[w] = j
    BY <2>1, <2>2, JobTurns
  <2>4. work[w].mgr \in DOMAIN mgr
    BY <1>0, CacheTypes DEF Fits
  <2>5. Fits(work[w])'
    BY <1>0, <2>1, <2>3, <2>4 DEF Fits
  <2> QED
    BY <1>0, <2>3, <2>5, SameManagers, CacheTypes
<1> QED
  BY <1>1, <1>2 DEF Load

\* What an allocation does: one manager has one more generation, which the
\* worker has in hand.
LEMMA AllocIs ==
    ASSUME CacheInv, NEW w \in Workers, Alloc(w)
    PROVE  LET m == work[w].mgr IN
           /\ work[w].pc = "alloc" /\ m \in DOMAIN mgr
           /\ mgr' = [mgr EXCEPT ![m] = [mgr[m] EXCEPT !.next = mgr[m].next + 1]]
           /\ cached' = cached /\ order' = order
           /\ Turn(w) /\ work'[w].pc = "swap" /\ work'[w].mgr = m
           /\ work'[w].todo = work[w].todo
           /\ \E s : /\ work'[w].held = {s} /\ s.ws = mgr[m].ws /\ s.gen = mgr[m].next
<1> DEFINE m == work[w].mgr
<1>1. /\ work[w].pc = "alloc" /\ cached' = cached /\ order' = order
      /\ mgr' = [mgr EXCEPT ![m].next = @ + 1]
  BY DEF Alloc, At
<1>2. m \in DOMAIN mgr
  BY <1>1, CacheTypes DEF Fits
<1>3. PICK n \in 1 .. Cardinality(Alive) + 1 :
        work' = [work EXCEPT ![w].pc = "swap",
                    ![w].held = {[ws |-> mgr[m].ws, gen |-> NextGen(m), fd |-> n]}]
  BY DEF Alloc
<1> DEFINE s == [ws |-> mgr[m].ws, gen |-> mgr[m].next, fd |-> n]
           j == [work[w] EXCEPT !.pc = "swap", !.held = {s}]
<1>4. s \in Snapshot /\ s.ws = mgr[m].ws /\ s.gen = mgr[m].next
  <2>1. mgr[m].ws \in Workspaces /\ mgr[m].next \in Nat
    BY <1>2, CacheTypes
  <2>2. n \in Nat
    OBVIOUS
  <2> QED
    BY <2>1, <2>2 DEF Snapshot
<1>5. work' = [work EXCEPT ![w] = j]
  <2>1. work \in [Workers -> Work]
    BY CacheTypes
  <2>2. NextGen(m) = mgr[m].next
    BY DEF NextGen
  <2> QED
    BY <1>3, <2>1, <2>2
<1> HIDE DEF s
<1>6. /\ j \in Work /\ j.pc = "swap" /\ j.held = {s} /\ j.mgr = work[w].mgr
      /\ j.todo = work[w].todo
  BY <1>4, CacheTypes DEF Work
<1> HIDE DEF j
<1>7. Turn(w) /\ work'[w] = j
  BY <1>5, <1>6, JobTurns
<1>8. mgr' = [mgr EXCEPT ![m] = [mgr[m] EXCEPT !.next = mgr[m].next + 1]]
  <2>1. mgr \in [1 .. Len(mgr) -> Manager]
    BY CacheTypes, LenProperties
  <2> QED
    BY <1>1, <1>2, <2>1
<1> QED
  BY <1>1, <1>2, <1>4, <1>6, <1>7, <1>8

LEMMA AllocTypes ==
    ASSUME CacheInv, NEW w \in Workers, Alloc(w)
    PROVE  CacheInv'
<1> DEFINE m == work[w].mgr
           x == [mgr[m] EXCEPT !.next = mgr[m].next + 1]
<1>1. /\ m \in DOMAIN mgr /\ mgr' = [mgr EXCEPT ![m] = x]
      /\ cached' = cached /\ order' = order
      /\ Turn(w) /\ work'[w].pc = "swap" /\ work'[w].mgr = m
      /\ \E s : /\ work'[w].held = {s} /\ s.ws = mgr[m].ws /\ s.gen = mgr[m].next
  BY AllocIs
<1>2. mgr[m] \in Manager /\ mgr[m].next \in Nat /\ Owns(mgr[m])
  BY <1>1, CacheTypes
<1>3. /\ x \in Manager /\ x.next = mgr[m].next + 1 /\ x.ws = mgr[m].ws
      /\ x.current = mgr[m].current /\ x.history = mgr[m].history
  <2>1. mgr[m].next + 1 \in Nat
    BY <1>2
  <2> QED
    BY <1>2, <2>1 DEF Manager
<1>4. mgr'[m] = x /\ m \in DOMAIN mgr'
  BY <1>1
<1> HIDE DEF x, m
<1>5. x.next >= mgr[m].next
  BY <1>2, <1>3
<1>6. Owns(x)
  <2>1. x.next > 0 /\ \A k \in 1 .. mgr[m].next - 1 : k \in 1 .. x.next - 1
    BY <1>2, <1>3
  <2>2. \A s \in x.current \cup ToSet(x.history) :
           s.ws = x.ws /\ s.gen \in 1 .. mgr[m].next - 1
    BY <1>2, <1>3 DEF Owns
  <2>3. x.current = {} \/ \E s : x.current = {s}
    BY <1>2, <1>3 DEF Owns
  <2> QED
    BY <2>1, <2>2, <2>3 DEF Owns
<1>7. Fits(work[w])'
  <2>1. mgr[m].next \in 1 .. x.next - 1
    BY <1>2, <1>3 DEF Owns
  <2> QED
    BY <1>1, <1>3, <1>4, <2>1 DEF Fits
<1> QED
  BY <1>1, <1>3, <1>5, <1>6, <1>7, OneManager

\* What a swap does.
LEMMA SwapIs ==
    ASSUME CacheInv, NEW w \in Workers, Swap(w)
    PROVE  LET m == work[w].mgr
               x == [mgr[m] EXCEPT !.current = work[w].held] IN
           /\ work[w].pc = "swap" /\ m \in DOMAIN mgr
           /\ mgr' = [mgr EXCEPT ![m] = x]
           /\ x \in Manager /\ x.ws = mgr[m].ws /\ x.next = mgr[m].next
           /\ x.current = work[w].held /\ x.history = mgr[m].history
           /\ cached' = cached /\ order' = order
           /\ Turn(w)
           /\ \/ work'[w].pc = "idle"
              \/ /\ work'[w].pc = "push" /\ work'[w].mgr = m
                 /\ work'[w].held = mgr[m].current /\ mgr[m].current # {}
<1> DEFINE m == work[w].mgr
           x == [mgr[m] EXCEPT !.current = work[w].held]
<1>1. /\ work[w].pc = "swap" /\ cached' = cached /\ order' = order
      /\ mgr' = [mgr EXCEPT ![m].current = work[w].held]
      /\ IF mgr[m].current = {} THEN End(w)
         ELSE work' = [work EXCEPT ![w].pc = "push", ![w].held = mgr[m].current]
  BY DEF Swap, At
<1>2. m \in DOMAIN mgr
  BY <1>1, CacheTypes DEF Fits
<1>3. /\ x \in Manager /\ x.ws = mgr[m].ws /\ x.next = mgr[m].next
      /\ x.current = work[w].held /\ x.history = mgr[m].history
  <2>1. mgr[m] \in Manager /\ work[w].held \subseteq Snapshot
    BY <1>2, CacheTypes
  <2> QED
    BY <2>1 DEF Manager
<1>4. mgr' = [mgr EXCEPT ![m] = x]
  <2>1. mgr \in [1 .. Len(mgr) -> Manager]
    BY CacheTypes, LenProperties
  <2> QED
    BY <1>1, <1>2, <2>1
<1>5. /\ Turn(w)
      /\ \/ work'[w].pc = "idle"
         \/ /\ work'[w].pc = "push" /\ work'[w].mgr = m
            /\ work'[w].held = mgr[m].current /\ mgr[m].current # {}
  <2>1. CASE mgr[m].current = {}
    BY <1>1, <2>1, EndTurns
  <2>2. CASE mgr[m].current # {}
    <3> DEFINE j == [work[w] EXCEPT !.pc = "push", !.held = mgr[m].current]
    <3>1. /\ j \in Work /\ j.pc = "push" /\ j.mgr = work[w].mgr
          /\ j.held = mgr[m].current
      <4>1. work[w] \in Work /\ mgr[m].current \subseteq Snapshot
        BY <1>2, CacheTypes
      <4> QED
        BY <4>1 DEF Work
    <3>2. work' = [work EXCEPT ![w] = j]
      <4>1. work \in [Workers -> Work]
        BY CacheTypes
      <4> QED
        BY <1>1, <2>2, <4>1
    <3> HIDE DEF j
    <3>3. Turn(w) /\ work'[w] = j
      BY <3>1, <3>2, JobTurns
    <3> QED
      BY <2>2, <3>1, <3>3
  <2> QED
    BY <2>1, <2>2
<1> QED
  BY <1>1, <1>2, <1>3, <1>4, <1>5

LEMMA SwapTypes ==
    ASSUME CacheInv, NEW w \in Workers, Swap(w)
    PROVE  CacheInv'
<1> DEFINE m == work[w].mgr
           x == [mgr[m] EXCEPT !.current = work[w].held]
<1>1. /\ work[w].pc = "swap" /\ m \in DOMAIN mgr
      /\ mgr' = [mgr EXCEPT ![m] = x]
      /\ x \in Manager /\ x.ws = mgr[m].ws /\ x.next = mgr[m].next
      /\ x.current = work[w].held /\ x.history = mgr[m].history
      /\ cached' = cached /\ order' = order
      /\ Turn(w)
      /\ \/ work'[w].pc = "idle"
         \/ /\ work'[w].pc = "push" /\ work'[w].mgr = m
            /\ work'[w].held = mgr[m].current /\ mgr[m].current # {}
  BY SwapIs
<1>2. /\ mgr[m].next \in Nat /\ Owns(mgr[m])
      /\ \E s : /\ work[w].held = {s} /\ s.ws = mgr[m].ws /\ s.gen \in 1 .. mgr[m].next - 1
  BY <1>1, CacheTypes DEF Fits
<1>3. mgr'[m] = x /\ m \in DOMAIN mgr'
  BY <1>1
<1> HIDE DEF x, m
<1>4. Owns(x)
  BY <1>1, <1>2 DEF Owns
<1>5. x.next >= mgr[m].next
  BY <1>1, <1>2
<1>6. Fits(work[w])'
  BY <1>1, <1>2, <1>3 DEF Fits, Owns
<1> QED
  BY <1>1, <1>4, <1>5, <1>6, OneManager

\* The sequence of a set with one element, put in front of a history.
LEMMA PushedIs ==
    ASSUME NEW T, NEW h \in Seq(T), NEW s \in T
    PROVE  /\ Pushed(h, {s}) \in Seq(T)
           /\ \A i \in DOMAIN Pushed(h, {s}) :
                /\ i \in Nat
                /\ i = 1 => Pushed(h, {s})[i] = s
                /\ i # 1 => i - 1 \in DOMAIN h /\ Pushed(h, {s})[i] = h[i - 1]
<1> DEFINE q == SetToSeq({s})
<1>1. q \in [1 .. 1 -> {s}]
  <2>1. Cardinality({s}) = 1
    BY FS_Singleton
  <2> DEFINE f == [i \in 1 .. 1 |-> s]
  <2>2. f \in [1 .. 1 -> {s}] /\ IsInjective(f)
    BY DEF IsInjective
  <2>3. \E g \in [1 .. 1 -> {s}] : IsInjective(g)
    BY <2>2
  <2> QED
    BY <2>1, <2>3 DEF SetToSeq
<1>2. q \in Seq(T) /\ Len(q) = 1 /\ q[1] = s
  <2>1. q \in [1 .. 1 -> T] /\ q[1] = s
    BY <1>1
  <2> HIDE DEF q
  <2>2. q \in Seq(T) /\ DOMAIN q = 1 .. 1
    <3>1. 1 \in Nat
      OBVIOUS
    <3>2. q \in UNION {[1 .. n -> T] : n \in Nat}
      BY <2>1, <3>1
    <3> QED
      BY <2>1, <3>2, SeqDef
  <2>3. DOMAIN q = 1 .. Len(q) /\ Len(q) \in Nat
    BY <2>2, LenProperties
  <2> QED
    BY <2>1, <2>2, <2>3
<1> HIDE DEF q
<1>3. Pushed(h, {s}) = q \o h
  BY DEF Pushed, q
<1> DEFINE t == q \o h
<1>4. Len(h) \in Nat /\ DOMAIN h = 1 .. Len(h)
  BY LenProperties
<1>5. /\ t \in Seq(T) /\ Len(t) = Len(q) + Len(h)
      /\ \A i \in 1 .. Len(q) + Len(h) :
            t[i] = IF i <= Len(q) THEN q[i] ELSE h[i - Len(q)]
  BY <1>2, ConcatProperties
<1>6. DOMAIN t = 1 .. Len(t)
  BY <1>5, LenProperties
<1>7. Pushed(h, {s}) = t
  BY <1>3
<1> HIDE DEF t
<1>8. ASSUME NEW i \in DOMAIN t
      PROVE  /\ i \in Nat
             /\ i = 1 => t[i] = s
             /\ i # 1 => i - 1 \in DOMAIN h /\ t[i] = h[i - 1]
  <2>1. i \in 1 .. 1 + Len(h)
    BY <1>2, <1>5, <1>6
  <2>2. t[i] = IF i <= 1 THEN q[i] ELSE h[i - 1]
    BY <1>2, <1>5, <2>1
  <2> QED
    BY <1>2, <1>4, <2>1, <2>2
<1> QED
  BY <1>5, <1>7, <1>8

\* What a push does: nothing, or the replaced snapshot comes first in the
\* history.
LEMMA PushIs ==
    ASSUME CacheInv, NEW w \in Workers, Push(w)
    PROVE  LET m == work[w].mgr
               h == Pushed(mgr[m].history, work[w].held)
               x == [mgr[m] EXCEPT !.history = h] IN
           /\ work[w].pc = "push" /\ m \in DOMAIN mgr /\ End(w)
           /\ cached' = cached /\ order' = order
           /\ mgr' = mgr \/ mgr' = [mgr EXCEPT ![m] = x]
           /\ h \in Seq(Snapshot)
           /\ x \in Manager /\ x.ws = mgr[m].ws /\ x.next = mgr[m].next
           /\ x.current = mgr[m].current /\ x.history = h
           /\ \E s : /\ work[w].held = {s} /\ s.ws = mgr[m].ws /\ s.gen \in 1 .. mgr[m].next - 1
                     /\ \A i \in DOMAIN h :
                          /\ i \in Nat
                          /\ i = 1 => h[i] = s
                          /\ i # 1 => i - 1 \in DOMAIN mgr[m].history
                                      /\ h[i] = mgr[m].history[i - 1]
<1> DEFINE m == work[w].mgr
           h == Pushed(mgr[m].history, work[w].held)
           x == [mgr[m] EXCEPT !.history = h]
<1>1. /\ work[w].pc = "push" /\ cached' = cached /\ order' = order /\ End(w)
      /\ mgr' = IF Guarded(work[w].held) THEN mgr
                ELSE [mgr EXCEPT ![work[w].mgr].history = Pushed(@, work[w].held)]
  BY DEF Push, At
<1>2. /\ m \in DOMAIN mgr
      /\ \E s : /\ work[w].held = {s} /\ s.ws = mgr[m].ws /\ s.gen \in 1 .. mgr[m].next - 1
  BY <1>1, CacheTypes DEF Fits
<1>3. PICK s : work[w].held = {s} /\ s.ws = mgr[m].ws /\ s.gen \in 1 .. mgr[m].next - 1
  BY <1>2
<1>4. mgr[m] \in Manager /\ mgr[m].history \in Seq(Snapshot) /\ s \in Snapshot
  BY <1>2, <1>3, CacheTypes
<1>5. /\ h \in Seq(Snapshot)
      /\ \A i \in DOMAIN h :
           /\ i \in Nat
           /\ i = 1 => h[i] = s
           /\ i # 1 => i - 1 \in DOMAIN mgr[m].history /\ h[i] = mgr[m].history[i - 1]
  BY <1>3, <1>4, PushedIs
<1>6. (mgr' = mgr \/ mgr' = [mgr EXCEPT ![m] = x])
  <2>1. mgr \in [1 .. Len(mgr) -> Manager]
    BY CacheTypes, LenProperties
  <2> QED
    BY <1>1, <1>2, <2>1
<1> HIDE DEF h
<1>7. /\ x \in Manager /\ x.ws = mgr[m].ws /\ x.next = mgr[m].next
      /\ x.current = mgr[m].current /\ x.history = h
  BY <1>4, <1>5 DEF Manager
<1> QED
  BY <1>1, <1>2, <1>3, <1>5, <1>6, <1>7 DEF h

LEMMA PushTypes ==
    ASSUME CacheInv, NEW w \in Workers, Push(w)
    PROVE  CacheInv'
<1> DEFINE m == work[w].mgr
           h == Pushed(mgr[m].history, work[w].held)
           x == [mgr[m] EXCEPT !.history = h]
<1>1. /\ m \in DOMAIN mgr /\ End(w)
      /\ cached' = cached /\ order' = order
      /\ (mgr' = mgr \/ mgr' = [mgr EXCEPT ![m] = x])
      /\ x \in Manager /\ x.ws = mgr[m].ws /\ x.next = mgr[m].next
      /\ x.current = mgr[m].current /\ x.history = h
  BY PushIs
<1>2. PICK s : /\ work[w].held = {s} /\ s.ws = mgr[m].ws /\ s.gen \in 1 .. mgr[m].next - 1
               /\ \A i \in DOMAIN h :
                    /\ i \in Nat
                    /\ i = 1 => h[i] = s
                    /\ i # 1 => i - 1 \in DOMAIN mgr[m].history /\ h[i] = mgr[m].history[i - 1]
  BY PushIs
<1>3. Turn(w) /\ Fits(work[w])'
  BY <1>1, EndTurns
<1>4. mgr[m].next \in Nat /\ Owns(mgr[m])
  BY <1>1, CacheTypes
<1> HIDE DEF x, m, h
<1>5. \A i \in DOMAIN h : h[i] = s \/ h[i] \in ToSet(mgr[m].history)
  BY <1>2 DEF ToSet
<1>6. Owns(x)
  <2>1. x.next > 0 /\ (x.current = {} \/ \E c : x.current = {c})
    BY <1>1, <1>4 DEF Owns
  <2>2. \A c \in x.current \cup ToSet(mgr[m].history) \cup {s} :
          c.ws = x.ws /\ c.gen \in 1 .. x.next - 1
    BY <1>1, <1>2, <1>4 DEF Owns
  <2>3. ToSet(x.history) \subseteq ToSet(mgr[m].history) \cup {s}
    BY <1>1, <1>5 DEF ToSet
  <2> QED
    BY <2>1, <2>2, <2>3 DEF Owns
<1>7. x.next >= mgr[m].next
  BY <1>1, <1>4
<1>8. CASE mgr' = mgr
  BY <1>1, <1>3, <1>8, SameManagers, CacheTypes
<1>9. CASE mgr' = [mgr EXCEPT ![m] = x]
  BY <1>1, <1>3, <1>6, <1>7, <1>9, OneManager
<1> QED
  BY <1>1, <1>8, <1>9

\* Queries change their worker's job only.
LEMMA QueryTypes ==
    ASSUME CacheInv, NEW w \in Workers, NEW ws \in Workspaces, Query(w, ws)
    PROVE  CacheInv'
<1> DEFINE j == [work[w] EXCEPT !.pc = "find", !.mgr = cached[ws], !.todo = <<ws>>]
<1>1. cached[ws] \in DOMAIN mgr /\ cached[ws] \in Nat
  BY CacheTypes DEF Query, InCache
<1>2. <<ws>> \in Seq(Workspaces)
  OBVIOUS
<1>3. j \in Work /\ j.pc = "find" /\ j.mgr = cached[ws]
  BY <1>1, <1>2, CacheTypes DEF Work
<1>4. work' = [work EXCEPT ![w] = j] /\ UNCHANGED <<mgr, cached, order>>
  BY CacheTypes DEF Query
<1> HIDE DEF j
<1>5. Turn(w) /\ work'[w] = j
  BY <1>3, <1>4, JobTurns
<1>6. Fits(work[w])'
  BY <1>1, <1>3, <1>4, <1>5 DEF Fits
<1> QED
  BY <1>4, <1>5, <1>6, SameManagers, CacheTypes

LEMMA GuardTypes ==
    ASSUME CacheInv, NEW w \in Workers, Guard(w)
    PROVE  CacheInv'
<1> DEFINE S == mgr[work[w].mgr].current
           j == [work[w] EXCEPT !.pc = "guard", !.held = S]
<1>1. work[w].pc = "find" /\ UNCHANGED <<mgr, cached, order>>
  BY DEF Guard, At
<1>2. S \subseteq Snapshot
  BY <1>1, CacheTypes DEF Fits
<1>3. CASE End(w)
  <2>1. Turn(w) /\ Fits(work[w])'
    BY <1>3, EndTurns
  <2> QED
    BY <1>1, <2>1, SameManagers, CacheTypes
<1>4. CASE S # {} /\ work' = [work EXCEPT ![w].pc = "guard", ![w].held = S]
  <2>1. work' = [work EXCEPT ![w] = j]
    BY <1>4, CacheTypes
  <2> HIDE DEF S
  <2>2. j \in Work /\ j.pc = "guard" /\ j.held = S
    BY <1>2, CacheTypes DEF Work
  <2> HIDE DEF j
  <2>3. Turn(w) /\ work'[w] = j
    BY <2>1, <2>2, JobTurns
  <2>4. Fits(work[w])'
    BY <1>4, <2>2, <2>3 DEF Fits
  <2> QED
    BY <1>1, <2>3, <2>4, SameManagers, CacheTypes
<1> QED
  BY <1>3, <1>4 DEF Guard

LEMMA TakePathTypes ==
    ASSUME CacheInv, NEW w \in Workers, TakePath(w)
    PROVE  CacheInv'
<1>1. work[w].pc = "guard" /\ UNCHANGED <<mgr, cached, order>>
  BY DEF TakePath, At
<1> DEFINE n == (CHOOSE s \in work[w].held : TRUE).fd
<1>2. PICK m \in {0, work[w].mgr} :
        work' = [work EXCEPT ![w].pc = "open", ![w].mgr = m, ![w].held = {}, ![w].fd = n]
  BY DEF TakePath
<1>3. n \in Nat
  <2>1. work[w].held # {} /\ work[w].held \subseteq Snapshot
    BY <1>1, CacheTypes DEF Fits
  <2>2. (CHOOSE s \in work[w].held : TRUE) \in Snapshot
    BY <2>1
  <2> QED
    BY <2>2 DEF Snapshot
<1> HIDE DEF n
<1> DEFINE j == [work[w] EXCEPT !.pc = "open", !.mgr = m, !.held = {}, !.fd = n]
<1>4. j \in Work /\ j.pc = "open"
  <2>1. m \in Nat
    BY CacheTypes
  <2> QED
    BY <1>3, <2>1, CacheTypes DEF Work
<1>5. work' = [work EXCEPT ![w] = j]
  BY <1>2, CacheTypes
<1> HIDE DEF j
<1>6. Turn(w) /\ work'[w] = j
  BY <1>4, <1>5, JobTurns
<1>7. Fits(work[w])'
  BY <1>4, <1>6 DEF Fits
<1> QED
  BY <1>1, <1>6, <1>7, SameManagers, CacheTypes

LEMMA TakeStoreTypes ==
    ASSUME CacheInv, NEW w \in Workers, TakeStore(w)
    PROVE  CacheInv'
<1> DEFINE j == [work[w] EXCEPT !.pc = "meta", !.mgr = 0, !.held = {}]
<1>1. work' = [work EXCEPT ![w] = j] /\ UNCHANGED <<mgr, cached, order>>
  BY CacheTypes DEF TakeStore
<1>2. j \in Work /\ j.pc = "meta"
  BY CacheTypes DEF Work
<1> HIDE DEF j
<1>3. Turn(w) /\ work'[w] = j
  BY <1>1, <1>2, JobTurns
<1>4. Fits(work[w])'
  BY <1>2, <1>3 DEF Fits
<1> QED
  BY <1>1, <1>3, <1>4, SameManagers, CacheTypes

LEMMA OpenTypes ==
    ASSUME CacheInv, NEW w \in Workers, OpenPath(w) \/ Meta(w)
    PROVE  CacheInv'
<1>1. End(w) /\ UNCHANGED <<mgr, cached, order>>
  BY DEF OpenPath, Meta
<1>2. Turn(w) /\ Fits(work[w])'
  BY <1>1, EndTurns
<1> QED
  BY <1>1, <1>2, SameManagers, CacheTypes

LEMMA CacheStarts == CacheInit => CacheInv
<1> SUFFICES ASSUME CacheInit PROVE CacheInv
  OBVIOUS
<1>1. /\ mgr = <<>> /\ order = <<>> /\ cached = [ws \in Workspaces |-> 0]
      /\ work = [w \in Workers |-> NoWork]
  BY DEF CacheInit
<1>2. NoWork \in Work /\ NoWork.pc = "idle"
  BY DEF NoWork, Work
<1>3. /\ mgr \in Seq(Manager) /\ DOMAIN mgr = {} /\ Len(mgr) = 0
      /\ order \in Seq(Workspaces)
  BY <1>1
<1>4. CacheTypeOK
  BY <1>1, <1>2, <1>3 DEF CacheTypeOK
<1>5. \A w \in Workers : Fits(work[w])
  BY <1>1, <1>2 DEF Fits
<1> QED
  BY <1>3, <1>4, <1>5 DEF CacheInv

LEMMA CacheStep ==
    ASSUME CacheInv, [CacheNext]_cacheVars
    PROVE  CacheInv'
<1>1. CASE CacheNext
  <2>1. PICK w \in Workers :
          \/ \E ws \in Workspaces : Find(w, ws) \/ Evict(w, ws) \/ Query(w, ws)
          \/ Collect(w)
          \/ EvictOrder(w) \/ CollectOne(w)
          \/ Load(w) \/ Alloc(w) \/ Swap(w) \/ Push(w)
          \/ Guard(w) \/ TakePath(w) \/ OpenPath(w)
          \/ TakeStore(w) \/ Meta(w)
    BY <1>1 DEF CacheNext, WorkerStep
  <2> QED
    BY <2>1, FindTypes, EvictTypes, QueryTypes, CollectTypes, EvictOrderTypes, CollectOneTypes,
       LoadTypes, AllocTypes, SwapTypes, PushTypes, GuardTypes, TakePathTypes, OpenTypes,
       TakeStoreTypes
<1>2. CASE UNCHANGED cacheVars
  BY <1>2 DEF cacheVars, CacheInv, CacheTypeOK, Fits
<1> QED
  BY <1>1, <1>2

\* Every snapshot a manager refers to is of its workspace and of a generation it
\* has given out, for any number of workers.
THEOREM CacheTypeCorrect == CacheSpec => []CacheTypeOK
<1>1. CacheInv /\ [CacheNext]_cacheVars => CacheInv'
  BY CacheStep
<1>2. CacheInv => CacheTypeOK
  BY DEF CacheInv
<1> QED
  BY CacheStarts, <1>1, <1>2, PTL DEF CacheSpec

\* Nobody else's job changes when a worker steps.
LEMMA OthersWait ==
    ASSUME CacheInv, NEW w \in Workers,
           \/ \E ws \in Workspaces : Find(w, ws) \/ Evict(w, ws) \/ Query(w, ws)
           \/ Collect(w)
           \/ EvictOrder(w) \/ CollectOne(w)
           \/ Load(w) \/ Alloc(w) \/ Swap(w) \/ Push(w)
           \/ Guard(w) \/ TakePath(w) \/ OpenPath(w)
           \/ TakeStore(w) \/ Meta(w)
    PROVE  \A v \in Workers : v # w => work'[v] = work[v]
<1>1. work \in [Workers -> Work]
  BY CacheTypes
<1>2. ASSUME NEW j, work' = [work EXCEPT ![w] = j]
      PROVE  \A v \in Workers : v # w => work'[v] = work[v]
  BY <1>1, <1>2
<1>3. \E j : work' = [work EXCEPT ![w] = j]
  <2>1. ASSUME NEW ws \in Workspaces, Find(w, ws) \/ Evict(w, ws) \/ Query(w, ws)
        PROVE  \E j : work' = [work EXCEPT ![w] = j]
    BY <1>1, <2>1 DEF Find, Evict, Query
  <2>2. ASSUME End(w) PROVE \E j : work' = [work EXCEPT ![w] = j]
    BY <2>2 DEF End
  <2>3. CASE Collect(w) \/ EvictOrder(w) \/ CollectOne(w)
    BY <1>1, <2>2, <2>3 DEF Collect, EvictOrder, CollectOne
  <2>4. CASE Load(w) \/ Alloc(w) \/ Swap(w) \/ Push(w)
    BY <1>1, <2>2, <2>4 DEF Load, Goto, Alloc, Swap, Push
  <2>5. CASE Guard(w) \/ TakePath(w) \/ OpenPath(w) \/ TakeStore(w) \/ Meta(w)
    BY <1>1, <2>2, <2>5 DEF Guard, TakePath, OpenPath, TakeStore, Meta
  <2> QED
    BY <2>1, <2>3, <2>4, <2>5
<1> QED
  BY <1>2, <1>3

\* The generations a manager refers to are different.
Tidy(x) ==
    /\ \A s \in x.current, i \in DOMAIN x.history : s.gen # x.history[i].gen
    /\ \A i, j \in DOMAIN x.history : i # j => x.history[i].gen # x.history[j].gen

\* The manager refers to no snapshot of this one's generation.
Free(s, x) ==
    /\ \A c \in x.current : s.gen # c.gen
    /\ \A i \in DOMAIN x.history : s.gen # x.history[i].gen

InHand(j) == j.pc \in {"swap", "push"}

DistinctInv ==
    /\ CacheInv
    /\ \A m \in DOMAIN mgr : Tidy(mgr[m])
    /\ \A w \in Workers : InHand(work[w]) =>
          \A s \in work[w].held : Free(s, mgr[work[w].mgr])
    /\ \A v, w \in Workers : v # w /\ InHand(work[v]) /\ InHand(work[w])
                                /\ work[v].mgr = work[w].mgr =>
          \A s \in work[v].held, x \in work[w].held : s.gen # x.gen

\* What keeps them different, said of the managers and of one worker's job.
LEMMA DistinctKeeps ==
    ASSUME DistinctInv, CacheInv', NEW w \in Workers,
           \A v \in Workers : v # w => work'[v] = work[v],
           \A m \in DOMAIN mgr' : Tidy(mgr'[m]),
           \A v \in Workers : v # w /\ InHand(work[v]) =>
              \A s \in work[v].held : Free(s, mgr'[work[v].mgr]),
           InHand(work'[w]) => \A s \in work'[w].held :
              /\ Free(s, mgr'[work'[w].mgr])
              /\ \A v \in Workers : v # w /\ InHand(work[v]) /\ work[v].mgr = work'[w].mgr =>
                    \A x \in work[v].held : s.gen # x.gen
    PROVE  DistinctInv'
<1>1. ASSUME NEW v \in Workers, InHand(work'[v])
      PROVE  \A s \in work'[v].held : Free(s, mgr'[work'[v].mgr])
  BY <1>1
<1>2. ASSUME NEW u \in Workers, NEW v \in Workers, u # v, InHand(work'[u]), InHand(work'[v]),
             work'[u].mgr = work'[v].mgr
      PROVE  \A s \in work'[u].held, x \in work'[v].held : s.gen # x.gen
  <2>1. CASE u = w
    BY <1>2, <2>1
  <2>2. CASE v = w
    BY <1>2, <2>2
  <2>3. CASE u # w /\ v # w
    BY <1>2, <2>3 DEF DistinctInv
  <2> QED
    BY <2>1, <2>2, <2>3
<1>3. \A v \in Workers : InHand(work'[v]) => \A s \in work'[v].held : Free(s, mgr'[work'[v].mgr])
  BY <1>1
<1>4. \A u, v \in Workers : u # v /\ InHand(work'[u]) /\ InHand(work'[v])
                               /\ work'[u].mgr = work'[v].mgr =>
         \A s \in work'[u].held, x \in work'[v].held : s.gen # x.gen
  BY <1>2
<1> QED
  BY <1>3, <1>4 DEF DistinctInv, InHand, Free, Tidy

\* What x must be to take the place of manager m.
Replaces(x, w, m) ==
    /\ Tidy(x)
    /\ \A v \in Workers : v # w /\ InHand(work[v]) /\ work[v].mgr = m =>
          \A s \in work[v].held : Free(s, x)
    /\ InHand(work'[w]) => work'[w].mgr = m /\ \A s \in work'[w].held :
          /\ Free(s, x)
          /\ \A v \in Workers : v # w /\ InHand(work[v]) /\ work[v].mgr = m =>
                \A y \in work[v].held : s.gen # y.gen

\* A manager of which only what is published changes.
LEMMA OneTidy ==
    ASSUME DistinctInv, CacheInv', NEW w \in Workers,
           \A v \in Workers : v # w => work'[v] = work[v],
           NEW m \in DOMAIN mgr, NEW x, mgr' = [mgr EXCEPT ![m] = x], Replaces(x, w, m)
    PROVE  DistinctInv'
<1>1. DOMAIN mgr' = DOMAIN mgr /\ \A k \in DOMAIN mgr : mgr'[k] = IF k = m THEN x ELSE mgr[k]
  <2>1. mgr \in [1 .. Len(mgr) -> Manager]
    BY CacheTypes, LenProperties DEF DistinctInv
  <2> QED
    BY <2>1
<1>2. \A k \in DOMAIN mgr' : Tidy(mgr'[k])
  BY <1>1 DEF DistinctInv, Replaces
<1>3. \A v \in Workers : v # w /\ InHand(work[v]) =>
        \A s \in work[v].held : Free(s, mgr'[work[v].mgr])
  <2> SUFFICES ASSUME NEW v \in Workers, v # w, InHand(work[v]), NEW s \in work[v].held
               PROVE  Free(s, mgr'[work[v].mgr])
    OBVIOUS
  <2>1. work[v].mgr \in DOMAIN mgr
    BY CacheTypes DEF DistinctInv, InHand, Fits
  <2>2. CASE work[v].mgr = m
    BY <1>1, <2>2 DEF Replaces
  <2>3. CASE work[v].mgr # m
    BY <1>1, <2>1, <2>3 DEF DistinctInv
  <2> QED
    BY <2>2, <2>3
<1>4. InHand(work'[w]) => \A s \in work'[w].held :
        /\ Free(s, mgr'[work'[w].mgr])
        /\ \A v \in Workers : v # w /\ InHand(work[v]) /\ work[v].mgr = work'[w].mgr =>
              \A y \in work[v].held : s.gen # y.gen
  BY <1>1 DEF Replaces
<1> QED
  BY <1>2, <1>3, <1>4, DistinctKeeps

\* Nothing else changes what is published, or leaves a publication half done.
LEMMA OthersAside ==
    ASSUME CacheInv, NEW w \in Workers,
           \/ \E ws \in Workspaces : Evict(w, ws) \/ Query(w, ws)
           \/ Collect(w) \/ EvictOrder(w) \/ Load(w)
           \/ Guard(w) \/ TakePath(w) \/ OpenPath(w)
           \/ TakeStore(w) \/ Meta(w)
    PROVE  mgr' = mgr /\ work'[w].pc \notin {"swap", "push"}
<1>1. work \in [Workers -> Work] /\ work[w] \in Work
  BY CacheTypes
<1>2. ASSUME NEW ws \in Workspaces, Evict(w, ws)
      PROVE  mgr' = mgr /\ work'[w].pc = "evict"
  <2>1. mgr' = mgr /\ work'[w] = [work[w] EXCEPT !.pc = "evict", !.todo = <<ws>>]
    BY <1>1, <1>2 DEF Evict
  <2> QED
    BY <1>1, <2>1 DEF Work
<1>3. ASSUME NEW ws \in Workspaces, Query(w, ws)
      PROVE  mgr' = mgr /\ work'[w].pc = "find"
  <2>1. mgr' = mgr /\ work'[w] = [work[w] EXCEPT !.pc = "find", !.mgr = cached[ws], !.todo = <<ws>>]
    BY <1>1, <1>3 DEF Query
  <2> QED
    BY <1>1, <2>1 DEF Work
<1>4. ASSUME Collect(w)
      PROVE  mgr' = mgr /\ work'[w].pc = "gc"
  <2>1. mgr' = mgr /\ work'[w] = [work[w] EXCEPT !.pc = "gc",
                                       !.todo = AtPositions(order, Victims)]
    BY <1>1, <1>4 DEF Collect
  <2> QED
    BY <1>1, <2>1 DEF Work
<1>5. ASSUME End(w) PROVE work'[w].pc = "idle"
  BY <1>5, EndTurns
<1>6. ASSUME Load(w)
      PROVE  mgr' = mgr /\ (work'[w].pc = "alloc" \/ work'[w].pc = "idle")
  <2>1. mgr' = mgr /\ (End(w) \/ work'[w] = [work[w] EXCEPT !.pc = "alloc"])
    BY <1>1, <1>6 DEF Load, Goto
  <2> QED
    BY <1>1, <1>5, <2>1 DEF Work
<1>7. ASSUME Guard(w)
      PROVE  mgr' = mgr /\ (work'[w].pc = "guard" \/ work'[w].pc = "idle")
  <2>1. mgr' = mgr
    BY <1>7 DEF Guard
  <2>2. CASE End(w)
    BY <1>5, <2>1, <2>2
  <2>3. CASE work' = [work EXCEPT ![w].pc = "guard", ![w].held = mgr[work[w].mgr].current]
    <3>1. work'[w] = [work[w] EXCEPT !.pc = "guard", !.held = mgr[work[w].mgr].current]
      BY <1>1, <2>3
    <3> QED
      BY <1>1, <2>1, <3>1 DEF Work
  <2> QED
    BY <1>7, <2>2, <2>3 DEF Guard
<1>8. ASSUME TakePath(w)
      PROVE  mgr' = mgr /\ work'[w].pc = "open"
  <2> DEFINE n == (CHOOSE s \in work[w].held : TRUE).fd
  <2>1. PICK m \in {0, work[w].mgr} :
          work' = [work EXCEPT ![w].pc = "open", ![w].mgr = m, ![w].held = {}, ![w].fd = n]
    BY <1>8 DEF TakePath
  <2>2. mgr' = mgr
    BY <1>8 DEF TakePath
  <2> HIDE DEF n
  <2>3. work'[w] = [work[w] EXCEPT !.pc = "open", !.mgr = m, !.held = {}, !.fd = n]
    BY <1>1, <2>1
  <2> QED
    BY <1>1, <2>2, <2>3 DEF Work
<1>9. ASSUME TakeStore(w)
      PROVE  mgr' = mgr /\ work'[w].pc = "meta"
  <2>1. mgr' = mgr /\ work'[w] = [work[w] EXCEPT !.pc = "meta", !.mgr = 0, !.held = {}]
    BY <1>1, <1>9 DEF TakeStore
  <2> QED
    BY <1>1, <2>1 DEF Work
<1>10. ASSUME EvictOrder(w) \/ OpenPath(w) \/ Meta(w)
       PROVE  mgr' = mgr /\ End(w)
  BY <1>10 DEF EvictOrder, OpenPath, Meta
<1> QED
  BY <1>2, <1>3, <1>4, <1>5, <1>6, <1>7, <1>8, <1>9, <1>10

\* A step that leaves the managers there are alone, and after which the worker
\* has nothing in hand.
LEMMA NothingInHand ==
    ASSUME DistinctInv, CacheInv', NEW w \in Workers,
           \A v \in Workers : v # w => work'[v] = work[v],
           ~ InHand(work'[w]), DOMAIN mgr \subseteq DOMAIN mgr',
           \A m \in DOMAIN mgr : mgr'[m] = mgr[m],
           \A m \in DOMAIN mgr' : m \notin DOMAIN mgr => Tidy(mgr'[m])
    PROVE  DistinctInv'
<1>1. \A m \in DOMAIN mgr' : Tidy(mgr'[m])
  BY DEF DistinctInv
<1>2. \A v \in Workers : v # w /\ InHand(work[v]) =>
        \A s \in work[v].held : Free(s, mgr'[work[v].mgr])
  <2> SUFFICES ASSUME NEW v \in Workers, v # w, InHand(work[v]), NEW s \in work[v].held
               PROVE  Free(s, mgr'[work[v].mgr])
    OBVIOUS
  <2>1. work[v].mgr \in DOMAIN mgr
    BY CacheTypes DEF DistinctInv, InHand, Fits
  <2> QED
    BY <2>1 DEF DistinctInv
<1> QED
  BY <1>1, <1>2, DistinctKeeps

\* A new manager has no generations yet.
LEMMA FindDistinct ==
    ASSUME DistinctInv, CacheInv', NEW w \in Workers,
           \A v \in Workers : v # w => work'[v] = work[v],
           NEW ws \in Workspaces, Find(w, ws)
    PROVE  DistinctInv'
<1>0. /\ CacheInv /\ work \in [Workers -> Work] /\ mgr \in Seq(Manager)
      /\ DOMAIN mgr = 1 .. Len(mgr) /\ Len(mgr) \in Nat
  BY CacheTypes DEF DistinctInv
<1>1. ~ InHand(work'[w])
  <2>1. PICK n : work' = [work EXCEPT ![w].pc = "load", ![w].mgr = n]
    BY DEF Find
  <2>2. work'[w] = [work[w] EXCEPT !.pc = "load", !.mgr = n]
    BY <1>0, <2>1
  <2>3. work[w] \in Work
    BY <1>0
  <2>4. work'[w].pc = "load"
    BY <2>2, <2>3 DEF Work
  <2> QED
    BY <2>4 DEF InHand
<1> DEFINE x == [ws |-> ws, next |-> 1, current |-> {}, history |-> <<>>]
<1>3. CASE mgr' = mgr
  BY <1>1, <1>3, NothingInHand
<1>4. CASE mgr' = Append(mgr, x)
  <2>1. x \in Manager /\ Tidy(x)
    BY DEF Manager, Tidy
  <2> HIDE DEF x
  <2>2. /\ mgr' \in Seq(Manager) /\ Len(mgr') = Len(mgr) + 1
        /\ \A i \in 1 .. Len(mgr) : mgr'[i] = mgr[i]
        /\ mgr'[Len(mgr) + 1] = x
    BY <1>0, <1>4, <2>1, AppendProperties
  <2>3. DOMAIN mgr' = 1 .. Len(mgr) + 1
    BY <2>2, LenProperties
  <2>4. /\ DOMAIN mgr \subseteq DOMAIN mgr' /\ \A m \in DOMAIN mgr : mgr'[m] = mgr[m]
        /\ \A m \in DOMAIN mgr' : m \notin DOMAIN mgr => Tidy(mgr'[m])
    BY <1>0, <2>1, <2>2, <2>3
  <2> QED
    BY <1>1, <2>4, NothingInHand
<1> QED
  BY <1>3, <1>4 DEF Find

\* A collection drops the end of a history.
LEMMA CollectOneDistinct ==
    ASSUME DistinctInv, CacheInv', NEW w \in Workers,
           \A v \in Workers : v # w => work'[v] = work[v],
           CollectOne(w)
    PROVE  DistinctInv'
<1>0. CacheInv /\ work \in [Workers -> Work] /\ work[w].pc = "gc"
  BY CacheTypes DEF DistinctInv, CollectOne, At
<1>1. CASE End(w) /\ mgr' = mgr
  <2>1. ~ InHand(work'[w])
    BY <1>0, <1>1, EndTurns DEF InHand
  <2> QED
    BY <1>1, <2>1, NothingInHand
<1>2. CASE /\ work[w].todo # <<>> /\ work' = [work EXCEPT ![w].todo = Tail(@)]
           /\ LET m == cached[Head(work[w].todo)] IN
              \E keep \in 0 .. 1 :
                 mgr' = IF m = 0 THEN mgr
                        ELSE [mgr EXCEPT ![m].history = Truncated(@, keep)]
  <2>1. ~ InHand(work'[w])
    <3>1. work'[w] = [work[w] EXCEPT !.todo = Tail(work[w].todo)]
      BY <1>0, <1>2
    <3>2. work[w] \in Work
      BY <1>0
    <3> QED
      BY <1>0, <3>1, <3>2 DEF Work, InHand
  <2> DEFINE m == cached[Head(work[w].todo)]
  <2>3. PICK keep \in 0 .. 1 :
          mgr' = IF m = 0 THEN mgr ELSE [mgr EXCEPT ![m].history = Truncated(@, keep)]
    BY <1>2
  <2>4. m \in 0 .. Len(mgr)
    <3>1. Head(work[w].todo) \in Workspaces
      BY <1>0, <1>2, CacheTypes, HeadTailProperties
    <3> QED
      BY <1>0, <3>1, CacheTypes
  <2> HIDE DEF m
  <2>5. CASE m = 0
    <3>1. mgr' = mgr
      BY <2>3, <2>5
    <3> QED
      BY <2>1, <3>1, NothingInHand
  <2>6. CASE m # 0
    <3>1. m \in DOMAIN mgr
      BY <1>0, <2>4, <2>6, CacheTypes
    <3> DEFINE h == Truncated(mgr[m].history, keep)
               x == [mgr[m] EXCEPT !.history = h]
    <3>2. mgr' = [mgr EXCEPT ![m] = x]
      <4>1. mgr' = [mgr EXCEPT ![m].history = Truncated(@, keep)]
        BY <2>3, <2>6
      <4>2. mgr \in [1 .. Len(mgr) -> Manager]
        BY <1>0, CacheTypes, LenProperties
      <4> QED
        BY <3>1, <4>1, <4>2
    <3>3. \A i \in DOMAIN h : i \in DOMAIN mgr[m].history /\ h[i] = mgr[m].history[i]
      <4>1. mgr[m].history \in Seq(Snapshot)
        BY <1>0, <3>1, CacheTypes
      <4> QED
        BY <4>1, TruncatedIs
    <3> HIDE DEF h
    <3>4. x.current = mgr[m].current /\ x.history = h
      BY <1>0, <3>1, CacheTypes DEF Manager
    <3> HIDE DEF x
    <3>5. Tidy(mgr[m])
      BY <3>1 DEF DistinctInv
    <3>6. Tidy(x)
      BY <3>3, <3>4, <3>5 DEF Tidy
    <3>7. \A v \in Workers : v # w /\ InHand(work[v]) /\ work[v].mgr = m =>
             \A s \in work[v].held : Free(s, x)
      BY <3>3, <3>4 DEF DistinctInv, Free
    <3>8. Replaces(x, w, m)
      BY <2>1, <3>6, <3>7 DEF Replaces
    <3> QED
      BY <3>1, <3>2, <3>8, OneTidy
  <2> QED
    BY <2>5, <2>6
<1> QED
  BY <1>1, <1>2 DEF CollectOne

\* A new generation is that of no other snapshot.
LEMMA AllocDistinct ==
    ASSUME DistinctInv, CacheInv', NEW w \in Workers,
           \A v \in Workers : v # w => work'[v] = work[v],
           Alloc(w)
    PROVE  DistinctInv'
<1> DEFINE m == work[w].mgr
           x == [mgr[m] EXCEPT !.next = mgr[m].next + 1]
<1>0. CacheInv
  BY DEF DistinctInv
<1>1. /\ m \in DOMAIN mgr /\ mgr' = [mgr EXCEPT ![m] = x]
      /\ work'[w].pc = "swap" /\ work'[w].mgr = m
      /\ \E s : work'[w].held = {s} /\ s.gen = mgr[m].next
  BY <1>0, AllocIs
<1>2. mgr[m] \in Manager /\ mgr[m].next \in Nat /\ Owns(mgr[m]) /\ Tidy(mgr[m])
  BY <1>0, <1>1, CacheTypes DEF DistinctInv
<1>3. x.current = mgr[m].current /\ x.history = mgr[m].history
  BY <1>2 DEF Manager
<1> HIDE DEF x
<1>4. \A c \in x.current \cup ToSet(x.history) : mgr[m].next # c.gen
  BY <1>2, <1>3 DEF Owns
<1>5. \A s \in work'[w].held : Free(s, x)
  BY <1>1, <1>4 DEF Free, ToSet
<1>6. \A v \in Workers : v # w /\ InHand(work[v]) /\ work[v].mgr = m =>
         \A y \in work[v].held : mgr[m].next # y.gen /\ Free(y, x)
  <2> SUFFICES ASSUME NEW v \in Workers, InHand(work[v]), work[v].mgr = m, NEW y \in work[v].held
               PROVE  mgr[m].next # y.gen /\ Free(y, x)
    OBVIOUS
  <2>1. y.gen \in 1 .. mgr[m].next - 1
    BY <1>0, CacheTypes DEF InHand, Fits
  <2>2. Free(y, mgr[m])
    BY DEF DistinctInv
  <2> QED
    BY <1>2, <1>3, <2>1, <2>2 DEF Free
<1>7. Tidy(x)
  BY <1>2, <1>3 DEF Tidy
<1> HIDE DEF m
<1>8. Replaces(x, w, m)
  BY <1>1, <1>5, <1>6, <1>7 DEF Replaces
<1> QED
  BY <1>1, <1>8, OneTidy

\* The snapshot in hand becomes the current one, and the current one comes into
\* the worker's hands.
LEMMA SwapDistinct ==
    ASSUME DistinctInv, CacheInv', NEW w \in Workers,
           \A v \in Workers : v # w => work'[v] = work[v],
           Swap(w)
    PROVE  DistinctInv'
<1> DEFINE m == work[w].mgr
           x == [mgr[m] EXCEPT !.current = work[w].held]
<1>0. CacheInv
  BY DEF DistinctInv
<1>1. /\ work[w].pc = "swap" /\ m \in DOMAIN mgr
      /\ mgr' = [mgr EXCEPT ![m] = x]
      /\ x.current = work[w].held /\ x.history = mgr[m].history
      /\ \/ work'[w].pc = "idle"
         \/ /\ work'[w].pc = "push" /\ work'[w].mgr = m
            /\ work'[w].held = mgr[m].current
  BY <1>0, SwapIs
<1>2. Tidy(mgr[m]) /\ Owns(mgr[m]) /\ mgr[m].current \subseteq Snapshot /\ InHand(work[w])
      /\ \A s \in work[w].held : Free(s, mgr[m])
  BY <1>0, <1>1, CacheTypes DEF DistinctInv, InHand
<1> HIDE DEF x
<1>3. Tidy(x)
  BY <1>1, <1>2 DEF Tidy, Free
<1>4. \A v \in Workers : v # w /\ InHand(work[v]) /\ work[v].mgr = m =>
         \A y \in work[v].held : Free(y, x) /\ \A c \in mgr[m].current : c.gen # y.gen
  <2> SUFFICES ASSUME NEW v \in Workers, v # w, InHand(work[v]), work[v].mgr = m,
                      NEW y \in work[v].held
               PROVE  Free(y, x) /\ \A c \in mgr[m].current : c.gen # y.gen
    OBVIOUS
  <2>1. Free(y, mgr[m]) /\ \A s \in work[w].held : y.gen # s.gen
    BY <1>2 DEF DistinctInv
  <2> QED
    BY <1>1, <2>1 DEF Free
<1>5. \A s \in mgr[m].current : Free(s, x)
  BY <1>1, <1>2 DEF Free, Tidy
<1>6. InHand(work'[w]) => work'[w].mgr = m /\ work'[w].held = mgr[m].current
  BY <1>1 DEF InHand
<1> HIDE DEF m
<1>7. Replaces(x, w, m)
  BY <1>3, <1>4, <1>5, <1>6 DEF Replaces
<1> QED
  BY <1>1, <1>7, OneTidy

\* The replaced snapshot goes to the history, or is dropped.
LEMMA PushDistinct ==
    ASSUME DistinctInv, CacheInv', NEW w \in Workers,
           \A v \in Workers : v # w => work'[v] = work[v],
           Push(w)
    PROVE  DistinctInv'
<1> DEFINE m == work[w].mgr
           h == Pushed(mgr[m].history, work[w].held)
           x == [mgr[m] EXCEPT !.history = h]
<1>0. CacheInv
  BY DEF DistinctInv
<1>1. /\ work[w].pc = "push" /\ m \in DOMAIN mgr /\ End(w)
      /\ (mgr' = mgr \/ mgr' = [mgr EXCEPT ![m] = x])
      /\ x.current = mgr[m].current /\ x.history = h
  BY <1>0, PushIs
<1>2. PICK s : /\ work[w].held = {s} /\ s.ws = mgr[m].ws /\ s.gen \in 1 .. mgr[m].next - 1
               /\ \A i \in DOMAIN h :
                    /\ i \in Nat
                    /\ i = 1 => h[i] = s
                    /\ i # 1 => i - 1 \in DOMAIN mgr[m].history /\ h[i] = mgr[m].history[i - 1]
  BY <1>0, PushIs
<1>3. ~ InHand(work'[w])
  BY <1>0, <1>1, EndTurns DEF InHand
<1>4. Tidy(mgr[m]) /\ Free(s, mgr[m])
  BY <1>1, <1>2 DEF DistinctInv, InHand
<1>5. \A v \in Workers : v # w /\ InHand(work[v]) /\ work[v].mgr = m =>
         \A y \in work[v].held : Free(y, mgr[m]) /\ y.gen # s.gen
  BY <1>1, <1>2 DEF DistinctInv, InHand
<1> HIDE DEF x, m, h
<1>6. Tidy(x)
  <2>1. ASSUME NEW c \in x.current, NEW i \in DOMAIN h
        PROVE  c.gen # h[i].gen
    <3>1. CASE i = 1
      BY <1>1, <1>2, <1>4, <2>1, <3>1 DEF Free
    <3>2. CASE i # 1
      BY <1>1, <1>2, <1>4, <2>1, <3>2 DEF Tidy
    <3> QED
      BY <3>1, <3>2
  <2>2. ASSUME NEW i \in DOMAIN h, NEW j \in DOMAIN h, i # j
        PROVE  h[i].gen # h[j].gen
    <3>1. i \in Nat /\ j \in Nat
      BY <1>2
    <3>2. CASE i = 1
      BY <1>2, <1>4, <2>2, <3>1, <3>2 DEF Free
    <3>3. CASE j = 1
      BY <1>2, <1>4, <2>2, <3>1, <3>3 DEF Free
    <3>4. CASE i # 1 /\ j # 1
      <4>1. i - 1 # j - 1
        BY <2>2, <3>1
      <4> QED
        BY <1>2, <1>4, <3>4, <4>1 DEF Tidy
    <3> QED
      BY <3>2, <3>3, <3>4
  <2> QED
    BY <1>1, <2>1, <2>2 DEF Tidy
<1>7. ASSUME NEW y, Free(y, mgr[m]), y.gen # s.gen PROVE Free(y, x)
  BY <1>1, <1>2, <1>7 DEF Free
<1>8. CASE mgr' = mgr
  BY <1>3, <1>8, NothingInHand
<1>9. CASE mgr' = [mgr EXCEPT ![m] = x]
  <2>1. \A v \in Workers : v # w /\ InHand(work[v]) /\ work[v].mgr = m =>
           \A y \in work[v].held : Free(y, x)
    BY <1>5, <1>7
  <2>2. Replaces(x, w, m)
    BY <1>3, <1>6, <2>1 DEF Replaces
  <2> QED
    BY <1>1, <1>9, <2>2, OneTidy
<1> QED
  BY <1>1, <1>8, <1>9

LEMMA DistinctStep ==
    ASSUME DistinctInv, [CacheNext]_cacheVars
    PROVE  DistinctInv'
<1>1. CacheInv' /\ CacheInv
  BY CacheStep DEF DistinctInv
<1>2. CASE CacheNext
  <2>1. PICK w \in Workers :
          \/ \E ws \in Workspaces : Find(w, ws) \/ Evict(w, ws) \/ Query(w, ws)
          \/ Collect(w)
          \/ EvictOrder(w) \/ CollectOne(w)
          \/ Load(w) \/ Alloc(w) \/ Swap(w) \/ Push(w)
          \/ Guard(w) \/ TakePath(w) \/ OpenPath(w)
          \/ TakeStore(w) \/ Meta(w)
    BY <1>2 DEF CacheNext, WorkerStep
  <2>2. \A v \in Workers : v # w => work'[v] = work[v]
    BY <1>1, <2>1, OthersWait
  <2>3. CASE \/ \E ws \in Workspaces : Find(w, ws)
             \/ CollectOne(w) \/ Alloc(w) \/ Swap(w) \/ Push(w)
    BY <1>1, <2>2, <2>3, FindDistinct, CollectOneDistinct, AllocDistinct, SwapDistinct,
       PushDistinct
  <2>4. CASE \/ \E ws \in Workspaces : Evict(w, ws) \/ Query(w, ws)
             \/ Collect(w) \/ EvictOrder(w) \/ Load(w)
             \/ Guard(w) \/ TakePath(w) \/ OpenPath(w)
             \/ TakeStore(w) \/ Meta(w)
    <3>1. mgr' = mgr /\ work'[w].pc \notin {"swap", "push"}
      BY <1>1, <2>4, OthersAside
    <3> QED
      BY <1>1, <2>2, <3>1, NothingInHand DEF InHand
  <2> QED
    BY <2>1, <2>3, <2>4
<1>3. CASE UNCHANGED cacheVars
  <2>1. mgr' = mgr /\ work' = work
    BY <1>3 DEF cacheVars
  <2> QED
    BY <1>1, <2>1 DEF DistinctInv
<1> QED
  BY <1>2, <1>3

\* No generation of a manager is there twice, whichever publications pass each
\* other, for any number of workers.
THEOREM CacheDistinct == CacheSpec => []GenerationsDistinct
<1>1. CacheInit => DistinctInv
  <2> SUFFICES ASSUME CacheInit PROVE DistinctInv
    OBVIOUS
  <2>1. CacheInv
    BY CacheStarts
  <2>2. mgr = <<>> /\ \A w \in Workers : work[w].pc = "idle"
    BY DEF CacheInit, NoWork
  <2> QED
    BY <2>1, <2>2 DEF DistinctInv, InHand
<1>2. DistinctInv /\ [CacheNext]_cacheVars => DistinctInv'
  BY DistinctStep
<1>3. DistinctInv => GenerationsDistinct
  <2> SUFFICES ASSUME DistinctInv, NEW m \in 1 .. Len(mgr)
               PROVE  LET C == mgr[m].current
                          h == mgr[m].history
                      IN  /\ \A s \in C, i \in DOMAIN h : s.gen # h[i].gen
                          /\ \A i, j \in DOMAIN h : i # j => h[i].gen # h[j].gen
                          /\ \A w \in Workers : Publishing(w, m) =>
                                \A s \in work[w].held :
                                  /\ \A c \in C : s.gen # c.gen
                                  /\ \A i \in DOMAIN h : s.gen # h[i].gen
                                  /\ \A v \in Workers \ {w} : Publishing(v, m) =>
                                        \A x \in work[v].held : s.gen # x.gen
    BY DEF GenerationsDistinct
  <2>1. m \in DOMAIN mgr
    BY CacheTypes DEF DistinctInv
  <2>2. Tidy(mgr[m])
    BY <2>1 DEF DistinctInv
  <2>3. ASSUME NEW w \in Workers, Publishing(w, m), NEW s \in work[w].held
        PROVE  /\ Free(s, mgr[m])
               /\ \A v \in Workers \ {w} : Publishing(v, m) =>
                     \A x \in work[v].held : s.gen # x.gen
    BY <2>3 DEF DistinctInv, Publishing, InHand
  <2> QED
    BY <2>2, <2>3 DEF Tidy, Free
<1> QED
  BY <1>1, <1>2, <1>3, PTL DEF CacheSpec

\* An eviction of the workspace at this position is under way.
Leaving(i) == \E w \in Workers : work[w].pc = "evict" /\ Head(work[w].todo) = order[i]

\* It is cached, and nowhere else in the queue.
Listed(i) == order[i] \in InCache /\ \A j \in DOMAIN order : j # i => order[j] # order[i]

QueueInv == CacheInv /\ \A i \in DOMAIN order : Leaving(i) \/ Listed(i)

\* What making room leaves of the queue is a last part of it; of the cache it
\* takes a workspace that is not in that part, or one that is there twice.
LEMMA EvictedQueue ==
    ASSUME CacheInv
    PROVE  LET q == Evicted.queue
               C == {ws \in Workspaces : Evicted.cache[ws] # 0} IN
           /\ C \subseteq InCache
           /\ \E k \in Nat : \A i \in DOMAIN q :
                /\ i + k \in DOMAIN order /\ q[i] = order[i + k] /\ i \in Nat
                /\ Listed(i + k) => q[i] \in C
<1> DEFINE q == Evicted.queue
           C == {ws \in Workspaces : Evicted.cache[ws] # 0}
           V == Victims
<1>1. /\ cached \in [Workspaces -> 0 .. Len(mgr)] /\ order \in Seq(Workspaces)
      /\ DOMAIN order = 1 .. Len(order) /\ Len(order) \in Nat
      /\ \A i \in DOMAIN order : order[i] \in Workspaces
  BY CacheTypes, LenProperties, ElementOfSeq
<1>2. CASE ~ Full
  <2>1. q = order /\ C = InCache
    BY <1>2 DEF Evicted, InCache
  <2>2. \A i \in DOMAIN q : i + 0 \in DOMAIN order /\ q[i] = order[i + 0] /\ i \in Nat
                            /\ (Listed(i + 0) => q[i] \in C)
    <3> SUFFICES ASSUME NEW i \in DOMAIN order
                 PROVE  i + 0 = i /\ i \in Nat /\ (Listed(i) => order[i] \in InCache)
      BY <2>1
    <3> QED
      BY <1>1 DEF Listed
  <2> QED
    BY <2>1, <2>2
<1>3. CASE Full /\ V = {}
  <2>1. Evicted = [cache |-> cached, queue |-> <<>>]
    BY <1>3 DEF Evicted
  <2>2. q = <<>> /\ C = InCache
    BY <2>1 DEF InCache
  <2> QED
    BY <2>2
<1>4. CASE Full /\ V # {}
  <2>2. V \in SUBSET (1 .. Len(order))
    BY <1>1 DEF Victims
  <2>3. Min(V) \in V
    BY <1>1, <1>4, <2>2, MinIs
  <2> DEFINE f == Min(V)
  <2>4. f \in 1 .. Len(order) /\ order[f] \in Workspaces
    BY <1>1, <2>2, <2>3
  <2>5. Evicted = [cache |-> [cached EXCEPT ![order[f]] = 0],
                         queue |-> SubSeq(order, f + 1, Len(order))]
    BY <1>4 DEF Evicted
  <2> HIDE DEF f, V
  <2>6. \A ws \in Workspaces : Evicted.cache[ws] = IF ws = order[f] THEN 0 ELSE cached[ws]
    BY <1>1, <2>4, <2>5
  <2>7. q = SubSeq(order, f + 1, Len(order))
    BY <2>5
  <2>8. DOMAIN q \subseteq Nat \ {0} /\ \A i \in DOMAIN q : f + i \in DOMAIN order /\ q[i] = order[f + i]
    <3>1. \A i \in f + 1 .. Len(order) : order[i] \in Workspaces
      BY <1>1, <2>4
    <3>2. f + 1 \in Int /\ Len(order) \in Int
      BY <1>1, <2>4
    <3>3. /\ q \in Seq(Workspaces)
          /\ Len(q) = IF f + 1 <= Len(order) THEN Len(order) - (f + 1) + 1 ELSE 0
          /\ \A i \in 1 .. Len(order) - (f + 1) + 1 : q[i] = order[f + 1 + i - 1]
      BY <2>7, <3>1, <3>2, SubSeqProperties
    <3> HIDE DEF q
    <3>4. DOMAIN q = 1 .. Len(q)
      BY <3>3, LenProperties
    <3>5. \A i \in DOMAIN q : i \in 1 .. Len(order) - f
      BY <1>1, <2>4, <3>3, <3>4
    <3>6. Len(order) - (f + 1) + 1 = Len(order) - f
      BY <1>1, <2>4
    <3>7. ASSUME NEW i \in DOMAIN q
          PROVE  f + i \in DOMAIN order /\ q[i] = order[f + i]
      <4>1. i \in 1 .. Len(order) - f /\ f \in 1 .. Len(order)
        BY <2>4, <3>5
      <4>2. f + 1 + i - 1 = f + i /\ f + i \in 1 .. Len(order)
        BY <1>1, <4>1
      <4> QED
        BY <1>1, <3>3, <3>6, <4>1, <4>2
    <3> QED
      BY <3>4, <3>7
  <2>9. C \subseteq InCache
    BY <2>6 DEF InCache
  <2>10. ASSUME NEW i \in DOMAIN q
         PROVE  /\ i + f \in DOMAIN order /\ q[i] = order[i + f] /\ i \in Nat
                /\ Listed(i + f) => q[i] \in C
    <3> HIDE DEF q
    <3>1. i \in Nat \ {0} /\ f \in Nat /\ f + i \in DOMAIN order /\ q[i] = order[f + i]
      BY <2>4, <2>8
    <3>2. i + f = f + i /\ f # i + f
      BY <3>1
    <3>3. ASSUME Listed(i + f) PROVE q[i] \in C
      <4>1. f \in DOMAIN order
        BY <1>1, <2>4
      <4>2. order[f] # order[i + f] /\ order[i + f] \in InCache
        BY <3>2, <3>3, <4>1 DEF Listed
      <4> QED
        BY <2>6, <3>1, <3>2, <4>2 DEF InCache
    <3> QED
      BY <3>1, <3>2, <3>3
  <2>11. f \in Nat
    BY <2>4
  <2> QED
    BY <2>9, <2>10, <2>11
<1> QED
  BY <1>2, <1>3, <1>4

LEMMA FindQueue ==
    ASSUME QueueInv, CacheInv', NEW w \in Workers,
           \A v \in Workers : v # w => work'[v] = work[v],
           NEW ws \in Workspaces, Find(w, ws)
    PROVE  QueueInv'
<1>0. /\ CacheInv /\ work[w].pc = "idle"
      /\ \A i \in DOMAIN order : Leaving(i) \/ Listed(i)
  BY DEF QueueInv, Find, Starts
<1>1. \A v \in Workers : work[v].pc = "evict" => work'[v] = work[v]
  BY <1>0
<1>2. CASE ws \in InCache
  <2>1. cached' = cached /\ order' = order
    BY <1>2 DEF Find
  <2>2. InCache' = InCache
    BY <2>1 DEF InCache
  <2> QED
    BY <1>0, <1>1, <2>1, <2>2 DEF QueueInv, Leaving, Listed
<1>3. CASE ws \notin InCache
  <2> DEFINE C == {v \in Workspaces : Evicted.cache[v] # 0}
             q == Evicted.queue
  <2>1. /\ cached' = [Evicted.cache EXCEPT ![ws] = Len(mgr) + 1]
        /\ order' = Append(q, ws)
    BY <1>3 DEF Find
  <2>2. Evicted.cache \in [Workspaces -> 0 .. Len(mgr)] /\ q \in Seq(Workspaces)
    BY <1>0, EvictedIs
  <2>3. PICK k \in Nat : \A i \in DOMAIN q :
          /\ i + k \in DOMAIN order /\ q[i] = order[i + k] /\ i \in Nat
          /\ Listed(i + k) => q[i] \in C
    BY <1>0, EvictedQueue
  <2>4. InCache' = C \cup {ws}
    <3>1. Len(mgr) \in Nat
      BY <1>0, CacheTypes
    <3>2. \A v \in Workspaces : cached'[v] = IF v = ws THEN Len(mgr) + 1 ELSE Evicted.cache[v]
      BY <2>1, <2>2
    <3> QED
      BY <3>1, <3>2 DEF InCache
  <2>5. C \subseteq InCache
    BY <1>0, EvictedQueue
  <2> HIDE DEF C, q
  <2>6. /\ order' \in Seq(Workspaces) /\ Len(order') = Len(q) + 1
        /\ \A i \in 1 .. Len(q) : order'[i] = q[i]
        /\ order'[Len(q) + 1] = ws
    BY <2>1, <2>2, AppendProperties
  <2>7. /\ DOMAIN q = 1 .. Len(q) /\ Len(q) \in Nat
        /\ DOMAIN order' = 1 .. Len(q) + 1
    BY <2>2, <2>6, LenProperties
  <2>8. \A i \in DOMAIN order' : \/ i \in DOMAIN q /\ order'[i] = q[i]
                                 \/ i = Len(q) + 1 /\ order'[i] = ws
    BY <2>6, <2>7
  <2>9. ASSUME NEW i \in DOMAIN order', ~ Leaving(i)' PROVE Listed(i)'
    <3>1. \A v \in Workers : ~ (work[v].pc = "evict" /\ Head(work[v].todo) = order'[i])
      BY <1>1, <2>9 DEF Leaving
    <3>2. ASSUME NEW j \in DOMAIN q, q[j] = order'[i]
          PROVE  Listed(j + k) /\ j + k \in DOMAIN order /\ q[j] = order[j + k] /\ q[j] \in C
      <4>1. j + k \in DOMAIN order /\ q[j] = order[j + k]
        BY <2>3
      <4>2. ~ Leaving(j + k)
        BY <3>1, <3>2, <4>1 DEF Leaving
      <4> QED
        BY <1>0, <2>3, <4>1, <4>2
    <3>3. CASE order'[i] = ws
      <4>1. \A j \in DOMAIN q : q[j] # ws
        BY <1>3, <2>5, <3>2, <3>3
      <4>2. i = Len(q) + 1
        BY <2>8, <3>3, <4>1
      <4>3. \A j \in DOMAIN order' : j # i => order'[j] # order'[i]
        BY <2>8, <3>3, <4>1, <4>2
      <4> QED
        BY <2>4, <3>3, <4>3 DEF Listed
    <3>4. CASE order'[i] # ws
      <4>1. i \in DOMAIN q /\ order'[i] = q[i]
        BY <2>8, <3>4
      <4>2. /\ Listed(i + k) /\ i + k \in DOMAIN order /\ q[i] = order[i + k] /\ q[i] \in C
        BY <3>2, <4>1
      <4>3. ASSUME NEW j \in DOMAIN order', j # i PROVE order'[j] # order'[i]
        <5>1. CASE j \in DOMAIN q /\ order'[j] = q[j]
          <6>1. j + k \in DOMAIN order /\ q[j] = order[j + k] /\ j \in Nat /\ i \in Nat
            BY <2>3, <4>1, <5>1
          <6>2. j + k # i + k
            BY <4>3, <6>1
          <6> QED
            BY <4>1, <4>2, <5>1, <6>1, <6>2 DEF Listed
        <5>2. CASE order'[j] = ws
          BY <3>4, <5>2
        <5> QED
          BY <2>8, <5>1, <5>2
      <4> QED
        BY <2>4, <4>1, <4>2, <4>3 DEF Listed
    <3> QED
      BY <3>3, <3>4
  <2> QED
    BY <2>9 DEF QueueInv
<1> QED
  BY <1>2, <1>3

\* What an eviction takes out of the cache it is still to take out of the queue.
LEMMA EvictQueue ==
    ASSUME QueueInv, CacheInv', NEW w \in Workers,
           \A v \in Workers : v # w => work'[v] = work[v],
           NEW ws \in Workspaces, Evict(w, ws)
    PROVE  QueueInv'
<1>0. /\ CacheInv /\ work \in [Workers -> Work] /\ work[w].pc = "idle"
      /\ \A i \in DOMAIN order : Leaving(i) \/ Listed(i)
  BY CacheTypes DEF QueueInv, Evict, Starts
<1>1. order' = order /\ cached' = [cached EXCEPT ![ws] = 0]
      /\ work'[w] = [work[w] EXCEPT !.pc = "evict", !.todo = <<ws>>]
  BY <1>0 DEF Evict
<1>2. work'[w].pc = "evict" /\ Head(work'[w].todo) = ws
  BY <1>0, <1>1 DEF Work
<1>3. InCache' = InCache \ {ws}
  <2>1. cached \in [Workspaces -> 0 .. Len(mgr)]
    BY <1>0, CacheTypes
  <2>2. \A v \in Workspaces : cached'[v] = IF v = ws THEN 0 ELSE cached[v]
    BY <1>1, <2>1
  <2> QED
    BY <2>2 DEF InCache
<1>4. ASSUME NEW i \in DOMAIN order' PROVE Leaving(i)' \/ Listed(i)'
  <2>1. CASE Leaving(i)
    BY <1>0, <1>1, <2>1 DEF Leaving
  <2>2. CASE Listed(i)
    BY <1>1, <1>2, <1>3, <2>2 DEF Leaving, Listed
  <2> QED
    BY <1>0, <1>1, <2>1, <2>2
<1> QED
  BY <1>4 DEF QueueInv

\* The second half of an eviction leaves no place of that workspace.
LEMMA EvictOrderQueue ==
    ASSUME QueueInv, CacheInv', NEW w \in Workers,
           \A v \in Workers : v # w => work'[v] = work[v],
           EvictOrder(w)
    PROVE  QueueInv'
<1> DEFINE e == Head(work[w].todo)
           S == {i \in DOMAIN order : order[i] # e}
<1>1. /\ order' = AtPositions(order, S) /\ cached' = cached
  BY DEF EvictOrder
<1>2. /\ order \in Seq(Workspaces) /\ S \in SUBSET DOMAIN order
      /\ \A i \in DOMAIN order : Leaving(i) \/ Listed(i)
  BY CacheTypes DEF QueueInv
<1> HIDE DEF S
<1>3. PICK p : /\ Picks(order', order, p)
               /\ \A k \in DOMAIN order' : p[k] \in S
  BY <1>1, <1>2, AtPositionsIs
<1>4. InCache' = InCache
  BY <1>1 DEF InCache
<1>5. ASSUME NEW k \in DOMAIN order' PROVE Leaving(k)' \/ Listed(k)'
  <2>1. p[k] \in DOMAIN order /\ order'[k] = order[p[k]] /\ order[p[k]] # e
    BY <1>3 DEF Picks, S
  <2>2. CASE Leaving(p[k])
    <3>1. PICK v \in Workers : work[v].pc = "evict" /\ Head(work[v].todo) = order[p[k]]
      BY <2>2 DEF Leaving
    <3>2. work'[v] = work[v]
      BY <2>1, <3>1
    <3> QED
      BY <2>1, <3>1, <3>2 DEF Leaving
  <2>3. CASE Listed(p[k])
    <3>1. ASSUME NEW j \in DOMAIN order', j # k PROVE order'[j] # order'[k]
      <4>1. p[j] \in DOMAIN order /\ order'[j] = order[p[j]] /\ p[j] # p[k]
        BY <1>3, <3>1 DEF Picks
      <4> QED
        BY <2>1, <2>3, <4>1 DEF Listed
    <3> QED
      BY <1>4, <2>1, <2>3, <3>1 DEF Listed
  <2> QED
    BY <1>2, <2>1, <2>2, <2>3
<1> QED
  BY <1>5 DEF QueueInv

LEMMA QueueStep ==
    ASSUME QueueInv, [CacheNext]_cacheVars
    PROVE  QueueInv'
<1>1. CacheInv' /\ CacheInv
  BY CacheStep DEF QueueInv
<1>2. CASE CacheNext
  <2>1. PICK w \in Workers :
          \/ \E ws \in Workspaces : Find(w, ws) \/ Evict(w, ws) \/ Query(w, ws)
          \/ Collect(w)
          \/ EvictOrder(w) \/ CollectOne(w)
          \/ Load(w) \/ Alloc(w) \/ Swap(w) \/ Push(w)
          \/ Guard(w) \/ TakePath(w) \/ OpenPath(w)
          \/ TakeStore(w) \/ Meta(w)
    BY <1>2 DEF CacheNext, WorkerStep
  <2>2. \A v \in Workers : v # w => work'[v] = work[v]
    BY <1>1, <2>1, OthersWait
  <2>3. CASE \/ \E ws \in Workspaces : Find(w, ws) \/ Evict(w, ws)
             \/ EvictOrder(w)
    BY <1>1, <2>2, <2>3, FindQueue, EvictQueue, EvictOrderQueue
  <2>4. CASE \/ \E ws \in Workspaces : Query(w, ws)
             \/ Collect(w) \/ CollectOne(w) \/ Load(w)
             \/ Alloc(w) \/ Swap(w) \/ Push(w)
             \/ Guard(w) \/ TakePath(w) \/ OpenPath(w)
             \/ TakeStore(w) \/ Meta(w)
    <3>1. cached' = cached /\ order' = order /\ work[w].pc # "evict"
      BY <2>4 DEF Query, Collect, CollectOne, Load, Alloc, Swap,
             Push, Guard, TakePath, OpenPath, TakeStore, Meta,
             Starts, At
    <3>2. InCache' = InCache
      BY <3>1 DEF InCache
    <3>3. \A v \in Workers : work[v].pc = "evict" => work'[v] = work[v]
      BY <2>2, <3>1
    <3> QED
      BY <1>1, <3>1, <3>2, <3>3 DEF QueueInv, Leaving, Listed
  <2> QED
    BY <2>1, <2>3, <2>4
<1>3. CASE UNCHANGED cacheVars
  <2>1. cached' = cached /\ order' = order /\ work' = work
    BY <1>3 DEF cacheVars
  <2>2. InCache' = InCache
    BY <2>1 DEF InCache
  <2> QED
    BY <1>1, <2>1, <2>2 DEF QueueInv, Leaving, Listed
<1> QED
  BY <1>2, <1>3

\* The queue lists a workspace that is not cached, or one twice, only while an
\* eviction of it is under way, for any number of workers and any capacity.
THEOREM CacheQueue == CacheSpec => []QueueCleared
<1>1. CacheInit => QueueInv
  <2> SUFFICES ASSUME CacheInit PROVE QueueInv
    OBVIOUS
  <2>1. CacheInv /\ order = <<>>
    BY CacheStarts DEF CacheInit
  <2> QED
    BY <2>1 DEF QueueInv
<1>2. QueueInv /\ [CacheNext]_cacheVars => QueueInv'
  BY QueueStep
<1>3. QueueInv => QueueCleared
  BY DEF QueueInv, QueueCleared, Leaving, Listed, At
<1> QED
  BY <1>1, <1>2, <1>3, PTL DEF CacheSpec
==================================================================================
