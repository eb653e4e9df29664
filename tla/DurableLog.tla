------------------------------ MODULE DurableLog ------------------------------
(***************************************************************************)
(* staging.log and parse_retry.log: JSON lines that are appended, read,    *)
(* marked and compacted through handles (StagingLog, ParseRetryLog).  Each *)
(* handle has a mutex and a next LSN of its own; the file is shared.       *)
(*                                                                         *)
(* A line is an entry or something no reader can parse.  The last line may *)
(* lack its newline; the next append is then written onto the same line.   *)
(***************************************************************************)
EXTENDS Integers, SequencesExt, Positions

CONSTANTS
    Handles,      \* open logs on the same path, one for each worker's daemon state
    Kinds,        \* the logs to look at: "staging", "retry"
    MaxEntries,   \* bound: appends
    MaxFaults,    \* bound: failing operations
    MaxCrashes    \* bound: crashes

ASSUME DurableLogAssumption ==
    /\ Kinds \subseteq {"staging", "retry"}
    /\ MaxEntries \in Nat /\ MaxFaults \in Nat /\ MaxCrashes \in Nat

\* id tells appends apart and is not in the file.
Line == [id : Nat, lsn : Nat, status : {"pending", "applied", "failed", "garbage"}]
Garbage == [id |-> 0, lsn |-> 0, status |-> "garbage"]

VARIABLES
    kind,      \* which log this is
    file,      \* the lines of the log
    open,      \* the last line has no newline
    tmp,       \* the temporary file of a rewrite: at most one sequence of lines
    next,      \* next_lsn of each handle; 0 while it is not open
    job,       \* what each handle is doing
    ids,       \* appends so far
    faults,    \* failures so far
    crashes,   \* crashes so far
    acked,     \* history: appends that returned an LSN
    gone,      \* history: entries dropped by a compaction
    marked,    \* history: entries whose mark returned
    cut        \* history: a line, or a rewrite in place, was left unfinished

counters == <<ids, faults, crashes>>
history == <<acked, gone, marked>>
vars == <<kind, file, open, tmp, next, job, counters, cut, history>>

\* staging.log is rewritten through a temporary file, parse_retry.log in place.
Atomic == kind = "staging"

Idle == [pc |-> "idle", lines |-> <<>>, drop |-> {}, mark |-> {}, batch |-> {}, own |-> 0]

Job == [pc : {"idle", "rewrite", "rename", "fill"}, lines : Seq(Line),
        drop : SUBSET Nat, mark : SUBSET Nat, batch : SUBSET Nat, own : Nat]

TypeOK ==
    /\ kind \in Kinds
    /\ file \in Seq(Line)
    /\ open \in BOOLEAN
    /\ tmp \subseteq Seq(Line)
    /\ next \in [Handles -> Nat]
    /\ job \in [Handles -> Job]
    /\ ids \in Nat /\ faults \in Nat /\ crashes \in Nat
    /\ cut \in BOOLEAN
    /\ acked \subseteq Nat /\ gone \subseteq Nat /\ marked \subseteq Nat

Init ==
    /\ kind \in Kinds
    /\ cut = FALSE
    /\ file = <<>> /\ open = FALSE
    /\ tmp = {}
    /\ next = [h \in Handles |-> 0]
    /\ job = [h \in Handles |-> Idle]
    /\ ids = 0 /\ faults = 0 /\ crashes = 0
    /\ acked = {} /\ gone = {} /\ marked = {}

-----------------------------------------------------------------------------

\* What a reader gets: lines that do not parse are skipped.
Entries == AtPositions(file, {i \in DOMAIN file : file[i].id # 0})

Lsns == {l.lsn : l \in ToSet(Entries)}

\* Mutant: one less than the largest LSN.
RecoveredBefore == Max(Lsns \cup {0}) - 1

\* recover_next_lsn.
Recovered == Max(Lsns \cup {0}) + 1

\* A handle is opened when its daemon state first uses the workspace.
Open(h) ==
    /\ next[h] = 0
    /\ next' = [next EXCEPT ![h] = Recovered]
    /\ UNCHANGED <<file, open, tmp, job, counters, cut, history>>

Ready(h) == next[h] > 0 /\ job[h].pc = "idle"

Fails == faults < MaxFaults /\ faults' = faults + 1
Works == UNCHANGED faults

\* The file with l written at its end: on a line of its own, or onto an open
\* line, which then no longer parses.
With(l) == IF open THEN [file EXCEPT ![Len(file)] = Garbage] ELSE Append(file, l)

\* What a failing append may leave behind: nothing, the whole line (the sync
\* failed), or a part of it, the newline being the last byte.
Leaves(l) ==
    \/ UNCHANGED <<file, open>>
    \/ file' = With(l) /\ open' = FALSE
    \/ file' \in {With(l), With(Garbage)} /\ open' = TRUE

AppendEntry(h) ==
    LET l == [id |-> ids + 1, lsn |-> next[h], status |-> "pending"] IN
    /\ Ready(h)
    /\ ids < MaxEntries
    /\ ids' = ids + 1
    /\ next' = [next EXCEPT ![h] = @ + 1]
    /\ \/ /\ Works
          /\ file' = With(l) /\ open' = FALSE
          /\ acked' = acked \cup {l.id}
          /\ job' = [job EXCEPT ![h].own = l.lsn]
          /\ UNCHANGED cut
       \/ /\ Fails
          /\ Leaves(l)
          /\ cut' = (cut \/ open')
          /\ UNCHANGED <<acked, job>>
    /\ UNCHANGED <<tmp, crashes, gone, marked>>

Pending == {l.lsn : l \in {x \in ToSet(Entries) : x.status = "pending"}}

\* read_pending; the caller keeps the LSNs.
ReadPending(h) ==
    /\ Ready(h)
    /\ job' = [job EXCEPT ![h].batch = Pending]
    /\ UNCHANGED <<file, open, tmp, next, counters, cut, history>>

\* The entries are read and changed in memory; then the file is rewritten.
Rewrite(h, lines, drop, mark) ==
    /\ Ready(h)
    /\ job' = [job EXCEPT ![h].pc = "rewrite", ![h].lines = lines,
                          ![h].drop = drop, ![h].mark = mark]
    /\ UNCHANGED <<file, open, tmp, next, counters, cut, history>>

\* The entries a mark by LSN meets: all of them in staging.log, the first of
\* each LSN in parse_retry.log.
Met(lsns) ==
    {i \in DOMAIN Entries :
        /\ Entries[i].lsn \in lsns
        /\ Atomic \/ \A k \in 1 .. i - 1 : Entries[k].lsn # Entries[i].lsn}

IdsOf(lsns) == {Entries[i].id : i \in Met(lsns)}

Marked(lsns, status) ==
    [i \in DOMAIN Entries |->
        IF i \in Met(lsns) THEN [Entries[i] EXCEPT !.status = status] ELSE Entries[i]]

\* mark_applied_batch: what this handle has read; mark_applied: one of it.
MarkApplied(h) ==
    \E lsns \in IF Atomic THEN {job[h].batch} ELSE {{n} : n \in job[h].batch} :
        lsns # {} /\ Rewrite(h, Marked(lsns, "applied"), {}, IdsOf(lsns))

\* mark_failed and mark_exhausted: one of the batch, or the handle's own.
MarkFailed(h) ==
    \E lsn \in job[h].batch \cup {job[h].own} :
        lsn > 0 /\ Rewrite(h, Marked({lsn}, "failed"), {}, IdsOf({lsn}))

\* Mutant: a compaction keeps only what is pending.
KeptPending ==
    AtPositions(Entries, {i \in DOMAIN Entries : Entries[i].status = "pending"})

Kept == AtPositions(Entries, {i \in DOMAIN Entries : Entries[i].status # "applied"})

\* compact_applied; nothing compacts the retry log.
Compact(h) ==
    Atomic /\ Rewrite(h, Kept, {l.id : l \in {x \in ToSet(Entries) : x.status = "applied"}}, {})

\* increment_retry of the retry log: every line is written again.
Touch(h) == ~ Atomic /\ Rewrite(h, Entries, {}, {})

Done(h) ==
    /\ job' = [job EXCEPT ![h] = [Idle EXCEPT !.batch = job[h].batch, !.own = job[h].own]]
    /\ gone' = gone \cup job[h].drop
    /\ marked' = marked \cup job[h].mark
    /\ UNCHANGED acked

GiveUp(h) ==
    /\ job' = [job EXCEPT ![h] = [Idle EXCEPT !.batch = job[h].batch, !.own = job[h].own]]
    /\ UNCHANGED history

\* Mutant: the temporary file is taken for the log.
WriteTmpOnly(h) ==
    /\ Atomic /\ job[h].pc = "rewrite"
    /\ Works
    /\ tmp' = {job[h].lines}
    /\ Done(h)
    /\ UNCHANGED <<file, open, next, ids, crashes, cut>>

\* StagingLog::rewrite: the temporary file, then the rename.  All handles use
\* the same temporary name.
WriteTmp(h) ==
    /\ Atomic /\ job[h].pc = "rewrite"
    /\ \/ /\ Works
          /\ tmp' = {job[h].lines}
          /\ job' = [job EXCEPT ![h].pc = "rename"]
          /\ UNCHANGED history
       \/ /\ Fails
          /\ \E n \in 0 .. Len(job[h].lines) : tmp' = {SubSeq(job[h].lines, 1, n)}
          /\ GiveUp(h)
    /\ UNCHANGED <<file, open, next, ids, crashes, cut>>

Rename(h) ==
    /\ job[h].pc = "rename"
    /\ \/ /\ file' \in tmp /\ open' = FALSE /\ tmp' = {}
          /\ Done(h)
          /\ Works
       \/ /\ IF tmp = {} THEN Works ELSE Fails
          /\ GiveUp(h)
          /\ UNCHANGED <<file, open, tmp>>
    /\ UNCHANGED <<next, ids, crashes, cut>>

\* ParseRetryLog::rewrite: the file is truncated and written line by line.
Truncate(h) ==
    /\ ~ Atomic /\ job[h].pc = "rewrite"
    /\ file' = <<>> /\ open' = FALSE
    /\ job' = [job EXCEPT ![h].pc = "fill"]
    /\ UNCHANGED <<tmp, next, counters, cut, history>>

Fill(h) ==
    /\ job[h].pc = "fill" /\ job[h].lines # <<>>
    /\ \/ /\ Works
          /\ file' = With(Head(job[h].lines)) /\ open' = FALSE
          /\ job' = [job EXCEPT ![h].lines = Tail(@)]
          /\ UNCHANGED <<cut, history>>
       \/ Fails /\ Leaves(Head(job[h].lines)) /\ cut' = TRUE /\ GiveUp(h)
    /\ UNCHANGED <<tmp, next, ids, crashes>>

Filled(h) ==
    /\ job[h].pc = "fill" /\ job[h].lines = <<>>
    /\ \/ Works /\ Done(h)
       \/ Fails /\ GiveUp(h)
    /\ UNCHANGED <<file, open, tmp, next, ids, crashes, cut>>

\* The process dies; the files stay as they are.
Crash ==
    /\ crashes < MaxCrashes
    /\ crashes' = crashes + 1
    /\ next' = [h \in Handles |-> 0]
    /\ job' = [h \in Handles |-> Idle]
    /\ cut' = (cut \/ \E h \in Handles : job[h].pc = "fill")
    /\ UNCHANGED <<file, open, tmp, ids, faults, history>>

Step ==
    \/ \E h \in Handles :
        \/ Open(h) \/ AppendEntry(h) \/ ReadPending(h)
        \/ MarkApplied(h) \/ MarkFailed(h) \/ Compact(h) \/ Touch(h)
        \/ WriteTmp(h) \/ Rename(h) \/ Truncate(h) \/ Fill(h) \/ Filled(h)
    \/ Crash

Next == Step /\ UNCHANGED kind

Spec == Init /\ [][Next]_vars

-----------------------------------------------------------------------------
(* Properties *)

\* An entry whose append returned can be read until a compaction drops it
\* (append syncs before it returns): failing calls, crashes and rewrites do not
\* lose it, unless a line, or a rewrite in place, was cut off in the middle.
NoLoss ==
    cut \/ (\E h \in Handles : job[h].pc = "fill")
        \/ \A i \in acked \ gone : \E l \in ToSet(file) : l.id = i

\* A mark that returned holds: the entry is not pending again, whatever
\* crashes or fails afterwards (mark_applied_batch, mark_failed).
MarksStay == \A l \in ToSet(file) : l.id \in marked => l.status # "pending"

-----------------------------------------------------------------------------
(* What staging_log.rs says of LSNs and two handles do not keep *)

\* Two entries in the log have different LSNs, so that a mark by LSN meets the
\* entry it is for and no other (StagingLog: the LSN is a log sequence number
\* that only grows).  Every handle counts by itself from what it read when it
\* was opened.
LsnUnique ==
    \A i, j \in DOMAIN Entries : Entries[i].lsn = Entries[j].lsn => i = j
===============================================================================
