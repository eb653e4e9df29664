------------------------------ MODULE FileRefresh ------------------------------
(***************************************************************************)
(* How a file's change reaches the code graph: workspace.connect,          *)
(* workspace.file.refresh, workspace.file.delete and workspace.recover of  *)
(* one workspace, with the replicator, the two-phase generation check of   *)
(* the CAS, the staging log and the parse-retry log.                       *)
(*                                                                         *)
(* A file's contents are the number of edits (writes and removals) made to *)
(* it; a deletion is an edit that leaves the file absent.  Every durable   *)
(* write of a handler is a step of its own, so the daemon can die between  *)
(* any two.  A worker is a thread with a daemon state of its own.  The     *)
(* serialization point admits one refresh or recover at a time; delete and *)
(* connect do not pass through it.                                         *)
(*                                                                         *)
(* The workspace has two unrelated numbers: Row, of its row in the         *)
(* CodeGraph database, under which a refresh merges, and Num, of its entry *)
(* in the registry, by which a deletion and a publication look rows up.    *)
(* When they differ, the rows under Num may be another workspace's.        *)
(***************************************************************************)
EXTENDS Integers, FiniteSets

CONSTANTS
    Files,        \* relative paths
    Workers,      \* threads that run handlers
    Row, Num,     \* the workspace's number in the CodeGraph database and in the registry
    Faults,       \* the steps whose database or file operation may fail
    MaxEdits,     \* bound: edits of a file
    MaxEpoch,     \* bound: session epochs
    MaxSeq,       \* bound: messages in a session
    MaxFaults,    \* bound: failing operations
    MaxCrashes,   \* bound: daemon crashes
    MaxLsn,       \* bound: line numbers of a log
    MaxRetry      \* ReplayConfig.max_retry

ASSUME FileRefreshAssumption ==
    /\ Faults \subseteq {"seen", "parse", "append", "sync", "merge", "commit",
                       "read", "apply", "publish", "mark", "undo"}
    /\ MaxEdits \in Nat /\ MaxEpoch \in Nat /\ MaxSeq \in Nat
    /\ MaxFaults \in Nat /\ MaxCrashes \in Nat
    /\ MaxLsn \in Nat /\ MaxRetry \in Nat

\* A generation "{epoch}:{seq}".  The empty string of the table is <<0, 0>>.
Gen == Nat \X Nat
NoGen == <<0, 0>>

\* The order of parse_generation's pairs.
Older(g, h) == g[1] < h[1] \/ (g[1] = h[1] /\ g[2] < h[2])

Version == [edit : Nat, live : BOOLEAN]
Absent == [edit |-> 0, live |-> FALSE]

\* A row that another workspace has under Num.
Foreign == [edit |-> 0, live |-> TRUE]

\* No snapshot: queries answer snapshot_not_ready.
None == <<>>

\* A request; edit is the edit the client had seen (it is the content of a
\* refresh, and history only in a delete).
Msg == [op : {"refresh", "delete"}, file : Files, gen : Gen, edit : Nat]

\* A pending line of staging.log.  The code stores no generation and no
\* edit: gen and edit are history.
Entry == [lsn : Nat, op : {"refresh", "delete"}, file : Files, gen : Gen, edit : Nat]

\* A pending line of parse_retry.log.
Failure == [lsn : Nat, file : Files, gen : Gen, tries : Nat]

VARIABLES
    disk,      \* the files of the workspace
    epoch,     \* workspace_active_session.active_session_epoch
    seq,       \* the agent's seq_counter
    msgs,      \* requests sent; any may be delayed or delivered twice
    seen,      \* file_generations.latest_seen_generation
    comm,      \* file_generations.latest_committed_generation
    log,       \* pending entries of staging.log
    retry,     \* pending entries of parse_retry.log
    graph,     \* what the CodeGraph database holds of each file, under Row and under Num
    snap,      \* what the published snapshot shows; it is kept in memory only
    job,       \* what each worker is doing
    up,        \* startup recovery has finished
    faults,    \* operations that have failed
    crashes,   \* crashes so far
    top,       \* history: the newest generation ever committed
    answered   \* history: requests answered as published or deleted

agentVars == <<disk, epoch, seq, msgs>>
genVars == <<seen, comm, top>>
boundVars == <<faults, crashes>>
vars == <<disk, epoch, seq, msgs, seen, comm, log, retry, graph, snap, job, up,
          faults, crashes, top, answered>>

Idle ==
    [kind |-> "none", pc |-> "idle", msg |-> <<>>, lsn |-> 0, batch |-> {},
     tombs |-> {}, built |-> None, todo |-> {}, failure |-> 0]

Job ==
    [kind : {"none", "refresh", "delete", "recover", "replay"},
     pc : {"idle", "seen", "parse", "append", "merge", "commit", "read",
           "apply", "publish", "swap", "mark", "undo", "failures", "replay"},
     msg : Msg \cup {<<>>}, lsn : Nat, batch : SUBSET Entry,
     tombs : SUBSET Entry, built : [Files -> Version] \cup {None}, todo : SUBSET Failure, failure : Nat]

TypeOK ==
    /\ disk \in [Files -> Version]
    /\ epoch \in Nat /\ seq \in Nat
    /\ msgs \subseteq Msg
    /\ seen \in [Files -> Gen] /\ comm \in [Files -> Gen] /\ top \in [Files -> Gen]
    /\ log \subseteq Entry
    /\ retry \subseteq Failure
    /\ graph \in [{Row, Num} -> [Files -> Version]] /\ snap \in [Files -> Version] \cup {None}
    /\ job \in [Workers -> Job]
    /\ up \in BOOLEAN
    /\ faults \in Nat /\ crashes \in Nat
    /\ answered \subseteq Msg

Init ==
    /\ disk = [f \in Files |-> Absent]
    /\ epoch = 0 /\ seq = 0
    /\ msgs = {}
    /\ seen = [f \in Files |-> NoGen]
    /\ comm = [f \in Files |-> NoGen]
    /\ top = [f \in Files |-> NoGen]
    /\ log = {} /\ retry = {}
    /\ graph \in [{Row, Num} -> [Files -> {Absent, Foreign}]]
    /\ \A f \in Files : graph[Row][f] = Absent
    /\ snap = None
    /\ job = [w \in Workers |-> Idle]
    /\ up = FALSE
    /\ faults = 0 /\ crashes = 0
    /\ answered = {}

-----------------------------------------------------------------------------
(* The agent and the files it watches *)

Edit(f, live) ==
    /\ disk[f].edit < MaxEdits
    /\ live \/ disk[f].live
    /\ disk' = [disk EXCEPT ![f] = [edit |-> disk[f].edit + 1, live |-> live]]
    /\ UNCHANGED <<epoch, seq, msgs, seen, comm, log, retry, graph, snap, job,
                   up, boundVars, top, answered>>

Send(f) ==
    /\ epoch > 0 /\ seq < MaxSeq
    /\ disk[f].edit > 0
    /\ seq' = seq + 1
    /\ msgs' = msgs \cup
        {[op |-> IF disk[f].live THEN "refresh" ELSE "delete", file |-> f,
          gen |-> <<epoch, seq + 1>>, edit |-> disk[f].edit]}
    /\ UNCHANGED <<disk, epoch, seen, comm, log, retry, graph, snap, job, up,
                   boundVars, top, answered>>

-----------------------------------------------------------------------------
(* Starting a handler *)

Free(w) == up /\ job[w].pc = "idle"

\* The serialization point is free for w.
Exclusive(w) ==
    \A v \in Workers \ {w} : job[v].kind \notin {"refresh", "recover", "replay"}

\* A session that the daemon has not seen before: of an agent without session
\* file, or of another agent (AgentWatcher has what becomes of one that is
\* known).  It starts counting at 1 in its new epoch; the generations in the CAS
\* database are not touched.
Connect(w) ==
    /\ Free(w)
    /\ epoch < MaxEpoch
    /\ epoch' = epoch + 1
    /\ seq' = 0
    /\ UNCHANGED <<disk, msgs, seen, comm, log, retry, graph, snap, job, up,
                   boundVars, top, answered>>

SessionActive(m) == m.gen[1] = epoch

\* A request of another session is refused and changes nothing.
Deliver(w, m) ==
    /\ Free(w)
    /\ m.op = "refresh" => Exclusive(w)
    /\ SessionActive(m)
    /\ job' = [job EXCEPT ![w] = [Idle EXCEPT !.kind = m.op, !.pc = "seen",
                                              !.msg = m]]
    /\ UNCHANGED <<agentVars, genVars, log, retry, graph, snap, up, boundVars,
                   answered>>

\* Mutant: recovery replays the failed parses and forgets the staging log.
RecoverFailures(w) ==
    /\ job[w].pc = "idle"
    /\ Exclusive(w)
    /\ job' = [job EXCEPT ![w] = [Idle EXCEPT !.kind = "recover", !.pc = "failures"]]
    /\ UNCHANGED <<agentVars, genVars, log, retry, graph, snap, up, boundVars,
                   answered>>

\* workspace.recover, by request or by a starting daemon.
Recover(w) ==
    /\ job[w].pc = "idle"
    /\ Exclusive(w)
    /\ job' = [job EXCEPT ![w] = [Idle EXCEPT !.kind = "recover", !.pc = "read"]]
    /\ UNCHANGED <<agentVars, genVars, log, retry, graph, snap, up, boundVars,
                   answered>>

-----------------------------------------------------------------------------
(* The steps of a handler *)

At(w, pc) == job[w].pc = pc
Goto(w, pc) == job' = [job EXCEPT ![w].pc = pc]

\* The handler is over; a replay goes on with the next failure.
After(w) ==
    IF job[w].kind = "replay"
    THEN [Idle EXCEPT !.kind = "recover", !.pc = "replay", !.todo = job[w].todo]
    ELSE Idle

Finish(w) == job' = [job EXCEPT ![w] = After(w)]

Fails(step) ==
    /\ step \in Faults
    /\ faults < MaxFaults
    /\ faults' = faults + 1
    /\ UNCHANGED crashes

Works == UNCHANGED boundVars

\* n is the next line number of a log whose pending lines are S.  A number
\* that a handler still holds is not given again.
NextLsn(n, S) ==
    LET given == {x.lsn : x \in S} \cup {job[w].lsn : w \in Workers} \cup {0}
    IN  n - 1 \in given /\ \A k \in given : k < n

\* Mutant: only the committed generation is compared, as in the first fix.
FreshCommitted(f, g) == Older(comm[f], g)

\* file_generation_seen accepts g: newer than what is committed, not older
\* than what has been seen.
Fresh(f, g) == Older(comm[f], g) /\ ~ Older(g, seen[f])

Seen(w) ==
    LET m == job[w].msg IN
    /\ At(w, "seen")
    /\ \/ /\ Works
          /\ Fresh(m.file, m.gen)
          /\ seen' = [seen EXCEPT ![m.file] = m.gen]
          /\ Goto(w, IF m.op = "refresh" THEN "parse" ELSE "append")
       \/ /\ (Works /\ ~ Fresh(m.file, m.gen)) \/ Fails("seen")
          /\ UNCHANGED seen /\ Finish(w)
    /\ UNCHANGED <<agentVars, comm, top, log, retry, graph, snap, up, answered>>

Failed(m, lsn) == [lsn |-> lsn, file |-> m.file, gen |-> m.gen, tries |-> 0]

\* The parse facts go to the CAS.  A failed parse is logged for a replay; a
\* partial parse or an unsupported language is not.
Parse(w) ==
    LET m == job[w].msg IN
    /\ At(w, "parse")
    /\ \/ Works /\ Goto(w, "append") /\ UNCHANGED retry
       \/ Fails("parse") /\ Finish(w) /\ UNCHANGED retry
       \/ /\ Fails("parse") /\ Finish(w)
          /\ \E lsn \in 1 .. MaxLsn :
                NextLsn(lsn, retry) /\ retry' = retry \cup {Failed(m, lsn)}
    /\ UNCHANGED <<agentVars, genVars, log, graph, snap, up, answered>>

StagedAs(m, lsn) ==
    [lsn |-> lsn, op |-> m.op, file |-> m.file, gen |-> m.gen, edit |-> m.edit]

\* A line whose sync fails is in the log all the same.
Append(w) ==
    LET m == job[w].msg IN
    /\ At(w, "append")
    /\ \/ /\ Works
          /\ \E lsn \in 1 .. MaxLsn :
                /\ NextLsn(lsn, log)
                /\ log' = log \cup {StagedAs(m, lsn)}
                /\ job' = [job EXCEPT
                      ![w].pc = IF m.op = "delete" THEN "commit" ELSE "merge",
                      ![w].lsn = lsn]
       \/ Fails("append") /\ Finish(w) /\ UNCHANGED log
       \/ /\ Fails("sync") /\ Finish(w)
          /\ \E lsn \in 1 .. MaxLsn :
                NextLsn(lsn, log) /\ log' = log \cup {StagedAs(m, lsn)}
    /\ UNCHANGED <<agentVars, genVars, retry, graph, snap, up, answered>>

\* Mutant: a failed merge does not stop the handler, as before the P0-1 fix.
AfterMergeFailureCommit(w) == Goto(w, "commit")

\* Nothing is committed; the request may be sent again with the same seq.
AfterMergeFailure(w) == Finish(w)

\* merge_cas_to_codegraph replaces the file's rows in one transaction, under
\* the number that the workspace's root has in the CodeGraph database.
Merge(w) ==
    LET m == job[w].msg IN
    /\ At(w, "merge")
    /\ \/ /\ Works
          /\ graph' = [graph EXCEPT ![Row][m.file] = [edit |-> m.edit, live |-> TRUE]]
          /\ Goto(w, "commit")
       \/ Fails("merge") /\ AfterMergeFailure(w) /\ UNCHANGED graph
    /\ UNCHANGED <<agentVars, genVars, log, retry, snap, up, answered>>

Own(w) == {e \in log : e.lsn = job[w].lsn}

\* file_generation_committed: only if nobody has been seen since.
StillSeen(m) == seen[m.file] = m.gen

Commit(w) ==
    LET m == job[w].msg IN
    /\ At(w, "commit")
    /\ \/ /\ Works
          /\ StillSeen(m)
          /\ comm' = [comm EXCEPT ![m.file] = m.gen]
          /\ top' = [top EXCEPT ![m.file] =
                IF Older(top[m.file], m.gen) THEN m.gen ELSE top[m.file]]
          /\ Goto(w, "read")
          /\ UNCHANGED log
       \/ /\ (Works /\ ~ StillSeen(m)) \/ Fails("commit")
          /\ log' = IF m.op = "delete" THEN log \ Own(w) ELSE log
          /\ Finish(w)
          /\ UNCHANGED <<comm, top>>
    /\ UNCHANGED <<agentVars, seen, retry, graph, snap, up, answered>>

-----------------------------------------------------------------------------
(* Replicator::replicate, the same in refresh, delete, recover and replay *)

\* recover goes on to the logged parse failures, whatever became of the log.
Leave(w, failed) ==
    CASE job[w].kind = "recover" -> Goto(w, "failures")
      [] job[w].kind # "recover" /\ failed -> Goto(w, "undo")
      [] OTHER -> Finish(w)

\* A replay that was published is cleared from the retry log.
Cleared(w) ==
    IF job[w].kind = "replay"
    THEN {x \in retry : x.lsn # job[w].failure} ELSE retry

\* Nothing pending: the replication succeeds and publishes nothing, so only
\* a delete is answered as done.
ReadNone(w) ==
    /\ At(w, "read") /\ log = {}
    /\ Leave(w, FALSE)
    /\ retry' = Cleared(w)
    /\ answered' = IF job[w].kind = "delete"
                   THEN answered \cup {job[w].msg} ELSE answered
    /\ UNCHANGED <<agentVars, genVars, log, graph, snap, up, boundVars>>

Tombstones(S) == {e \in S : e.op = "delete"}

Read(w) ==
    /\ At(w, "read") /\ log # {}
    /\ \/ Works /\ job' = [job EXCEPT ![w].pc = "apply", ![w].batch = log,
                                       ![w].tombs = Tombstones(log)]
       \/ Fails("read") /\ Leave(w, TRUE)
    /\ UNCHANGED <<agentVars, genVars, log, retry, graph, snap, up, answered>>

\* delete_workspace_file_from_codegraph, a transaction for each tombstone in
\* the order of the log.  The rows are looked up by the registry's number; to
\* find none is a success.
Apply(w) ==
    /\ At(w, "apply")
    /\ \E e \in job[w].tombs :
        /\ \A d \in job[w].tombs : e.lsn <= d.lsn
        /\ \/ /\ Works
              /\ graph' = [graph EXCEPT ![Num][e.file] = [edit |-> e.edit, live |-> FALSE]]
              /\ job' = [job EXCEPT ![w].tombs = @ \ {e}]
           \/ Fails("apply") /\ Leave(w, TRUE) /\ UNCHANGED graph
    /\ UNCHANGED <<agentVars, genVars, log, retry, snap, up, answered>>

Applied(w) ==
    /\ At(w, "apply") /\ job[w].tombs = {}
    /\ Goto(w, "publish")
    /\ UNCHANGED <<agentVars, genVars, log, retry, graph, snap, up, boundVars,
                   answered>>

\* Mutant: the failure is logged and the batch marked applied.
AfterPublishFailureMark(w) == Goto(w, "mark") /\ UNCHANGED log

\* The whole batch is marked failed: nobody reads it again.
AfterPublishFailure(w) == log' = log \ job[w].batch /\ Leave(w, TRUE)

\* The snapshot is built from the rows under the registry's number, then swapped
\* in for whatever is published by then.
Publish(w) ==
    /\ At(w, "publish")
    /\ \/ /\ Works
          /\ job' = [job EXCEPT ![w].pc = "swap", ![w].built = graph[Num]]
          /\ UNCHANGED log
       \/ Fails("publish") /\ AfterPublishFailure(w)
    /\ UNCHANGED <<agentVars, genVars, retry, graph, snap, up, answered>>

Swap(w) ==
    /\ At(w, "swap")
    /\ snap' = job[w].built
    /\ job' = [job EXCEPT ![w].pc = "mark", ![w].built = None]
    /\ UNCHANGED <<agentVars, genVars, log, retry, graph, up, boundVars, answered>>

\* mark_applied_batch and compact_applied.
Mark(w) ==
    /\ At(w, "mark")
    /\ \/ /\ Works
          /\ log' = log \ job[w].batch
          /\ retry' = Cleared(w)
          /\ answered' = IF job[w].kind \in {"refresh", "delete"}
                         THEN answered \cup {job[w].msg} ELSE answered
          /\ Leave(w, FALSE)
       \/ Fails("mark") /\ Leave(w, TRUE) /\ UNCHANGED <<log, retry, answered>>
    /\ UNCHANGED <<agentVars, genVars, graph, snap, up>>

\* file_generation_uncommit clears whatever generation is committed.
Uncommitted(w) == [comm EXCEPT ![job[w].msg.file] = NoGen]

Undo(w) ==
    /\ At(w, "undo")
    /\ \/ Works /\ comm' = Uncommitted(w)
       \/ Fails("undo") /\ UNCHANGED comm
    /\ Finish(w)
    /\ UNCHANGED <<agentVars, seen, top, log, retry, graph, snap, up, answered>>

-----------------------------------------------------------------------------
(* The second half of workspace.recover: failed parses are tried again *)

Failures(w) ==
    /\ At(w, "failures")
    /\ job' = [job EXCEPT ![w].pc = "replay",
                          ![w].todo = {x \in retry : x.tries < MaxRetry}]
    /\ UNCHANGED <<agentVars, genVars, log, retry, graph, snap, up, boundVars,
                   answered>>

\* Mutant: the field counts the tries that are left.
RetriedDown(x) == (retry \ {x}) \cup {[x EXCEPT !.tries = @ - 1]}

Retried(x) == (retry \ {x}) \cup {[x EXCEPT !.tries = @ + 1]}

\* An entry that fails for the last time is marked exhausted.
Exhausted(x) ==
    IF x.tries + 1 >= MaxRetry THEN retry \ {x} ELSE Retried(x)

\* The file is read from disk as it is now, and gets the failed generation.
Replay(w, x) ==
    /\ At(w, "replay")
    /\ x \in job[w].todo
    /\ \/ /\ Works
          /\ disk[x.file].live
          /\ retry' = Retried(x)
          /\ job' = [job EXCEPT ![w] =
                [job[w] EXCEPT !.kind = "replay", !.pc = "append",
                          !.todo = job[w].todo \ {x}, !.failure = x.lsn,
                          !.msg = [op |-> "refresh", file |-> x.file,
                                   gen |-> x.gen, edit |-> disk[x.file].edit]]]
       \/ /\ (Works /\ ~ disk[x.file].live) \/ Fails("parse")
          /\ retry' \in {Exhausted(x), retry \ {x}}
          /\ job' = [job EXCEPT ![w].todo = @ \ {x}]
    /\ UNCHANGED <<agentVars, genVars, log, graph, snap, up, answered>>

\* At startup the daemon begins to serve when every workspace is recovered.
Recovered(w) ==
    /\ At(w, "replay") /\ job[w].todo = {}
    /\ up' = TRUE
    /\ job' = [job EXCEPT ![w] = Idle]
    /\ UNCHANGED <<agentVars, genVars, log, retry, graph, snap, boundVars, answered>>

-----------------------------------------------------------------------------

\* Handlers die where they are and the snapshot is lost; the databases and the
\* logs stay.
Crash ==
    /\ crashes < MaxCrashes
    /\ crashes' = crashes + 1
    /\ job' = [w \in Workers |-> Idle]
    /\ up' = FALSE
    /\ snap' = None
    /\ UNCHANGED <<agentVars, genVars, log, retry, graph, faults, answered>>

Step(w) ==
    \/ Seen(w) \/ Parse(w) \/ Append(w) \/ Merge(w) \/ Commit(w)
    \/ ReadNone(w) \/ Read(w) \/ Apply(w) \/ Applied(w)
    \/ Publish(w) \/ Swap(w) \/ Mark(w) \/ Undo(w)
    \/ Failures(w) \/ (\E x \in job[w].todo : Replay(w, x)) \/ Recovered(w)

Next ==
    \/ \E f \in Files, live \in BOOLEAN : Edit(f, live)
    \/ \E f \in Files : Send(f)
    \/ \E w \in Workers : Connect(w)
    \/ \E w \in Workers, m \in msgs : Deliver(w, m)
    \/ \E w \in Workers : Recover(w)
    \/ \E w \in Workers : Step(w)
    \/ Crash

Spec == Init /\ [][Next]_vars

\* A handler is a thread that runs to its end, and a starting daemon
\* recovers before it serves.
FairSpec ==
    /\ Spec
    /\ \A w \in Workers : WF_vars(Step(w))
    /\ WF_vars(~ up /\ \E w \in Workers : Recover(w))

-----------------------------------------------------------------------------
(* What a step of a handler may count on *)

\* A handler that carries a request is between its first and last step.
Shaped(j) ==
    /\ j.kind = "none" => j.pc = "idle"
    /\ j.kind = "recover" =>
         j.pc \in {"read", "apply", "publish", "swap", "mark", "failures", "replay"}
    /\ j.kind \in {"refresh", "delete", "replay"} =>
         j.msg \in Msg /\ j.pc \notin {"idle", "failures", "replay"}

JobShape == \A w \in Workers : Shaped(job[w])

\* What has been committed is not newer than what has been seen.
SeenIsNewest == \A f \in Files : ~ Older(seen[f], top[f])

-----------------------------------------------------------------------------
(* Properties *)

\* A newly committed generation of a file is never older than one that was
\* committed before, however requests are delayed, repeated or interleaved
\* and whatever was uncommitted in between (file_generation_seen).
AcceptedInOrder ==
    [][\A f \in Files :
        comm'[f] # comm[f] => comm'[f] = NoGen \/ ~ Older(comm'[f], top[f])]_vars

\* The number under which a request's change is written.
Under(m) == IF m.op = "refresh" THEN Row ELSE Num

\* A committed generation is in the graph, under the number its handler writes
\* to, or it is a deletion whose entry in the staging log is still to be applied
\* (handle_workspace_file_refresh and handle_workspace_file_delete commit at
\* opposite ends of the change).
CommittedInGraph ==
    \A m \in msgs :
        comm[m.file] = m.gen =>
            \/ graph[Under(m)][m.file].edit >= m.edit
            \/ m.op = "delete" /\ \E e \in log : e.op = "delete" /\ e.gen = m.gen

\* What was answered as published or deleted stays in the graph under that
\* number, and in the snapshot as long as there is one and it is built from that
\* number, until a later edit replaces it.
AnsweredVisible ==
    \A m \in answered :
        /\ graph[Under(m)][m.file].edit >= m.edit
        /\ snap # None /\ Under(m) = Num => snap[m.file].edit >= m.edit

\* A committed deletion reaches the graph or is uncommitted, whatever the
\* daemon dies of in between: recovery at startup applies what is logged.
DeleteReachesGraph ==
    \A f \in Files, g \in (1 .. MaxEpoch) \X (1 .. MaxSeq), n \in 1 .. MaxEdits :
        ([op |-> "delete", file |-> f, gen |-> g, edit |-> n] \in msgs /\ comm[f] = g)
            ~> (graph[Num][f].edit >= n \/ comm[f] # g)

-----------------------------------------------------------------------------
(* Properties that the code does not keep *)

\* A refresh that was answered as published shows in the snapshot, which is
\* loaded after the merge (SnapshotCachePublisher::publish_snapshot).  It does
\* not when Row and Num differ.
PublishedIsMerged ==
    \A m \in answered :
        m.op = "refresh" /\ snap # None => snap[m.file].edit >= m.edit

\* A deletion that was answered as done leaves no older row of its file under
\* the workspace (delete_workspace_file_from_codegraph).  It does when Row and
\* Num differ.
DeletedIsGone ==
    \A m \in answered :
        m.op = "delete" /\ graph[Row][m.file].live => graph[Row][m.file].edit >= m.edit

\* A row of another workspace stays (ensure_workspace_row_by_root separates the
\* two numberings for that).  A deletion removes it when it is under Num.
OthersKept ==
    [][\A f \in Files : graph[Num][f] = Foreign => graph'[Num][f] = Foreign]_vars

\* A refresh leaves the log when its content is in the graph: recovery
\* replicates what is pending (Replicator::recover), but does not merge it.
PendingIsMerged ==
    [][\A e \in log \ log' :
        e.op = "refresh" => graph'[Row][e.file].edit >= e.edit]_vars
=============================================================================
