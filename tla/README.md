# Formal model of the callwarden daemon

TLA+ specifications of the Rust daemon of callwarden (`src/rust_ext/src/daemon`,
`src/rust_ext/src/snapshot.rs`, `src/rust_ext/src/bin/cw_daemon.rs`) and of the
agent that watches a workspace for it (`src/server/agent_*.py`), TLC
configurations that check them on small instances, and TLAPS proofs of what
holds for every value of the constants. `PROJECT.json` maps every definition to
the lines it stands for.

The daemon is the one process that owns a workspace's state. It serves a Unix
socket (several worker threads) and HTTP (one tokio runtime), keeps task
governance in SQLite (tasks, leases, claims), a code graph built from file
refreshes, and in-memory snapshots that queries read.

## 1. Inventory

### Components modelled

| component | state it keeps | operations | modules |
|---|---|---|---|
| task lease table (`task_collab_lease.rs`, `task_collab.rs`, `task_loop/lifecycle_lease.rs`, `task_collab_lifecycle_ops.rs`) | rows of `task_leases`; a partial unique index on active rows | `lease.acquire`, `extend`/`renew`, `release`, `recover`; the check before every protected write | `TaskLease`, `FencedResource`, `LeaseHolder` |
| authoritative clock (`clock.rs`) | the last second given out, in memory | `now_secs`; lost at a restart | `TaskLease` |
| agent registration (`task_collab.rs`) | session and `last_heartbeat` of each agent | register, heartbeat | `TaskLease`, `LeaseHolder` |
| HTTP request deduplication (`http_server.rs`) | table `http_dedup` on disk; per request: where its handler is | reserve, wait and poll, store, purge; the multipart variant answers 202 and goes on in the background | `RpcDedup` |
| serialization point (`serialization.rs`) and dispatch (`dispatch.rs`) | one busy flag shared by both transports | enter with a time-out, leave by guard | `RpcDedup` |
| HTTP jobs (`http_server.rs`) | a map of job records in memory, one tokio task per job | submit, get, cancel; begin, dispatch, finish | `HttpJobs` |
| file refresh pipeline (`workspace.rs`, `replicator.rs`, `cas.rs`, `cas_merge.rs`) | session epoch; seen and committed generation of each file (CAS database); the graph (CodeGraph database); two logs; the published snapshot | connect, `workspace.file.refresh`, `workspace.file.delete`, `workspace.recover` and the recovery of a starting daemon | `FileRefresh` |
| durable logs (`staging_log.rs`, `parse_retry_log.rs`) | JSON lines; `next_lsn` in each handle | append, read pending, mark, compact, retry count, two kinds of rewrite | `DurableLog` |
| work on a task (`task_collab_lease.rs`, `assignment_queue.rs`, `task_collab_lifecycle*.rs`, `task_collab_verdict.rs`) | status, steps and their resolutions, the claim, the assignments its events project to, the verdicts | claim, takeover, recover; report, remediate, resolve; verdict, handoff; apply, close, rollback, reopen | `TaskWork` |
| tree of tasks (`task_collab_planning.rs`, `task_collab_lifecycle_apply.rs`, `task_supersede.rs`) | parents, statuses, the supersede relation | create, split; close, cascade close; supersede | `TaskTree` |
| watching agent (`agent_watcher.py`, `agent_protocol.py`, `agent_session.py`) | pending files, the debounce timer, the session epoch, the reconnection lock | notice, fire, read and refresh a file, reconnect | `AgentWatcher` |
| snapshot cache (`snapshot.rs`, `snapshot_state.rs`) | one manager per cached workspace, an order queue, current snapshot and history of each manager | find or create with eviction, evict, collect, publish, queries by path and by store | `SnapshotCache` |

How they meet:

* Every protected method (`PROTECTED_MUTATION_METHODS`, `dispatch.rs:2394`) runs
  at the serialization point: `RpcDedup` models the way in, `TaskLease` and the
  refresh handlers rely on it. `workspace.file.delete`, `workspace.connect`,
  `snapshot.evict` and `gc.snapshots` are not in that list, so with several Unix
  socket workers they run beside a protected handler.
* HTTP requests and HTTP jobs share `AppState.state`, one tokio mutex, and take
  it before the serialization point. A deployment that serves HTTP only thus
  runs one handler at a time: the instances with one worker stand for it, those
  with two for the Unix socket pool.
* The refresh pipeline appends to the two logs and publishes to the snapshot
  cache. `FileRefresh` abstracts both (a set of pending entries; what is
  published); `DurableLog` and `SnapshotCache` look inside. Each Unix socket
  worker has a daemon state of its own (`server.rs:522`), hence log handles of
  its own; the snapshot cache is shared by all.
* A workspace has a number in the registry and another in the CodeGraph
  database, which are unrelated (`fs_handlers.rs:113`). A merge writes under the
  second; deletions and publications use the first.
* Leases judge their holders by the registrations, which are stamped with
  another clock than the one the lease handlers read.

* A write to a task asks `TaskLease` for the lease of its role. The lease moves
  from session to session, so `TaskWork` lets every session of the right role
  write, and what it proves holds whoever has the lease.
* `TaskTree` takes what happens inside a task as one action, `TaskWork` takes a
  task without subtasks.
* The watching agent is the other side of `FileRefresh`: of the daemon,
  `AgentWatcher` has the active session only.

What is hard here: handlers of two workers that meet between their steps; a
handler dropped at an await; crashes between a commit and its application;
retries that race the first attempt; two clocks; rewritten log files; a cache
that drops what a query still uses. `PROJECT.json` "hazards" has each at its line.

What makes each component correct:

* *lease*: at most one live epoch, fenced writers stay fenced, counters grow, an
  expiry that was seen is final, a live holder is not taken for an orphan;
* *deduplication*: an id takes effect at most once within the retention, its
  answers belong to its request, and everybody is answered;
* *jobs*: what a client was told of an ended job is final and true; jobs end;
* *refresh*: commits of a file do not go back, what is committed is in the
  graph, what was answered is visible, a committed deletion arrives, other
  workspaces keep their rows;
* *logs*: an acknowledged entry survives, a mark holds, an LSN names one entry;
* *work on a task*: only finished work is in review, a role is sent to a step
  once, a task in review is somebody's, a session that is heard of keeps its claim;
* *tree*: a task closes over closed children, unsettled work is left to a
  successor only, a cascade stops for a cause, nothing supersedes itself;
* *watching agent*: every change is looked at in the end, one thread at a time
  reconnects and gives the lock back, a revoked session is regained;
* *snapshots*: a generation is given once, current is newest, the queue and the
  cache agree, a path leads to the snapshot it was taken from.

The code does not keep all of these; section 6 has the ones it breaks.

### Components not modelled

Operation ledger, task loop governance, gate sessions, stage toggles,
attestation, registering and reconciling workspaces, task job runner, Python compatibility worker,
single instance guard, transports and authentication, toolchain store, queries
and edits, the Python services and the command line. `PROJECT.json`
"components" gives the reason for each; section 8 says which are next.

## 2. The modules

Every module models a handler as one action when it runs alone in one
transaction (`TaskLease`, `TaskWork`, `TaskTree`), and as one action per await, per lock or per durable
effect when another actor can act in between (all others).

**`TaskLease`** - one task and one governance role. A row is a record; its
position stands for its id and its token, since every row draws a fresh token.
`Current` is the code's `ORDER BY id ASC LIMIT 1` over the role's aliases;
`ActiveUnique` is the partial index on the *stored* role name, and an `Acquire`
it refuses rolls back. `Now` is `AuthoritativeClock.now_secs`; `beat` is written
from the raw system clock, as `task_now_ts` does. `ReadNow` is any request that
reads the clock and is refused. Identity rules, owner keys and audit events are left
out. `Recover` also appends claim and assignment events, which no lease handler
reads. `writer` is a history variable.

**`FencedResource`** - what a lease with a fencing counter promises: grants open
a new epoch, only the live epoch writes, a dead epoch stays dead.
`TaskLease!ImplementsFencedResource` maps epoch to the largest counter, the live
epoch to the current lease's counter and the last write to `writer`'s.

**`LeaseHolder`** - `TaskLease` with `quiet`, the true time since each agent was
heard of, which neither clock of the daemon can tell.

**`RpcDedup`** - an attempt is one HTTP request: `check`, `queue` (the state
mutex), `enter` (the serialization point), `store`, `done`; or `dropped`. A row
is absent, without a response, or with one. `First(a, async)` covers both the
plain and the multipart handler; the latter is answered 202 and carried on by a
background task (`detached`) that a closed connection does not drop. `Run` is
the mutation taking effect; `Fail` an error, `TimeOut` the serialization point
given up. `other` is a Unix socket request at the serialization point, which may
take for ever.

**`HttpJobs`** - `status` is what the table of jobs shows, `task` what the
spawned task does. The two are written at different moments, which is the point.
A handler that answers an error may have taken effect before (a deletion that is
committed and applied and whose publication then fails, `workspace.rs:3529`), so
`Dispatch` leaves that open; a success has taken effect once.

**`FileRefresh`** - a version of a file is the number of its last edit and
whether the file is there. A generation is `<<epoch, seq>>`, compared as
`Older` does. `job[w]` carries a handler through its steps; `Fails(step)` is the
failure of that step, taken only for the steps in `Faults`. Replication is
shared by refresh, delete, recover and replay and returns to its caller through
`Leave`. A refresh carries the content of the time it was sent; a replay reads
the file as it is now, as the code does. After a start there is no snapshot
until the next publication. `log` and `retry` hold the pending entries only:
entries that were applied or failed are never read again. The request's
version inside an entry (`edit`, `gen`) is history, except `gen` of a failure,
which the code stores. `Row` and `Num` are the workspace's numbers in the
CodeGraph database and in the registry: `Merge` writes `graph[Row]`, `Apply`
removes from `graph[Num]`, `Publish` reads `graph[Num]`. They are constants that
may be equal; when they are not, the rows under `Num` may be another workspace's
(`Foreign`). `Connect` is of a session the daemon has not seen; one it has seen
is refused, which `AgentWatcher` models. The model assumes a configured
snapshot publisher and logs that are neither torn nor open twice.

**`DurableLog`** - `file` is a sequence of lines, `open` says that the last line
lacks its newline. `kind` chooses between `staging.log`, rewritten through a
temporary file and a rename, and `parse_retry.log`, truncated and written in
place. `Entries`, `Kept` and the queue of `SnapshotCache` keep some of a sequence in its
order: `AtPositions`, of the small module **`Positions`**, takes it by position
and not by recursion, so that the proofs can say what it returns. `id` tells
appends apart and is not in the file. A handle is a worker's: each opens both
logs itself and counts LSNs from what the file held then. `Met` is what a mark
meets: every line of its LSN in `staging.log`, the first one in `parse_retry.log`.

**`SnapshotCache`** - managers are numbered, since an evicted workspace gets a
new one. `Alive` are the snapshots something refers to; `FreeFd` holds of the lowest
free file number, as the operating system gives it, because queries open the
database again through `/proc/self/fd/N`.

**`TaskWork`** - one task with its steps in plan order. `claim` is the session
of the last claim event; `turns` is what the assignment events project to, so
completing or staling an assignment takes it out. `Current` is a set: the code
takes the assignment with the latest event, heartbeats are events too, and the
model leaves the choice open. `Step` keeps of a fix's result column what later
handlers read back (`required_remediation_step`). A report without an identity
ends every role's turn on the step (`named`). `Canon` is
`canonical_claim_role`: claims compare canonical roles, the queue compares
runtime roles, as the code does. `emptied` is a history variable. Requests
refused change nothing; ones that are repeated under their id are answered from
a ledger or are one more call. Not modelled: rows of `task_assignments` itself,
role workers and identity gates, evidence and attestations,
`task.reconcile`, assignments an administrator makes, a report that names a step
of another task.

**`TaskTree`** - a task is absent, live or closed, its steps are none, unsettled
or settled. `task.cascade_close` is two actions, since it reads its chain under
one lock and closes along it under another. `Passes` is the loop's test of one
node, `Cleared` the part of the chain before the first that fails. `Abort` is a
cascade that would close something and fails, on a contract revision that is
refused or a write, and rolls back (`failed`). `Reaches` is
the search of `creates_cycle`, told by the sets it could have visited.

**`AgentWatcher`** - `events` are the file system's, `calling` is a callback
between its change of `_pending_changes` and `_schedule_process`; `threads` are
those the timer starts, each in one of the steps of `handle_file_change` and
`_reconnect`. `Connect` is refused whenever it is tried: the agent sends the
session id it has had from the start, the daemon has it in `agent_sessions`, and
the insertion breaks the primary key (`replicator.rs:43`, 164). A restarted agent
loads the same id from its session file (`agent_session.py:74`). `disk` numbers the contents of a file, `looked` is what a thread
has read last. Files that are removed need no refresh: their deletion is another
message, which carries no epoch and is always refused (section 6). Not
modelled: stop and flush, the polling watcher, directories, the order of the
requests' numbers.

The `MC*` modules only declare model values, symmetry sets and old lease rows.
Operators whose comment begins with "Mutant" are broken forms of the definition
that follows them; no specification uses them. They are there to show that each
property can be violated by a plausible slip.

## 3. Properties and runs

Eleven runs pass, one refutes what a comment says. Every property of a passing run
has a mutant in `PROJECT.json` that violates it under the run's own
configuration. More properties that the code does not keep are in the modules, under
a heading that says so; section 6 has them with the instance on which TLC finds
the violation.

| run | instance | properties |
|---|---|---|
| `lease_core` | 2 agents, 1 session id, ttl 1, staleness 1, clock up to 2, set back by 1, 2 leases, restarts | `TypeOK`, `ExpiryFinal`, `ImplementsFencedResource`, `HolderProtected` |
| `lease_legacy` | 2 sessions of one agent, two old active rows under two aliases | `Fenced`, `CountersIncrease` |
| `rpc_dedup` | 2 attempts at 1 id, 2 parameter values, retention 1, clock up to 3 | `TypeOK`, `RunsApart`, `AnswersExact`, `Answered` |
| `refresh_core` | 1 file, 1 worker, one number, 2 edits, 1 session of 2 numbers, 2 failures, 1 crash | `TypeOK`, `CommittedInGraph`, `AnsweredVisible`, `DeleteReachesGraph` |
| `refresh_two` | 1 file, 2 workers, one number, 2 edits, 2 sessions of 1 number, 2 failures that lead to an undo or are of one, 1 crash | `AcceptedInOrder` |
| `logs` | both logs, 1 handle, 3 appends, 2 failures, 2 crashes | `TypeOK`, `NoLoss`, `MarksStay` |
| `jobs_core` | 3 jobs of 1 request, 1 panic, 1 crash | `TypeOK`, `ToldIsFinal`, `ToldIsTrue`, `JobsEnd` |
| `snap_two` | 2 workspaces, a cache for 1, 2 workers, 3 managers, 2 generations | `CacheTypeOK`, `GenerationsDistinct`, `QueueCleared` |
| `task_work` | 2 executors of different owners, a reviewer, an adjudicator; a plan of 1 step that grows to 2; 1 verdict; 1 session may fall silent | `TypeOK`, `ReviewMeansDone`, `OneAssignee`, `ReviewIsQueued`, `OwnerKeepsClaim` |
| `task_tree` | 3 tasks, 2 cascades that may fail | `TypeOK`, `NoCircle`, `ClosesOverClosed`, `LeavesNothingBehind`, `StopsForCause` |
| `watcher` | 2 files, 2 timer threads, 3 writes, a lost session, 1 fault | `TypeOK`, `ChangeNoticed`, `HandshakeHeld`, `ChangesRead` |
| `rpc_orphan_row` | 2 attempts | `InFlightIsRunning` is violated |

What the passing runs show:

* `lease_core`: whatever the clock does and however often the daemon restarts,
  the table refines the fenced resource. Two leases are enough for a replaced
  writer; a holder registered at 0 that acquires at 1 is stale at 2 while its
  lease still runs, and a lease acquired at 0 has expired by then. `HolderProtected` needs `wall >= last`: while the
  daemon's clock is held ahead it is false (section 6).
* `lease_legacy`: the only way to more than one active row is a database from
  before the role names were canonical. Fencing and counters survive it;
  `ExpiryFinal` and the refinement are claimed without such rows only, since
  `Extend` renews every active row of the role.
* `rpc_dedup`: retention 1 and a clock up to 3 let a row expire twice, so an id
  may be run again when it should be. The theorems cover any number of attempts.
* `refresh_core`: the registry and the database give the workspace one number, as
  for the first workspace of a host; with two, a refresh is not visible and a
  deletion does not arrive (section 6). What the properties and the theorems say,
  number by number, holds in both cases; TLC agrees for two numbers as well. Two sequence numbers, because one request must pass another (the order of the commits is `refresh_two`'s and a theorem); two edits
  give a file that is written, then removed, and each request may be delayed or
  repeated without limit; two failures, because an undo may fail after the
  failure that led to it. `Faults` leaves out the failures after which a
  tombstone stays in the log though its request was answered as failed (sync,
  read, apply, mark): such a tombstone can undo a later answer (section 6), and
  `refresh_two` takes them. One worker stands for a daemon that serves HTTP
  only; two break the first two properties (section 6).
* `refresh_two`: two sessions, because sequence numbers start again at 1 while the
  other worker may still handle a request of the old session; the failures are
  those that leave a commit behind and undo it, or fail to.
* `logs`: three appends leave an entry before, in and after a rewrite. A write
  may fail before, within or after its line, a rename may fail, a crash may come
  at each step of a rewrite. `NoLoss` stops when a line or a rewrite in place is
  cut off in the middle (`cut`), because then the code does lose entries
  (section 6); `MarksStay` does not stop. One handle is a daemon that serves HTTP
  only, or a workspace that one worker alone has used; with two, LSNs are given
  twice and a rewrite loses entries (section 6).
* `jobs_core`: three jobs so that two wait while one holds the state; all have one
  request id, which the code does not look up.
* `snap_two`: with capacity 1 each publication of the other workspace evicts,
  between the halves of the other worker's eviction too; three managers are one
  for each workspace and one more for an evicted one; two generations let two
  publications of one manager pass each other. The theorems cover any number of
  each.

* `task_work`: two executors, because a takeover needs another session of the
  role, and of different owners, because a report asks for the owner. A plan that
  grows from one step to two has a failed step and its fix, which may fail in its
  turn, and a fix of a verdict; with three steps the run does not end in
  time. The theorems cover any plan. `ReviewIsQueued` stops once something has
  emptied the queue (section 6).
* `task_tree`: three tasks make a chain of three and a circle of three; two
  cascades meet on it.
* `watcher`: two threads and a third firing of the timer meet on two files; one
  lost session is enough for both threads to reconnect, since it is not regained,
  and the fault is a read that fails.

Deadlock is checked in the lease runs; in the others the system may really stop
(clients stop calling, jobs and requests are used up).
Bounds (`Max...`) appear in guards only. `Tick` of `RpcDedup` also waits for
attempts that are in flight for as long as the retention: their time-outs are
about a hundred seconds, the retention is a day. Symmetry is used in runs
without a liveness property only.

## 4. Fairness

* `RpcDedup!FairSpec`: tokio polls ready tasks (weak fairness of each step); its
  mutex serves waiters in turn (strong fairness of `LockState`); the
  serialization point gives up at its time-out, so `Dispatch` is weakly fair even
  when a Unix socket request never ends. Nothing is assumed of that request, of
  drops, panics or crashes.
* `HttpJobs!FairSpec`: the same for a job's task, and a handler that holds the
  state comes to an end.
* `FileRefresh!FairSpec`: a handler thread runs to its end, and a starting daemon
  runs recovery before it serves (`cw_daemon.rs:414`, 1160-1228). Clients need
  not send; a failure may strike any step until the bound on failures is reached.

* `AgentWatcher!FairSpec`: the dispatcher thread takes its events, the timer
  fires, and a timer thread goes on (weak fairness of each): they wait for
  `_pending_lock`, which is held for a moment, and for answers, which come or
  time out. Editing, the other agent and faults are bounded and not fair.

## 5. Proofs

TLAPS proves, for every value of the constants that satisfies the modules'
assumptions:

| theorem | states |
|---|---|
| `TaskLeaseProofs!TypeCorrect` | `TypeOK` |
| `FencingHolds`, `CountersHold` | `Fenced`, `CountersIncrease`, for any old rows |
| `OneActiveHolds` | one active lease, without old rows |
| `ExpiryFinalHolds` | `ExpiryFinal`, without old rows |
| `Refinement` | `Spec => Abstract!Spec`, without old rows |
| `TaskLeaseProofs!HolderProtectedHolds` | `HolderSpec => HolderProtected`, for any old rows |
| `RpcDedupProofs!TypeCorrect`, `AtMostOnce`, `ExactAnswers` | `TypeOK`, `RunsApart`, `AnswersExact` |
| `FileRefreshProofs!TypeCorrect`, `CommitsInOrder` | `TypeOK` with `JobShape`, `AcceptedInOrder` |
| `FileRefreshProofs!CommittedHolds`, `AnsweredHolds` | `CommittedInGraph`, `AnsweredVisible`, for any two numbers of the workspace, equal or not; for one worker and failures of other steps than sync, read, apply and mark |
| `LogAndCacheProofs!TypeCorrect` | `TypeOK`, for any number of handles on both logs |
| `LogAndCacheProofs!NoLossHolds`, `MarksStayHolds` | `NoLoss`, `MarksStay`, for one handle |
| `LogAndCacheProofs!CacheTypeCorrect`, `CacheDistinct`, `CacheQueue` | `CacheTypeOK`, `GenerationsDistinct`, `QueueCleared`, for any number of workers |
| `HttpJobsProofs!TypeCorrect`, `ToldFinalHolds`, `ToldTrueHolds` | `TypeOK`, `ToldIsFinal`, `ToldIsTrue` |
| `TaskWorkProofs!TypeCorrect`, `ReviewDone`, `OneTurn`, `ReviewHasTurn`, `FreshKeeps` | `TypeOK`, `ReviewMeansDone`, `OneAssignee`, `ReviewIsQueued`, `OwnerKeepsClaim` |
| `TaskTreeProofs!TypeCorrect`, `OverClosed`, `NothingBehind`, `Stops`, `Circle` | `TypeOK`, `ClosesOverClosed`, `LeavesNothingBehind`, `StopsForCause`, `NoCircle` |
| `AgentWatcherProofs!TypeCorrect`, `HandshakeIsHeld`, `Noticing` | `TypeOK`, `HandshakeHeld`, `ChangeNoticed` |

How they go:

* *Leases.* `TableStep` says what a step may do to the table: old rows keep
  their holder and counter and never become active again, and at most one row is
  added, with a counter above all others. Fencing and counters follow from it
  with `TypeOK` alone. For expiry and the refinement one needs that at most one
  row is active (`OneActive`), which is inductive when there are no old rows:
  `Acquire` closes the current row first. The refinement adds that the
  counter of row `i` is `i` (`CountersAreIds`), so that the mapped epoch is the
  length of the table and `StepMaps` can read the three mapped values off it
  without a `CHOOSE`. That a bounded set of naturals has a largest element, which
  `LastCounter` needs, comes from well-foundedness.
* *Holders.* `BeatsYoung`: by the wall clock no heartbeat is older than its agent
  has really been silent, since only `Tick` moves the clock on and a step back
  makes a heartbeat look younger. A lease is expired by a grant or a recovery
  only, the current one as an orphan (`EvictedIsOrphan`); when it has not
  expired, its holder is gone by `Now`, which is `wall` unless held ahead.
* *Deduplication.* `RunsApart` speaks of attempts that ran, but whether an
  attempt may run is decided when it reserves. The inductive invariant extends
  it to attempts in flight (`Spaced`), with: a reserver's row is there until its
  retention has passed (`RowHeld`), nobody is in flight for longer (`Prompt`),
  and outcomes are written once (`OutOwn`). `AnswersExact` adds that a stored
  response belongs to its row's id and params (`RowExact`).
* *Refresh.* `TypeOK` needs to know which steps carry a request (`JobShape`).
  `AcceptedInOrder` needs `SeenIsNewest`: no generation that was ever committed
  is newer than what has been seen. That is what `Fresh` protects when an undo
  has cleared the committed generation.
  `CommittedInGraph` and `AnsweredVisible` are proved whether `Row` and `Num` are
  equal or not: each speaks of the rows under the number the request's handler
  writes to (`Under`), and of the snapshot where it is built from that number. That
  the numbers agree is not proved and not true
  (`PublishedIsMerged`, `DeletedIsGone`). Both hold for one worker (`Alone`), a daemon that serves HTTP
  only: with two, a delete passes between a refresh's merge and its second check
  (section 6). They also leave out the failures of sync, read, apply and mark,
  as `refresh_core` does: after them the daemon does break the two
  (section 6), so without the hypothesis there is nothing to prove. The
  inductive invariant `GraphInv` follows a generation from the request to the graph:
  what is in use was sent (`GensSent`), in the order of the edits (`MsgsInOrder`), the
  request in hand is one of them or a replay (`InHand`), what is replayed was a
  refresh (`ReplaysRefresh`), so that it is merged under the number its request
  is judged by, a committed generation is the newest that was ever committed
  (`CommIsTop`), a replication works on the whole log (`BatchIsLog`), a pending
  tombstone is of a deletion that the handler in hand or a recovery still has to
  apply (`TombsKnown`), and the graph is at what is committed once the handler
  reaches its end (`JobReaches`, `GraphReaches`). What was answered was committed
  before, and published from the graph of that moment (`AnswersShown`,
  `BuiltIsGraph`).
* *Logs.* One handle, as on a daemon that serves HTTP only: with two, LSNs are given
  twice and `NoLoss` is false (section 6). The types need no such
  hypothesis. `LogInv` says what holds of the file and of the
  lines a rewrite is about to put in its place, step by step. In both,
  ids and LSNs are of one entry each and below the handle's next LSN (`HandleInv`,
  `RewriteInv`); what is marked is not pending, also while the rewrite that marks is
  under way; unless a write was cut off, what is acknowledged and not compacted away
  is in the file, or in the lines still to be written in place (`KeptInv`). What
  a reader returns, what a mark or a compaction keeps and what a restart recovers
  are all a choice of lines of the file (`Draws`), each once and with its id and
  LSN; that relation is transitive, so one lemma for each operator is enough.
* *Snapshots.* All for any number of workers. A manager only gives out generations and
  never takes one back, so what another worker has in hand goes on fitting (`Fits`).
  `GenerationsDistinct` is inductive with the types: whoever swaps or pushes first, a
  generation moves from one hand to the manager or from the current place to a hand,
  and a new one is above all. `QueueCleared` is about both halves of an eviction: the
  first leaves a stale entry and its worker at it, an insertion in between adds a
  second one, and the second half removes them all; only the worker that is at it
  accounts for what is too much.
* *Jobs.* `FinalInv` ties a terminal status to a task that is over, and what was
  told to the status. `ToldIsTrue` also needs `OutcomesMatch`: what a record
  shows is how its dispatch went, and a dispatch that went well has taken effect.
  That effects are never taken back is a lemma of its own (`EffectsGrow`); the
  statement outlives the table, which a crash clears.

* *Work on a task.* `ReviewMeansDone` and `OneAssignee` are inductive with the
  types. `ReviewIsQueued` is not: a step resolution moves a task to review and
  queues nobody. It follows from `TurnRemains`: when no step waits, the last one
  was reported, which queued a reviewer, and only a handoff to the next role, the
  fix of a sent back task (which waits) or what sets `emptied` takes that turn.
  `OwnerKeepsClaim` needs that a claimed task has left `open` (`ClaimStarts`),
  since a claim of an open task does not look at the previous claim.
* *Tree.* `ClearedPasses` gives a closed node its place in the chain, with all
  below it closed as well; closing over closed children and the waiver are read
  off it. `StopsForCause` shows that the lowest open node is the first that did
  not pass, by the least index that fails (well-foundedness again): a chain
  may name a task twice as far as the types go. For `NoCircle` each task has a
  set that holds its successors and not itself; the new relation's search gives
  another, and the union or the intersection of the two serves afterwards.
* *Watching agent.* `HandshakeHeld` is inductive with the types: only the thread
  that found the lock free is at the handshake, and its end, refused or lost, is
  the step that gives it back. `ChangeNoticed` needs that a thread which has not
  yet taken its files has none (`EmptyHanded`).

`LeaseHolder`'s theorem is in `TaskLeaseProofs`, since it rests on the table's
lemmas; `LogAndCacheProofs` has both modules that drop elements of a sequence by
position. It extends them both, which is why `SnapshotCache` has `CacheInit`,
`CacheNext` and `CacheSpec`.

Model-checked only: liveness (`Answered`, `JobsEnd`, `DeleteReachesGraph`,
`ChangesRead`), which needs fairness and `ENABLED`, beyond the prover. Every invariant
and every other action property of a passing run has a theorem. What a recursive definition yields
for every input is out of the prover's reach too; the modules have none.

## 6. Findings

One disagreement has a run of its own (`PROJECT.json` "findings"):
`rpc_orphan_row`: a dropped connection, a panic, a crash or a failed store
leaves a row without a response, and each retry is told for a day that the
first attempt is in flight (`http_server.rs:1117`, 1122).

### Observations

Met while modelling; the models contain the behaviour unless said otherwise. Where
the code does not keep what a comment, a document or a test says, the statement is
a property of the module. TLC violates it when it is given the property and the
instance; the rest of the configuration is that of the run named.

| property | instance | what the code does | what it disagrees with |
|---|---|---|---|
| `FileRefresh!PublishedIsMerged` | `refresh_core` with `Num = r2`, no faults, no crashes | a merge is stored under the workspace's number in the CodeGraph database (`cas_merge.rs:1242`), the snapshot is loaded by the registry's (`replicator.rs:858`): a refresh is answered as published and not in it | `replicator.rs:846-849` |
| `FileRefresh!DeletedIsGone` | the same | the tombstone is applied by the registry's number (`replicator.rs:1111`), finds no row, is marked applied and answered | `cas_merge.rs:1034` |
| `FileRefresh!OthersKept` | the same | the tombstone finds another workspace's file of the same path and removes it | `fs_handlers.rs:113-115` |
| `FileRefresh!CommittedInGraph` | `refresh_core` with two workers, no faults, no crashes | a refresh merges before it asks whether a newer request has been seen (`workspace.rs:2927`); `workspace.file.delete` is not in `PROTECTED_MUTATION_METHODS`, so on another worker it is seen, committed and applied in between, and the deleted file is back in the graph | `workspace.rs:3072-3074` |
| `FileRefresh!AnsweredVisible` | `refresh_core` with `Faults = {"mark"}`, one fault, no crashes, 3 edits, 3 numbers | a tombstone carries no generation; when its mark, or a step before it, fails, it stays pending and is applied again after the file was created anew, merged and answered | `replicator.rs:1014-1015` |
| `FileRefresh!PendingIsMerged` | `refresh_core` with no faults | recovery marks a refresh entry applied though the crash came before its merge (`workspace.rs:3627`) | `cw_daemon.rs:1156-1158` |
| `DurableLog!LsnUnique` | `logs` with two handles, no faults, no crashes | each worker's handle counts LSNs from what the file held when it was opened (`workspace.rs:1951-1972`, `server.rs:522`): two entries get one, and a mark meets both (`staging_log.rs:261`) or the first (`parse_retry_log.rs:305`) | `staging_log.rs:10`, `parse_retry_log.rs:153` |
| `DurableLog!NoLoss` | the same, `Kinds = {"staging"}` | marks and compactions rewrite the file under a mutex of the handle (`staging_log.rs:249`): an entry that another worker appended in between is lost | `replicator.rs:950` |
| `HttpJobs!CancelledNotBegun` | `jobs_core` | a queued job that is cancelled runs all the same (`http_server.rs:1635`) | `http-daemon-mvp-compatibility-contract.md:281` |
| `SnapshotCache!CurrentIsNewest` | `snap_two` with 3 generations | two publications swap in the opposite order of their generations (`snapshot.rs:288`) | `snapshot.rs:122`, 136, 173 |
| `SnapshotCache!OrderMatches` | `snap_two` with 4 managers | a workspace cached again between the two halves of its eviction is in the cache and not in the queue (`snapshot.rs:432`) | `snapshot.rs:371` |
| `SnapshotCache!PathIsOwn` | `snap_two` with 4 managers | a query opens `/proc/self/fd/N` after its guard is gone; another worker drops the snapshot and another workspace's gets the number (`snapshot.rs:103`) | `snapshot.rs:56`, 351 |
| `TaskWork!FailedStays` | `task_work` | a report overwrites any status (`task_collab_lifecycle.rs:390`), so a failed step needs neither fix nor resolution to get its task into review | `task_collab_shared.rs:207`, `task_collab_lifecycle.rs:1016`, `docs/design/requirements.md:477` |
| `AgentWatcher!RetryWaits` | `watcher` | a thread that finds a reconnection on its way goes on with the epoch it was refused with, is refused again and gives the change up (`agent_watcher.py:434`) | `agent_watcher.py:421` |
| `AgentWatcher!SessionRegained` | `watcher` | a reconnection sends a session id the daemon has already and is refused by the primary key (`replicator.rs:43`, 164): a revoked session, and one whose agent was restarted, stays unusable | `src/tests/test_cw_agent_daemon_integration.py:1226`, whose daemon is a mock |

Other observations have no property:

* *Leases.* Heartbeats carry the raw system clock and are compared with the
  monotone one (`task_collab.rs:3153`, `task_collab_lease.rs:1313`): after the
  clock is set back by more than the staleness limit, a holder that beats on time
  is recovered as an orphan, though `task_collab_lease.rs:1290` means to avoid
  it. A renewal with a smaller ttl shortens the lease
  (`task_collab_lease.rs:1599`; `docs/architecture.md:1497` says "later"). With
  old rows active under two aliases, an acquire after the expiry closes one of
  them, is refused by the index because of the other, and rolls back: no acquire
  can succeed any more (`task_collab_lease.rs:1346`).
* *Refresh.* Undo clears the committed
  generation whatever it is (`cas.rs:1107`), unlike its comment
  (`cas.rs:1077`). A repeated sequence number is handled again while the first was
  not committed (`cas.rs:1002`; `watcher-generation-state-machine.md:289` says it
  is dropped). A replay can bring the graph back to an older content for a
  moment.
* *Logs.* An append cut off in the middle of a line takes the next, acknowledged,
  entry with it (`staging_log.rs:193`). A crash while `parse_retry.log` is
  rewritten in place loses what was not written yet (`parse_retry_log.rs:337`).
  After a compaction and a restart LSNs are given again (`staging_log.rs:430`).
* *Jobs.* A repeated submission runs again (`http_server.rs:1606`;
  `http-daemon-mvp-compatibility-contract.md:214`). A job told failed may have
  taken effect. A restart forgets ended jobs (`http_server.rs:374`; lines 216-217).
* *Work on a task.* A handoff `executor_ready_for_review` looks at no task status:
  it leaves a turn in the queue of a closed task. A resolution after the close
  moves the task back to review, with nobody queued; so do `claim.recover` and
  `lease.recover` before the last report is judged. A task that is open or in progress is applied
  without a verdict (`task_collab_lifecycle_apply.rs:18`: only `review` is asked for one), a
  pass of an earlier round counts for a later one, and `task.close` does not look at steps in
  progress (`task_collab_lifecycle_apply.rs:298`, against the comment at 279).
  A reviewer can claim an open task, and the executors cannot take the claim over.
  A claim by the session that has the claim starts one more step
  (`task_collab_lease.rs:518`). `task.report` takes the task from the step it
  names and checks the claim of the task it was sent for
  (`task_collab_lifecycle.rs:349`; outside of the model).
* *Tree.* A subtask can be created under a closed task. A refused supersede is
  recorded and repeated to every later request of the same id.
* *Watching agent.* The number of a refresh is taken before its epoch
  (`agent_protocol.py:329`, 333): a reconnection in between gives a message of the
  new session a number of the old, and the file's next ones are dropped as stale.
  A change whose refresh failed is not queued again. `workspace.file.delete` is
  sent without epoch and number, which the handler requires
  (`agent_watcher.py:470`).
* *Task job runner, not modelled.* The row that says `running` is written without the lock
  a cancellation takes, and the end of the job overwrites `cancelled`.
  Job numbers start again at 1 after a restart and replace old rows.
* *Snapshots.* An evicted workspace starts again with generation 1
  (`snapshot.rs:407`; `enterprise-watcher-benefit-production-plan.md:86`).
  `query.stats` reports the counts of one generation with the number of another
  (`snapshot_state.rs:889`). The cache drops what was inserted first, not what was
  used least recently (`snapshot.rs:397`, comment at 365).

## 7. How to run

`tlc -config <run>.cfg <module>` for each row of `PROJECT.json` "runs";
`tlapm <module>Proofs.tla` for the proofs. The longest run, `snap_two`, takes
about two minutes; the proofs of `FileRefreshProofs` and `LogAndCacheProofs` take
the longest of all.

## 8. Plan

Done: the lease with its clock and the abstract resource it implements,
deduplication, the refresh pipeline with the logs and the snapshot cache it
uses, the jobs; then the work on a task with its claim and queue, the tree of
tasks, and the watching agent. Next, in this order:

1. `TaskJobs`: the task job runner with its memory, table and threads. Property: a
   job that was cancelled does not end otherwise; a restart leaves no job running.
2. The cache of requests that the `task.*` handlers share (`task_collab.rs:2371`)
   and the operation ledger beside it. Property: a request is answered with the
   result of a request of its method.
3. Compositions: `TaskWork` with `TaskLease` (one lease, its holder the only one
   who writes); `FileRefresh` with `DurableLog` as its set of pending entries.
4. Smaller modules: stage toggles, the single instance guard.
5. Proofs: `TypeOK` of the two new modules and their properties; that the log of
   `FileRefresh` is what `DurableLog` keeps, once the composition of 3 is there.
