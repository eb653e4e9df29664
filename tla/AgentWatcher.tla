----------------------------- MODULE AgentWatcher -----------------------------
(***************************************************************************)
(* The agent that watches a workspace and asks the daemon to refresh what  *)
(* changed (agent_watcher.py, agent_protocol.py, agent_session.py), in the *)
(* watchdog deployment: one dispatcher thread runs the callbacks, and every *)
(* time the debounce timer fires a thread of its own handles the files     *)
(* that are pending.  Two such threads may be at work at once and share    *)
(* the session and the lock of the reconnection.                           *)
(*                                                                         *)
(* The daemon is what a refresh and a handshake meet of it: whether the    *)
(* active session of the workspace is this agent's.  The agent has one     *)
(* session id, and daemon_handle_connect inserts it into agent_sessions    *)
(* under PRIMARY KEY (workspace_id, session_id): the handshake the agent   *)
(* starts with succeeds, and every later one is rolled back and answered   *)
(* connect_failed.  A session that was revoked stays so, and the epoch a   *)
(* request carries never changes.  What becomes of a request the daemon    *)
(* lets in is FileRefresh.  A deletion is sent by the dispatcher, is       *)
(* always refused (it carries no epoch) and leaves no trace here.          *)
(***************************************************************************)
EXTENDS Integers, FiniteSets

CONSTANTS
    Files,       \* supported files of the watched directory
    Threads,     \* bound: timer threads at work at once
    NoThread,
    NoFile,
    MaxEdits,    \* bound: how often a file is written
    MaxFaults    \* bound: reads that fail

ASSUME AgentWatcherAssumption ==
    /\ NoThread \notin Threads /\ NoFile \notin Files
    /\ MaxEdits \in Nat /\ MaxFaults \in Nat

VARIABLES
    disk,       \* the content of each file, numbered; Gone when it was removed
    edits,      \* how often a file was written
    events,     \* files with a file system event the dispatcher has not seen
    calling,    \* the file whose callback the dispatcher is in
    pending,    \* _pending_changes
    armed,      \* _timer is running
    threads,    \* the threads the timer started
    handshake,  \* who holds _reconnect_lock
    active,     \* the daemon: the workspace's active session is this agent's
    faults,     \* how often a read failed
    looked      \* the content of each file a thread has looked at last

files == <<disk, edits>>
queue == <<events, calling, pending, armed>>
vars == <<files, queue, threads, handshake, active, faults, looked>>

Gone == 0

\* at: the next step of handle_file_change; todo: the files still to handle;
\* again: the first attempt was refused for the session.
Thread ==
    [at : {"idle", "take", "next", "call", "reconnect", "connect"},
     todo : SUBSET Files, again : BOOLEAN]

Idle == [at |-> "idle", todo |-> {}, again |-> FALSE]

TypeOK ==
    /\ disk \in [Files -> Nat]
    /\ edits \in 0 .. MaxEdits
    /\ events \subseteq Files
    /\ calling \in Files \cup {NoFile}
    /\ pending \subseteq Files
    /\ armed \in BOOLEAN
    /\ threads \in [Threads -> Thread]
    /\ \A t \in Threads : threads[t].at = "next" => threads[t].todo # {}
    /\ handshake \in Threads \cup {NoThread}
    /\ active \in BOOLEAN
    /\ faults \in 0 .. MaxFaults
    /\ looked \in [Files -> Nat]

\* The agent has shaken hands before it starts to watch.
Init ==
    /\ disk = [f \in Files |-> Gone]
    /\ edits = 0
    /\ events = {}
    /\ calling = NoFile
    /\ pending = {}
    /\ armed = FALSE
    /\ threads = [t \in Threads |-> Idle]
    /\ handshake = NoThread
    /\ active = TRUE
    /\ faults = 0
    /\ looked = [f \in Files |-> Gone]

-----------------------------------------------------------------------------
(* The watched directory, and the other agent *)

Write(f) ==
    /\ edits < MaxEdits
    /\ edits' = edits + 1
    /\ disk' = [disk EXCEPT ![f] = edits']
    /\ events' = events \cup {f}
    /\ UNCHANGED <<calling, pending, armed, threads, handshake, active, faults, looked>>

Remove(f) ==
    /\ disk[f] # Gone
    /\ disk' = [disk EXCEPT ![f] = Gone]
    /\ UNCHANGED <<edits, queue, threads, handshake, active, faults, looked>>

\* Another agent connects to the workspace: the daemon revokes this session.
Revoke ==
    /\ active
    /\ active' = FALSE
    /\ UNCHANGED <<files, queue, threads, handshake, faults, looked>>

-----------------------------------------------------------------------------
(* The dispatcher: on_created, on_modified, the new path of on_moved *)

OnChange(f) ==
    /\ calling = NoFile
    /\ f \in events
    /\ events' = events \ {f}
    /\ pending' = pending \cup {f}
    /\ calling' = f
    /\ UNCHANGED <<files, armed, threads, handshake, active, faults, looked>>

\* A mutant: a timer object is left alone, also when it has fired.
ScheduledOnce == armed \/ \A t \in Threads : threads[t].at = "idle"

\* _schedule_process: the timer is cancelled, unless it fired, and set anew.
Scheduled == TRUE

Schedule ==
    /\ calling # NoFile
    /\ armed' = Scheduled
    /\ calling' = NoFile
    /\ UNCHANGED <<files, events, pending, threads, handshake, active, faults, looked>>

-----------------------------------------------------------------------------
(* A timer thread *)

\* The timer fires: _process_pending in a thread of its own.
Fire(t) ==
    /\ armed
    /\ threads[t].at = "idle"
    /\ armed' = FALSE
    /\ threads' = [threads EXCEPT ![t].at = "take"]
    /\ UNCHANGED <<files, events, calling, pending, handshake, active, faults, looked>>

\* A mutant: a thread does not end when nothing is left.
ListedAlways(left) == [at |-> "next", todo |-> left, again |-> FALSE]

Listed(left) == IF left = {} THEN Idle ELSE [at |-> "next", todo |-> left, again |-> FALSE]

\* The pending files are taken and cleared under _pending_lock.
Take(t) ==
    /\ threads[t].at = "take"
    /\ threads' = [threads EXCEPT ![t] = Listed(pending)]
    /\ pending' = {}
    /\ UNCHANGED <<files, events, calling, armed, handshake, active, faults, looked>>

\* A mutant: a file that fails ends the whole list.
DoneWithAll(left) == Idle

\* The thread goes on to the next file, whatever came of this one.
Done(left) == Listed(left)

Fault == faults < MaxFaults /\ faults' = faults + 1

\* handle_file_change reads the file, finds it gone or fails to read it.
Read(t, f) ==
    /\ threads[t].at = "next"
    /\ f \in threads[t].todo
    /\ looked' = [looked EXCEPT ![f] = disk[f]]
    /\ LET left == threads[t].todo \ {f}
       IN  \/ /\ disk[f] # Gone
              /\ threads' = [threads EXCEPT ![t].at = "call", ![t].todo = left]
              /\ UNCHANGED faults
           \/ /\ disk[f] = Gone
              /\ threads' = [threads EXCEPT ![t] = Done(left)]
              /\ UNCHANGED faults
           \/ /\ Fault
              /\ threads' = [threads EXCEPT ![t] = Done(left)]
    /\ UNCHANGED <<files, queue, handshake, active>>

\* The refresh is called, and refused when the session is not the active one:
\* the first refusal starts a reconnection.  After any other outcome the file
\* is done with.
Call(t) ==
    /\ threads[t].at = "call"
    /\ threads' = [threads EXCEPT ![t] =
            IF ~ active /\ ~ @.again
            THEN [@ EXCEPT !.at = "reconnect", !.again = TRUE]
            ELSE Done(@.todo)]
    /\ UNCHANGED <<files, queue, handshake, active, faults, looked>>

\* A mutant: who holds the lock is not looked at.
LockIgnored == TRUE

LockFree == handshake = NoThread

\* _reconnect: who does not get the lock goes straight to its second attempt.
Reconnect(t) ==
    /\ threads[t].at = "reconnect"
    /\ IF LockFree
       THEN /\ handshake' = t
            /\ threads' = [threads EXCEPT ![t].at = "connect"]
       ELSE /\ threads' = [threads EXCEPT ![t].at = "call"]
            /\ UNCHANGED handshake
    /\ UNCHANGED <<files, queue, active, faults, looked>>

\* user_agent_connect sends the session id it has: the insertion fails on the
\* primary key and the revocation before it is rolled back.  The lock is given
\* back and the change is not sent; a request that never arrives ends the same
\* way.
Connect(t) ==
    /\ threads[t].at = "connect"
    /\ threads' = [threads EXCEPT ![t] = Done(@.todo)]
    /\ handshake' = NoThread
    /\ UNCHANGED <<files, queue, active, faults, looked>>

-----------------------------------------------------------------------------

Work(t) ==
    \/ Take(t) \/ \E f \in Files : Read(t, f)
    \/ Call(t) \/ Reconnect(t) \/ Connect(t)

Dispatch == Schedule \/ \E f \in Files : OnChange(f)

Next ==
    \/ \E f \in Files : Write(f) \/ Remove(f)
    \/ Revoke
    \/ Dispatch
    \/ \E t \in Threads : Fire(t) \/ Work(t)

Spec == Init /\ [][Next]_vars

\* The dispatcher takes its events, a timer fires and a started thread goes on:
\* each is a thread of the interpreter that waits for nothing but the lock of
\* the pending files, which is held for a moment, and for answers that come or
\* time out.
FairSpec ==
    /\ Spec
    /\ WF_vars(Dispatch)
    /\ WF_vars(\E t \in Threads : Fire(t))
    /\ \A t \in Threads : WF_vars(Work(t))

-----------------------------------------------------------------------------
(* Properties *)

\* A change is never forgotten between the threads: until a thread has looked
\* at what a file holds now, its event is still to come, or it is pending with
\* a timer or a thread that will take it, or a thread has it on its list.
ChangeNoticed ==
    \A f \in Files : disk[f] \notin {Gone, looked[f]} =>
        \/ f \in events
        \/ /\ f \in pending
           /\ armed \/ calling # NoFile \/ \E t \in Threads : threads[t].at = "take"
        \/ \E t \in Threads : f \in threads[t].todo

\* The threads that meet a revoked session shake hands one at a time, and the
\* lock is held for as long as a handshake takes and no longer, however it ends
\* (agent_watcher.py, _reconnect).
HandshakeHeld ==
    \A t \in Threads : handshake = t <=> threads[t].at = "connect"

\* When the editing stops, every file there is has been looked at as it is.
ChangesRead == <>[](\A f \in Files : disk[f] \in {Gone, looked[f]})

\* A thread that finds a reconnection on its way waits for it before its second
\* attempt: what the comment of _reconnect says.  The code does not keep this
\* (the lock is tried without waiting).
RetryWaits ==
    \A t \in Threads : threads[t].at = "call" /\ threads[t].again => handshake = NoThread

\* The agent gets its session back by a reconnection: what the comment of
\* handle_file_change and the tests of the reconnection say, the latter against
\* a daemon of their own.  The code does not keep this (the session id is not
\* new).
SessionRegained == \A t \in Threads : threads[t].at = "connect" ~> active
===============================================================================
