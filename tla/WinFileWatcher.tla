---------------------------- MODULE WinFileWatcher ----------------------------
(***************************************************************************)
(* util/WinFileWatcher.{h,cc}: callbacks when a file changes, on Windows.  *)
(*                                                                         *)
(* All watches here are on one file.  They share a WinDirWatcher on its    *)
(* directory, whose outstanding ReadDirectoryChangesW completes through a  *)
(* completion port.  When the last watch of a directory goes, its watcher  *)
(* moves from m_dirWatchers to m_draining and its read is cancelled; the   *)
(* kernel owns the buffer until that read has completed.  A later          *)
(* WatchFile opens another WinDirWatcher, so two may be alive.             *)
(*                                                                         *)
(* Run is one thread; WatchFile, Unwatch and the destructor are called on  *)
(* others.  What a thread does under the mutex is one step, together with  *)
(* the cancels after it, which only race with completions.                 *)
(***************************************************************************)
EXTENDS Naturals, FiniteSets, Sequences

CONSTANTS
    WatchId,        \* the ids that m_nextWatchId gives to calls of WatchFile
    DirId,          \* the WinDirWatcher objects, numbered as they are opened
    MaxChanges,     \* bound: changes of the file
    MaxFailures     \* bound: calls refused, and reads completed with an error

ASSUME WinAssumption ==
    /\ IsFiniteSet(WatchId) /\ WatchId = 1..Cardinality(WatchId)
    /\ DirId = WatchId    \* a WatchFile opens at most one
    /\ {MaxChanges, MaxFailures} \subseteq Nat

VARIABLES
    version,            \* how often the file has changed
    noted,              \* kernel: what a directory handle has recorded
    io,                 \* kernel: the read of a WinDirWatcher
    port,               \* kernel: the packets queued on the completion port
    m_dirWatchers,      \* at most one, as there is one directory
    m_draining,
    entries,            \* WinDirWatcher::m_watches
    m_watchLocations,   \* its keys
    m_pendingUnwatches,
    m_shutdown,
    pc,                 \* where Run is
    live,               \* Run's live: the directory it reads again, if any
    dirty,              \* Run's dirty
    deadline,           \* Run's deadline: "none", "set" or "passed"
    shuttingDown,       \* Run's shuttingDown
    calling,            \* the callbacks FireDirty has still to call
    caller,             \* where the user of each watch is
    owner,              \* where the destructor is
    seen,               \* history: the version each user read last, 0 after Unwatch
    late,               \* history: callbacks called after Unwatch returned
    refused,            \* history: CreateFileW, ReadDirectoryChangesW that failed
    errors              \* history: reads that completed with an error

kernelVars == <<noted, io, port>>
tableVars  == <<m_dirWatchers, m_draining, entries, m_watchLocations, m_pendingUnwatches>>
runVars    == <<pc, live, dirty, deadline, shuttingDown, calling>>
userVars   == <<caller, owner, m_shutdown>>
histVars   == <<seen, late, refused, errors>>
vars == <<version, kernelVars, tableVars, runVars, userVars, histVars>>

-----------------------------------------------------------------------------
\* What Wake() posts.  A completed read is on the port under its directory.
WakePacket == 0

\* A completion in the queue of the port.  "hit": there are records of the
\* file, or there were more than the buffer holds, which counts for every
\* watch; "miss": all records are of other files.
Completed == {"hit", "miss", "aborted", "error"}

TypeOK ==
    /\ version \in 0..MaxChanges
    /\ noted \in [DirId -> {"nothing", "other", "file"}]
    /\ io \in [DirId -> {"unopened", "idle", "pending"} \cup Completed]
    /\ port \in Seq(DirId \cup {WakePacket})
    /\ m_dirWatchers \subseteq DirId /\ Cardinality(m_dirWatchers) <= 1
    /\ m_draining \subseteq DirId
    /\ entries \in [DirId -> SUBSET WatchId]
    /\ m_watchLocations \subseteq WatchId
    /\ m_pendingUnwatches \subseteq WatchId
    /\ m_shutdown \in BOOLEAN
    /\ pc \in {"top", "wait", "reissue", "call", "ended"}
    /\ live \subseteq DirId
    /\ dirty \subseteq WatchId
    /\ deadline \in {"none", "set", "passed"}
    /\ shuttingDown \in BOOLEAN
    /\ calling \subseteq WatchId
    /\ caller \in [WatchId -> {"new", "watching", "unwatching", "done", "failed"}]
    /\ owner \in {"alive", "waking", "joining", "gone"}
    /\ seen \in [WatchId -> 0..MaxChanges]
    /\ late \in [WatchId -> Nat]
    /\ refused \in 0..MaxFailures
    /\ errors \in 0..MaxFailures

\* Create() has started the thread.
Init ==
    /\ version = 0
    /\ noted = [d \in DirId |-> "nothing"]
    /\ io = [d \in DirId |-> "unopened"]
    /\ port = <<>>
    /\ m_dirWatchers = {}
    /\ m_draining = {}
    /\ entries = [d \in DirId |-> {}]
    /\ m_watchLocations = {}
    /\ m_pendingUnwatches = {}
    /\ m_shutdown = FALSE
    /\ pc = "top"
    /\ live = {}
    /\ dirty = {}
    /\ deadline = "none"
    /\ shuttingDown = FALSE
    /\ calling = {}
    /\ caller = [w \in WatchId |-> "new"]
    /\ owner = "alive"
    /\ seen = [w \in WatchId |-> 0]
    /\ late = [w \in WatchId |-> 0]
    /\ refused = 0
    /\ errors = 0

-----------------------------------------------------------------------------
(* The kernel (external).                                                  *)

\* A directory handle records changes from its first read on, also between
\* reads.  (Nobody reads what that of a draining directory records.)
Records(d) == d \in m_dirWatchers

MayFail == refused + errors < MaxFailures

\* The watched file changes, or another one in its directory.  What happens
\* once the destructor runs is of no concern; a change recorded before may
\* still complete a read then.
Change(name) ==
    /\ owner = "alive"
    /\ name = "file" => version < MaxChanges
    /\ name = "other" => \E d \in DirId : Records(d) /\ noted[d] = "nothing"
    /\ version' = IF name = "file" THEN version + 1 ELSE version
    /\ noted' = [d \in DirId |->
           IF Records(d) /\ noted[d] # "file" THEN name ELSE noted[d]]
    /\ UNCHANGED <<io, port, tableVars, runVars, userVars, histVars>>

\* The outstanding read completes with the records, or with none if there were
\* too many.
ReadCompletes(d, result) ==
    /\ io[d] = "pending"
    /\ noted[d] # "nothing"
    /\ result \in (IF noted[d] = "file" THEN {"hit"} ELSE {"hit", "miss"})
    /\ io' = [io EXCEPT ![d] = result]
    /\ port' = Append(port, d)
    /\ noted' = [noted EXCEPT ![d] = "nothing"]
    /\ UNCHANGED <<version, tableVars, runVars, userVars, histVars>>

\* The outstanding read completes with an error: the directory is gone.
ReadFails(d) ==
    /\ io[d] = "pending"
    /\ MayFail
    /\ io' = [io EXCEPT ![d] = "error"]
    /\ port' = Append(port, d)
    /\ errors' = errors + 1
    /\ UNCHANGED <<version, noted, tableVars, runVars, userVars, seen, late, refused>>

\* WinDirWatcher::IssueRead: ReadDirectoryChangesW for d is accepted, or refused.
IssueRead(d, ok) ==
    /\ ok \/ MayFail
    /\ io' = [io EXCEPT ![d] = IF ok THEN "pending" ELSE "idle"]
    /\ refused' = IF ok THEN refused ELSE refused + 1

\* Mutant of Cancel: CancelIoEx is not called.
CancelNothing(D) == UNCHANGED <<io, noted, port>>

\* CancelIoEx for the directory in D, if any: an outstanding read completes; one
\* that has completed already, or was never issued again, is not affected.
Cancel(D) ==
    IF \E d \in D : io[d] = "pending"
      THEN LET d == CHOOSE x \in D : io[x] = "pending" IN
           /\ io' = [io EXCEPT ![d] = "aborted"]
           /\ noted' = [noted EXCEPT ![d] = "nothing"]
           /\ port' = Append(port, d)
      ELSE UNCHANGED <<io, noted, port>>

-----------------------------------------------------------------------------
(* The users.                                                              *)

\* WatchFile is called: the ids are given in order.
Calls(w) ==
    /\ caller[w] = "new" /\ owner = "alive"
    /\ \A v \in WatchId : v < w => caller[v] # "new"

\* WatchFile: share the directory's watcher, or open one and read from it.
\* Its user reads the file after it returns.
WatchShares(w) ==
    /\ Calls(w)
    /\ m_dirWatchers # {}
    /\ entries' = [d \in DirId |-> IF d \in m_dirWatchers THEN entries[d] \cup {w} ELSE entries[d]]
    /\ m_watchLocations' = m_watchLocations \cup {w}
    /\ caller' = [caller EXCEPT ![w] = "watching"]
    /\ seen' = [seen EXCEPT ![w] = version]
    /\ UNCHANGED <<version, kernelVars, m_dirWatchers, m_draining, m_pendingUnwatches,
                   runVars, owner, m_shutdown, late, refused, errors>>

\* Mutant of WatchOpens: m_dirWatchers is not searched first.
WatchOpensAgain(w, d, ok) ==
    /\ Calls(w)
    /\ io[d] = "unopened" /\ \A e \in DirId : e < d => io[e] # "unopened"
    /\ IssueRead(d, ok)
    /\ IF ok THEN /\ m_dirWatchers' = m_dirWatchers \cup {d}
                  /\ entries' = [entries EXCEPT ![d] = {w}]
                  /\ m_watchLocations' = m_watchLocations \cup {w}
                  /\ caller' = [caller EXCEPT ![w] = "watching"]
                  /\ seen' = [seen EXCEPT ![w] = version]
             ELSE /\ caller' = [caller EXCEPT ![w] = "failed"]
                  /\ UNCHANGED <<m_dirWatchers, entries, m_watchLocations, seen>>
    /\ UNCHANGED <<version, noted, port, m_draining, m_pendingUnwatches,
                   runVars, owner, m_shutdown, late, errors>>

\* A new WinDirWatcher; if it cannot read, WatchFile takes all of it back.
WatchOpens(w, d, ok) ==
    /\ Calls(w)
    /\ m_dirWatchers = {}
    /\ io[d] = "unopened" /\ \A e \in DirId : e < d => io[e] # "unopened"
    /\ IssueRead(d, ok)
    /\ IF ok THEN /\ m_dirWatchers' = {d}
                  /\ entries' = [entries EXCEPT ![d] = {w}]
                  /\ m_watchLocations' = m_watchLocations \cup {w}
                  /\ caller' = [caller EXCEPT ![w] = "watching"]
                  /\ seen' = [seen EXCEPT ![w] = version]
             ELSE /\ caller' = [caller EXCEPT ![w] = "failed"]
                  /\ UNCHANGED <<m_dirWatchers, entries, m_watchLocations, seen>>
    /\ UNCHANGED <<version, noted, port, m_draining, m_pendingUnwatches,
                   runVars, owner, m_shutdown, late, errors>>

\* WatchFile fails to open the directory.
WatchFails(w) ==
    /\ Calls(w)
    /\ m_dirWatchers = {}
    /\ MayFail
    /\ refused' = refused + 1
    /\ caller' = [caller EXCEPT ![w] = "failed"]
    /\ UNCHANGED <<version, kernelVars, tableVars, runVars, owner, m_shutdown, seen, late, errors>>

\* Unwatch, or the destructor of the handle: CloseWatch queues the id, and
\* then wakes Run.
UnwatchQueues(w) ==
    /\ caller[w] = "watching" /\ owner = "alive"
    /\ caller' = [caller EXCEPT ![w] = "unwatching"]
    /\ m_pendingUnwatches' = m_pendingUnwatches \cup {w}
    /\ seen' = [seen EXCEPT ![w] = 0]
    /\ UNCHANGED <<version, kernelVars, m_dirWatchers, m_draining, entries, m_watchLocations,
                   runVars, owner, m_shutdown, late, refused, errors>>

\* Mutant of UnwatchWakes: CloseWatch does not call Wake.
UnwatchWakesNobody(w) ==
    /\ caller[w] = "unwatching"
    /\ caller' = [caller EXCEPT ![w] = "done"]
    /\ UNCHANGED <<version, kernelVars, tableVars, runVars, owner, m_shutdown, histVars>>

UnwatchWakes(w) ==
    /\ caller[w] = "unwatching"
    /\ caller' = [caller EXCEPT ![w] = "done"]
    /\ port' = Append(port, WakePacket)
    /\ UNCHANGED <<version, noted, io, tableVars, runVars, owner, m_shutdown, histVars>>

-----------------------------------------------------------------------------
(* Run.                                                                    *)

\* The watches that DrainPendingUnwatches takes out.
Unwatched == m_pendingUnwatches \cap m_watchLocations

\* The directories that have no watch left when it has done so.
Emptied == {d \in m_dirWatchers : Unwatched # {} /\ entries[d] \subseteq Unwatched}

\* Mutant of DrainPendingUnwatches: the directory is closed, not drained.
DrainPendingUnwatchesCloses ==
    /\ m_watchLocations' = m_watchLocations \ Unwatched
    /\ m_pendingUnwatches' = {}
    /\ entries' = [d \in DirId |->
           IF d \in m_dirWatchers THEN entries[d] \ Unwatched ELSE entries[d]]
    /\ m_dirWatchers' = m_dirWatchers \ Emptied
    /\ UNCHANGED <<io, noted, port, m_draining>>

\* Mutant of DrainPendingUnwatches: the locations stay.
DrainPendingUnwatchesForgets ==
    /\ m_pendingUnwatches' = {}
    /\ UNCHANGED <<io, noted, port, m_watchLocations, entries, m_dirWatchers, m_draining>>

DrainPendingUnwatches ==
    /\ m_watchLocations' = m_watchLocations \ Unwatched
    /\ m_pendingUnwatches' = {}
    /\ entries' = [d \in DirId |->
           IF d \in m_dirWatchers THEN entries[d] \ Unwatched ELSE entries[d]]
    /\ m_dirWatchers' = m_dirWatchers \ Emptied
    /\ m_draining' = m_draining \cup Emptied
    /\ Cancel(Emptied)

\* The head of the loop, in service.
RunTop ==
    /\ pc = "top" /\ ~m_shutdown
    /\ DrainPendingUnwatches
    /\ pc' = "wait"
    /\ UNCHANGED <<version, live, dirty, deadline, shuttingDown, calling, userVars, histVars>>

\* The head of the loop once m_shutdown is set: at first every directory is
\* drained and the dirty watches are dropped; Run ends when none is draining.
\* (What a draining directory watched is not looked at again.)
RunShutsDown ==
    LET draining == m_draining \cup m_dirWatchers IN
    /\ pc = "top" /\ m_shutdown
    /\ shuttingDown' = TRUE
    /\ m_draining' = draining
    /\ Cancel(m_dirWatchers)
    /\ m_dirWatchers' = {}
    /\ m_watchLocations' = {}
    /\ m_pendingUnwatches' = {}
    /\ entries' = [d \in DirId |-> {}]
    /\ dirty' = {}
    /\ deadline' = "none"
    /\ pc' = IF draining = {} THEN "ended" ELSE "wait"
    /\ UNCHANGED <<version, live, calling, userVars, histVars>>

\* Has FireDirty a callback for w: it has a location, and its directory's
\* watcher, one of those active, has an entry for it.
HasCallback(w, active) == w \in m_watchLocations /\ \E d \in active : w \in entries[d]

\* The end of the loop, with the deadline at dl and active what m_dirWatchers
\* has by then: FireDirty once the deadline has passed.
EndOfLoop(dl, active) ==
    /\ IF dl = "passed"
         THEN /\ calling' = {w \in dirty : HasCallback(w, active)}
              /\ dirty' = {}
              /\ deadline' = "none"
         ELSE /\ deadline' = dl
              /\ UNCHANGED <<dirty, calling>>
    /\ pc' = IF calling' = {} THEN "top" ELSE "call"

\* GetQueuedCompletionStatus returns a packet of the port, in their order.
TakePacket(p) ==
    /\ pc = "wait" /\ port # <<>> /\ Head(port) = p
    /\ port' = Tail(port)

\* A wake does nothing but go through the loop.
RunWakes ==
    /\ TakePacket(WakePacket)
    /\ EndOfLoop(deadline, m_dirWatchers)
    /\ UNCHANGED <<version, noted, io, tableVars, live, shuttingDown, userVars, histVars>>

\* It times out, or fails.  (A failure with packets on the port is followed by
\* the same wait; the model has those with an empty port.)
RunTimesOut ==
    /\ pc = "wait" /\ port = <<>> /\ deadline = "passed"
    /\ EndOfLoop(deadline, m_dirWatchers)
    /\ UNCHANGED <<version, kernelVars, tableVars, live, shuttingDown, userVars, histVars>>

WaitFails ==
    /\ pc = "wait" /\ port = <<>>
    /\ EndOfLoop(deadline, m_dirWatchers)
    /\ UNCHANGED <<version, kernelVars, tableVars, live, shuttingDown, userVars, histVars>>

\* CollectDirty: the watches of the file, or all.
CollectDirty(d) == IF io[d] = "hit" THEN entries[d] ELSE {}

\* It returns the completion of a draining directory, the last one: nothing
\* holds the WinDirWatcher any more.  (BufferOutlivesRead: a completion is never
\* of a directory that is neither draining nor active, which Run would skip.)
RunDrains(d) ==
    /\ TakePacket(d) /\ d \in m_draining
    /\ m_draining' = m_draining \ {d}
    /\ io' = [io EXCEPT ![d] = "idle"]
    /\ noted' = [noted EXCEPT ![d] = "nothing"]
    /\ entries' = [entries EXCEPT ![d] = {}]
    /\ pc' = "top"
    /\ UNCHANGED <<version, m_dirWatchers, m_watchLocations, m_pendingUnwatches,
                   live, dirty, deadline, shuttingDown, calling, userVars, histVars>>

\* It returns a failure of an active directory, which is logged.
RunLogsError(d) ==
    /\ TakePacket(d) /\ d \in m_dirWatchers /\ io[d] \in {"aborted", "error"}
    /\ io' = [io EXCEPT ![d] = "idle"]
    /\ pc' = "top"
    /\ UNCHANGED <<version, noted, tableVars, live, dirty, deadline, shuttingDown, calling, userVars, histVars>>

\* It returns changes.
RunCollects(d) ==
    /\ TakePacket(d) /\ d \in m_dirWatchers /\ io[d] \in {"hit", "miss"}
    /\ dirty' = dirty \cup CollectDirty(d)
    /\ io' = [io EXCEPT ![d] = "idle"]
    /\ live' = {d}
    /\ pc' = "reissue"
    /\ UNCHANGED <<version, noted, tableVars, deadline, shuttingDown, calling, userVars, histVars>>

\* Mutant of Reissue: the directory is not read again.
ReissueNot(d, ok) ==
    /\ pc = "reissue" /\ d \in live
    /\ live' = {}
    /\ EndOfLoop(IF dirty # {} /\ deadline = "none" THEN "set" ELSE deadline, m_dirWatchers)
    /\ UNCHANGED <<version, kernelVars, tableVars, shuttingDown, userVars, histVars>>

\* The directory is read again; if that fails, its watcher is dropped, and
\* FireDirty finds no callback for what it watched.
Reissue(d, ok) ==
    /\ pc = "reissue" /\ d \in live
    /\ IssueRead(d, ok)
    /\ IF ok THEN UNCHANGED <<m_dirWatchers, entries, noted>>
             ELSE /\ m_dirWatchers' = m_dirWatchers \ {d}
                  /\ entries' = [entries EXCEPT ![d] = {}]
                  /\ noted' = [noted EXCEPT ![d] = "nothing"]
    /\ live' = {}
    /\ EndOfLoop(IF dirty # {} /\ deadline = "none" THEN "set" ELSE deadline,
                 IF ok THEN m_dirWatchers ELSE m_dirWatchers \ {d})
    /\ UNCHANGED <<version, port, m_draining, m_watchLocations, m_pendingUnwatches,
                   shuttingDown, userVars, seen, late, errors>>

\* FireDirty calls a callback, without the mutex; its user reads the file.
Callback(w) ==
    /\ pc = "call" /\ w \in calling
    /\ calling' = calling \ {w}
    /\ pc' = IF calling' = {} THEN "top" ELSE "call"
    /\ seen' = [seen EXCEPT ![w] = IF caller[w] = "watching" THEN version ELSE @]
    /\ late' = [late EXCEPT ![w] = IF caller[w] = "done" THEN @ + 1 ELSE @]
    /\ UNCHANGED <<version, kernelVars, tableVars, live, dirty, deadline, shuttingDown, userVars, refused, errors>>

\* The clock.
DeadlinePasses ==
    /\ deadline = "set"
    /\ deadline' = "passed"
    /\ UNCHANGED <<version, kernelVars, tableVars, pc, live, dirty, shuttingDown, calling, userVars, histVars>>

-----------------------------------------------------------------------------
(* ~WinFileWatcher.  A call of Unwatch holds a reference.                  *)

StoreShutdown ==
    /\ owner = "alive"
    /\ \A w \in WatchId : caller[w] # "unwatching"
    /\ owner' = "waking"
    /\ m_shutdown' = TRUE
    /\ UNCHANGED <<version, kernelVars, tableVars, runVars, caller, histVars>>

WakeToEnd ==
    /\ owner = "waking"
    /\ owner' = "joining"
    /\ port' = Append(port, WakePacket)
    /\ UNCHANGED <<version, noted, io, tableVars, runVars, caller, m_shutdown, histVars>>

Join ==
    /\ owner = "joining" /\ pc = "ended"
    /\ owner' = "gone"
    /\ UNCHANGED <<version, kernelVars, tableVars, runVars, caller, m_shutdown, histVars>>

-----------------------------------------------------------------------------
Kernel ==
    \/ \E name \in {"file", "other"} : Change(name)
    \/ \E d \in DirId, result \in {"hit", "miss"} : ReadCompletes(d, result)
    \/ \E d \in DirId : ReadFails(d)

WatchFile(w) ==
    \/ WatchShares(w)
    \/ \E d \in DirId, ok \in BOOLEAN : WatchOpens(w, d, ok)
    \/ WatchFails(w)

\* Run, apart from a wait that fails.
Run ==
    \/ RunTop
    \/ RunShutsDown
    \/ RunWakes
    \/ RunTimesOut
    \/ \E d \in DirId : RunDrains(d) \/ RunCollects(d)
    \/ \E d \in DirId : RunLogsError(d)
    \/ \E d \in DirId, ok \in BOOLEAN : Reissue(d, ok)
    \/ \E w \in WatchId : Callback(w)

Next ==
    \/ Kernel
    \/ \E w \in WatchId : WatchFile(w) \/ UnwatchQueues(w) \/ UnwatchWakes(w)
    \/ Run
    \/ WaitFails
    \/ DeadlinePasses
    \/ StoreShutdown \/ WakeToEnd \/ Join

(***************************************************************************)
(* Fairness: the thread keeps running and time passes; the kernel          *)
(* completes a read that has records (only the active directory has one    *)
(* outstanding); an Unwatch and a destructor that have begun go on, and    *)
(* there are finitely many.  The port is a FIFO.                           *)
(***************************************************************************)
Fairness ==
    /\ WF_vars(Run)
    /\ WF_vars(\E d \in DirId, result \in {"hit", "miss"} : ReadCompletes(d, result))
    /\ WF_vars(DeadlinePasses)
    /\ WF_vars(WakeToEnd \/ Join \/ \E w \in WatchId : UnwatchWakes(w))

Spec == Init /\ [][Next]_vars
FairSpec == Spec /\ Fairness

-----------------------------------------------------------------------------
(* Safety.                                                                 *)

\* The comment on m_draining: a directory watcher stays alive until the system
\* is finished with its buffer and handle.  While a read is outstanding or its
\* completion is queued, m_dirWatchers or m_draining holds the watcher.
BufferOutlivesRead ==
    \A d \in DirId :
        io[d] \in {"pending"} \cup Completed => d \in m_dirWatchers \cup m_draining

\* The same comment: a draining directory watcher is waiting for the final
\* completion.  One is queued: otherwise Run would wait for ever.
DrainingIsAwaited == \A d \in m_draining : io[d] \in Completed

-----------------------------------------------------------------------------
(* Liveness.                                                               *)

\* A change that a watching user has not read is called back, also by a
\* directory watcher that was opened while another drained, unless the watch
\* goes first, or a call or a read failed.
ChangeIsReported ==
    \A w \in WatchId :
        caller[w] = "watching" /\ seen[w] # version
          ~> caller[w] # "watching" \/ seen[w] = version \/ owner # "alive"
             \/ refused + errors > 0

\* CloseWatch wakes Run: the watch is taken out.
UnwatchTakesEffect == \A w \in WatchId : caller[w] = "done" ~> w \notin m_watchLocations

\* Every directory that drains at the end gets its completion, and one that
\* could not be read again is not waited for: join() returns, unless a read
\* completed with an error (DrainingIsAwaited says what happens then).
DestructorReturns == owner # "alive" ~> owner = "gone" \/ errors > 0

-----------------------------------------------------------------------------
(* Refinement.                                                             *)

\* Where the user of each watch is, as FileWatch has it.
UserStates ==
    [w \in WatchId |->
        CASE caller[w] = "watching"   -> "watching"
          [] caller[w] = "unwatching" -> "leaving"
          [] caller[w] = "done"       -> "left"
          [] caller[w] = "failed"     -> "failed"
          [] OTHER                    -> "none"]

Alive == owner # "gone"

Watcher == INSTANCE FileWatch WITH
    Watch <- WatchId, content <- version, watch <- UserStates, alive <- Alive

\* WatchFile, Unwatch, Run and the destructor keep FileWatch's promise.  In
\* particular Unwatch is asynchronous, and a callback may be under way when it
\* returns, but Run takes the watch out before it waits again: one callback at
\* most comes after Unwatch has returned, and none after the destructor has.
ImplementsFileWatch == Watcher!Spec
=============================================================================
