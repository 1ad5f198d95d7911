-------------------------- MODULE KqueueFileWatcher --------------------------
(***************************************************************************)
(* util/KqueueFileWatcher.{h,cc}: callbacks when a file changes, on a      *)
(* kernel with kqueue.                                                     *)
(*                                                                         *)
(* All watches here are on one path.  A watch keeps a descriptor on the    *)
(* directory and, while it has one, on the file; the kernel remembers what *)
(* happened to each since the last kevent().  One thread (Run) collects    *)
(* those events, follows the path to a new file when the old one is        *)
(* unlinked or renamed, and calls the callbacks of the watches that saw a  *)
(* change at the end of a coalescing window.  WatchFile, Unwatch and the   *)
(* destructor are called on other threads; the file system acts between    *)
(* any two system calls.                                                   *)
(***************************************************************************)
EXTENDS Naturals, FiniteSets

CONSTANTS
    WatchId,              \* the calls of WatchFile
    kBatch,               \* the most events one kevent() returns
    MaxChanges,           \* bound: contents the path ever has
    MaxUpsets             \* bound: touches, moves and arm failures, together

ASSUME WatcherAssumption ==
    /\ {kBatch, MaxChanges, MaxUpsets} \subseteq Nat
    /\ kBatch > 0 /\ MaxChanges > 0
    /\ "free" \notin WatchId

VARIABLES
    version,     \* which of its contents the path has (had, when deleted)
    inode,       \* the file at the path, 0 when there is none
    touches,     \* how often an armed file was touched, the path's content kept
    dir,         \* the directory at the path's parent, 0 when there is none
    moves,       \* how often a directory there was moved away or removed
    m_watches,   \* the ids in m_watches
    fileFd,      \* the file a watch has open, 0 when fileFd is -1
    dirFd,       \* the directory a watch has open, 0 when dirFd is -1
    fileNotes,   \* kernel: what happened to that file, not collected yet
    dirNote,     \* kernel: something happened in the directory
    woken,       \* kernel: the wake event is triggered
    m_pendingUnwatches,
    m_shutdown,
    m_mutex,     \* "free", or the watch its holder is working on
    armFd,       \* the file the holder has opened and is about to arm
    armFailures, \* history: EV_ADD calls that failed
    missed,      \* history: watches whose file had left the path before EV_ADD
    pc,          \* where Run is
    events,      \* the events Run has collected and not handled
    dirty,       \* Run's dirty
    deadline,    \* Run's deadline: "none", "set" or "passed"
    calling,     \* the callbacks FireDirty has still to call
    caller,      \* where the user of each watch is
    owner,       \* where the watcher's destructor is
    seen,        \* history: the version each user read last, 0 after Unwatch
    fired,       \* history: version + touches when WatchFile began, plus callbacks
    late         \* history: callbacks called after Unwatch returned

fsVars     == <<version, inode, touches, dir, moves>>
kernelVars == <<fileNotes, dirNote, woken>>
tableVars  == <<m_watches, fileFd, dirFd, m_pendingUnwatches>>
lockVars   == <<m_mutex, armFd, armFailures, missed>>
runVars    == <<pc, events, dirty, deadline, calling>>
userVars   == <<caller, owner, m_shutdown>>
histVars   == <<seen, fired, late>>
vars == <<fsVars, kernelVars, tableVars, lockVars, runVars, userVars, histVars>>

-----------------------------------------------------------------------------
Event == [watch : WatchId, fd : {"file", "dir"}, gone : BOOLEAN]
           \cup [fd : {"wake"}]

Callers == {"new", "opened", "arming", "watching", "unwatching", "done", "failed"}

TypeOK ==
    /\ version \in 0..MaxChanges
    /\ inode \in 0..MaxChanges
    /\ touches \in 0..MaxUpsets
    /\ dir \in 0..(MaxUpsets + 1)
    /\ moves \in 0..MaxUpsets
    /\ m_watches \subseteq WatchId
    /\ fileFd \in [WatchId -> 0..MaxChanges]
    /\ dirFd \in [WatchId -> 0..(MaxUpsets + 1)]
    /\ fileNotes \in [WatchId -> SUBSET {"gone", "write"}]
    /\ dirNote \in [WatchId -> BOOLEAN]
    /\ woken \in BOOLEAN
    /\ m_pendingUnwatches \subseteq WatchId
    /\ m_shutdown \in BOOLEAN
    /\ m_mutex \in {"free"} \cup WatchId
    /\ armFd \in 0..MaxChanges
    /\ armFailures \in 0..MaxUpsets
    /\ missed \subseteq WatchId
    /\ pc \in {"top", "kevent", "handle", "arm", "call", "ended"}
    /\ events \subseteq Event
    /\ dirty \subseteq WatchId
    /\ deadline \in {"none", "set", "passed"}
    /\ calling \subseteq WatchId
    /\ caller \in [WatchId -> Callers]
    /\ owner \in {"alive", "waking", "joining", "gone"}
    /\ seen \in [WatchId -> 0..MaxChanges]
    /\ fired \in [WatchId -> 0..(MaxChanges + MaxUpsets)]
    /\ late \in [WatchId -> 0..(MaxChanges + MaxUpsets)]

\* Create() has started the thread; the path is in its first directory and has
\* its first content, or none.
Init ==
    /\ version \in {0, 1}
    /\ inode = version
    /\ touches = 0
    /\ dir = 1 /\ moves = 0
    /\ m_watches = {}
    /\ fileFd = [w \in WatchId |-> 0]
    /\ dirFd = [w \in WatchId |-> 0]
    /\ fileNotes = [w \in WatchId |-> {}]
    /\ dirNote = [w \in WatchId |-> FALSE]
    /\ woken = FALSE
    /\ m_pendingUnwatches = {}
    /\ m_shutdown = FALSE
    /\ m_mutex = "free"
    /\ armFd = 0
    /\ armFailures = 0
    /\ missed = {}
    /\ pc = "top"
    /\ events = {}
    /\ dirty = {}
    /\ deadline = "none"
    /\ calling = {}
    /\ caller = [w \in WatchId |-> "new"]
    /\ owner = "alive"
    /\ seen = [w \in WatchId |-> 0]
    /\ fired = [w \in WatchId |-> 0]
    /\ late = [w \in WatchId |-> 0]

-----------------------------------------------------------------------------
(* The file system, and what the kernel notes of it (external).            *)

\* The kernel adds note to the watches that have file f armed, and notes the
\* change of directory d for those that have it armed; 0 is none.
Notes(f, note, d) ==
    /\ fileNotes' = [w \in WatchId |->
           IF f # 0 /\ fileFd[w] = f THEN fileNotes[w] \cup {note} ELSE fileNotes[w]]
    /\ dirNote' = [w \in WatchId |->
           dirNote[w] \/ (d # 0 /\ w \in m_watches /\ dirFd[w] = d)]
    /\ UNCHANGED <<woken, tableVars, lockVars, runVars, userVars, histVars>>

\* The file system acts between any two system calls; once the watcher is gone
\* it is nobody's concern.
MayAct == owner # "gone"

\* One more touch, move or failure is within the bound.
MayUpset == touches + moves + armFailures < MaxUpsets

\* An editor writes the file in place.
Write ==
    /\ MayAct
    /\ inode # 0 /\ version < MaxChanges
    /\ version' = version + 1
    /\ UNCHANGED <<inode, touches, dir, moves>>
    /\ Notes(inode, "write", 0)

\* The path gets a new file: created, or renamed over an old one.
Replace ==
    /\ MayAct
    /\ dir # 0 /\ version < MaxChanges
    /\ version' = version + 1
    /\ inode' = version + 1
    /\ UNCHANGED <<touches, dir, moves>>
    /\ Notes(inode, "gone", dir)

\* The file is unlinked or renamed away.
Remove ==
    /\ MayAct
    /\ inode # 0
    /\ inode' = 0
    /\ UNCHANGED <<version, touches, dir, moves>>
    /\ Notes(inode, "gone", dir)

\* An armed file is touched, and the path gets no new content: its attributes
\* change (NOTE_ATTRIB is noted as a write is), or it is one that has left the
\* path, and is written, renamed again or unlinked.
Touch(f, note) ==
    /\ MayAct
    /\ MayUpset
    /\ note = "gone" => f # inode
    /\ touches' = touches + 1
    /\ UNCHANGED <<version, inode, dir, moves>>
    /\ Notes(f, note, 0)

\* The directory is renamed away, or removed: the path has no file any more.
\* The kernel notes it of the directory, not of the file that went with it.
MoveDir ==
    /\ MayAct
    /\ MayUpset
    /\ dir # 0
    /\ dir' = 0 /\ inode' = 0
    /\ moves' = moves + 1
    /\ UNCHANGED <<version, touches>>
    /\ Notes(0, "gone", dir)

\* There is a directory at the path's parent again, another one and empty.
MakeDir ==
    /\ MayAct
    /\ dir = 0
    /\ dir' = moves + 1
    /\ UNCHANGED <<version, inode, touches, moves>>
    /\ Notes(0, "gone", 0)

\* Something else happens in, or to, the directory that w has armed.
ChangeOther(w) ==
    /\ MayAct
    /\ w \in m_watches /\ ~dirNote[w]
    /\ UNCHANGED fsVars
    /\ Notes(0, "write", dirFd[w])

-----------------------------------------------------------------------------
(* TryOpenAndArmFile, called with the mutex held.                          *)

\* open(): the holder has the path's file open, or there is none.  fileFd is
\* then that file, but the kernel notes nothing of it before ArmFile.
OpenFile(w) == m_mutex' = w /\ armFd' = inode /\ UNCHANGED <<armFailures, missed>>

\* kevent(EV_ADD) succeeds or, within the bound, fails.
EvAdd(ok) ==
    /\ ok \/ MayUpset
    /\ armFailures' = IF ok THEN armFailures ELSE armFailures + 1

\* ArmFile: EV_ADD, from which the kernel notes what happens to the file: not
\* that it has left the path already.  On failure the descriptor is closed again.
ArmFile(w, ok) ==
    /\ EvAdd(ok)
    /\ m_mutex' = "free"
    /\ armFd' = 0
    /\ fileFd' = [fileFd EXCEPT ![w] = IF ok THEN armFd ELSE 0]
    /\ fileNotes' = [fileNotes EXCEPT ![w] = {}]
    /\ missed' = IF ok /\ armFd # inode THEN missed \cup {w} ELSE missed \ {w}

-----------------------------------------------------------------------------
(* WatchFile, in the thread of w's user.                                   *)

\* open() of the directory; the id is taken from m_nextWatchId.
WatchOpensDir(w, ok) ==
    /\ caller[w] = "new"
    /\ owner = "alive"
    /\ ok => dir # 0
    /\ caller' = [caller EXCEPT ![w] = IF ok THEN "opened" ELSE "failed"]
    /\ dirFd' = [dirFd EXCEPT ![w] = IF ok THEN dir ELSE 0]
    /\ fired' = [fired EXCEPT ![w] = IF ok THEN version + touches ELSE 0]
    /\ UNCHANGED <<fsVars, kernelVars, m_watches, fileFd, m_pendingUnwatches, lockVars, runVars, owner, m_shutdown, seen, late>>

\* Under the mutex: m_watches.emplace and ArmDir, which may fail.
WatchArmsDir(w, ok) ==
    /\ caller[w] = "opened"
    /\ m_mutex = "free"
    /\ EvAdd(ok)
    /\ IF ok THEN /\ m_watches' = m_watches \cup {w}
                  /\ caller' = [caller EXCEPT ![w] = "arming"]
                  /\ m_mutex' = w
                  /\ UNCHANGED dirFd
             ELSE /\ caller' = [caller EXCEPT ![w] = "failed"]
                  /\ dirFd' = [dirFd EXCEPT ![w] = 0]
                  /\ UNCHANGED <<m_watches, m_mutex>>
    /\ UNCHANGED <<fsVars, kernelVars, fileFd, m_pendingUnwatches, armFd, missed, runVars, owner, m_shutdown, histVars>>

\* WatchFile returns the handle; its user reads the file after that.
WatchReturns(w) ==
    /\ caller' = [caller EXCEPT ![w] = "watching"]
    /\ seen' = [seen EXCEPT ![w] = version]
    /\ UNCHANGED <<fsVars, dirNote, woken, m_watches, dirFd, m_pendingUnwatches, runVars, owner, m_shutdown, fired, late>>

\* TryOpenAndArmFile: open().  It is all right if there is no file yet.
WatchOpensFile(w) ==
    /\ caller[w] = "arming" /\ m_mutex = w /\ armFd = 0
    /\ IF inode = 0
         THEN /\ m_mutex' = "free"
              /\ WatchReturns(w)
              /\ UNCHANGED <<armFd, armFailures, missed, fileFd, fileNotes>>
         ELSE /\ OpenFile(w)
              /\ UNCHANGED <<fsVars, kernelVars, tableVars, runVars, userVars, histVars>>

WatchArmsFile(w, ok) ==
    /\ caller[w] = "arming" /\ m_mutex = w /\ armFd # 0
    /\ ArmFile(w, ok)
    /\ WatchReturns(w)

\* Unwatch, or the destructor of the handle: CloseWatch queues the id, and
\* then wakes Run.
UnwatchQueues(w) ==
    /\ caller[w] = "watching"
    /\ owner = "alive"
    /\ m_mutex = "free"
    /\ caller' = [caller EXCEPT ![w] = "unwatching"]
    /\ m_pendingUnwatches' = m_pendingUnwatches \cup {w}
    /\ seen' = [seen EXCEPT ![w] = 0]
    /\ UNCHANGED <<fsVars, kernelVars, m_watches, fileFd, dirFd, lockVars, runVars, owner, m_shutdown, fired, late>>

\* Mutant of UnwatchWakes: CloseWatch does not call Wake.
UnwatchWakesNobody(w) ==
    /\ caller[w] = "unwatching"
    /\ caller' = [caller EXCEPT ![w] = "done"]
    /\ UNCHANGED <<fsVars, kernelVars, tableVars, lockVars, runVars, owner, m_shutdown, histVars>>

UnwatchWakes(w) ==
    /\ caller[w] = "unwatching"
    /\ caller' = [caller EXCEPT ![w] = "done"]
    /\ woken' = TRUE
    /\ UNCHANGED <<fsVars, fileNotes, dirNote, tableVars, lockVars, runVars, owner, m_shutdown, histVars>>

-----------------------------------------------------------------------------
(* Run.                                                                    *)

\* DisarmWatch of the watches in W: their descriptors are closed, and what the
\* kernel had noted of them is gone.
DisarmWatches(W) ==
    /\ fileFd' = [w \in WatchId |-> IF w \in W THEN 0 ELSE fileFd[w]]
    /\ dirFd' = [w \in WatchId |-> IF w \in W THEN 0 ELSE dirFd[w]]
    /\ fileNotes' = [w \in WatchId |-> IF w \in W THEN {} ELSE fileNotes[w]]
    /\ dirNote' = [w \in WatchId |-> dirNote[w] /\ w \notin W]
    /\ m_watches' = m_watches \ W

\* Mutant of RunTop: the pending unwatches are cleared, not carried out.
RunTopForgets ==
    /\ pc = "top"
    /\ m_mutex = "free"
    /\ pc' = IF m_shutdown THEN "ended" ELSE "kevent"
    /\ m_pendingUnwatches' = {}
    /\ UNCHANGED <<fsVars, kernelVars, m_watches, fileFd, dirFd, lockVars, events, dirty, deadline, calling, userVars, histVars>>

\* The head of the loop: stop, and with Run go its locals dirty and deadline;
\* or handle the pending unwatches.
RunTop ==
    /\ pc = "top"
    /\ IF m_shutdown
         THEN /\ pc' = "ended"
              /\ dirty' = {}
              /\ deadline' = "none"
              /\ UNCHANGED <<tableVars, fileNotes, dirNote>>
         ELSE /\ m_mutex = "free"
              /\ DisarmWatches(m_pendingUnwatches)
              /\ m_pendingUnwatches' = {}
              /\ pc' = "kevent"
              /\ UNCHANGED <<dirty, deadline>>
    /\ UNCHANGED <<fsVars, woken, lockVars, events, calling, userVars, histVars>>

FileEvent(w) == [watch |-> w, fd |-> "file", gone |-> "gone" \in fileNotes[w]]
DirEvent(w)  == [watch |-> w, fd |-> "dir", gone |-> FALSE]
WakeEvent    == [fd |-> "wake"]

\* The events the kernel has for a kevent() call.
Ready ==
    {FileEvent(w) : w \in {x \in WatchId : fileNotes[x] # {}}}
      \cup {DirEvent(w) : w \in {x \in WatchId : dirNote[x]}}
      \cup (IF woken THEN {WakeEvent} ELSE {})

\* kevent() returns events, at most kBatch of them, and clears them (EV_CLEAR);
\* or the time until the deadline has passed.
KeventReturns ==
    /\ pc = "kevent"
    /\ Ready # {} \/ deadline = "passed"
    /\ \E E \in SUBSET Ready :
          /\ Cardinality(E) <= kBatch
          /\ E = Ready \/ Cardinality(E) = kBatch
          /\ events' = E
          /\ fileNotes' = [w \in WatchId |-> IF FileEvent(w) \in E THEN {} ELSE fileNotes[w]]
          /\ dirNote' = [w \in WatchId |-> dirNote[w] /\ DirEvent(w) \notin E]
          /\ woken' = (woken /\ WakeEvent \notin E)
    /\ pc' = "handle"
    /\ UNCHANGED <<fsVars, tableVars, lockVars, dirty, deadline, calling, userVars, histVars>>

\* kevent() fails, with EINTR or otherwise.
KeventFails ==
    /\ pc = "kevent"
    /\ pc' = "top"
    /\ UNCHANGED <<fsVars, kernelVars, tableVars, lockVars, events, dirty, deadline, calling, userVars, histVars>>

\* changed is true: the watch is dirty, and the first one sets the deadline.
MarkDirty(w) ==
    /\ dirty' = dirty \cup {w}
    /\ deadline' = IF deadline = "none" THEN "set" ELSE deadline

\* TryOpenAndArmFile up to the open: without a file it returns false.
RunOpens(w) ==
    /\ IF inode = 0 THEN UNCHANGED <<lockVars, pc>>
                    ELSE OpenFile(w) /\ pc' = "arm"
    /\ UNCHANGED <<dirty, deadline>>

\* Mutants of HandleFileEvent: the end of the file is taken for a write; a file
\* that is gone is a change, though there may be no new one yet.
HandleFileEventKeepsFd(e) ==
    /\ MarkDirty(e.watch)
    /\ UNCHANGED <<fileFd, fileNotes, lockVars, pc>>

HandleFileEventFires(e) ==
    /\ MarkDirty(e.watch)
    /\ fileFd' = IF e.gone THEN [fileFd EXCEPT ![e.watch] = 0] ELSE fileFd
    /\ fileNotes' = IF e.gone THEN [fileNotes EXCEPT ![e.watch] = {}] ELSE fileNotes
    /\ IF e.gone /\ inode # 0 THEN OpenFile(e.watch) /\ pc' = "arm" ELSE UNCHANGED <<lockVars, pc>>

\* HandleFileEvent.
HandleFileEvent(e) ==
    IF e.gone
      THEN /\ fileFd' = [fileFd EXCEPT ![e.watch] = 0]
           /\ fileNotes' = [fileNotes EXCEPT ![e.watch] = {}]
           /\ RunOpens(e.watch)
      ELSE /\ MarkDirty(e.watch)
           /\ UNCHANGED <<fileFd, fileNotes, lockVars, pc>>

\* Mutants of HandleDirEvent: it changes a live watch; it ignores the path.
HandleDirEventFires(e) ==
    /\ IF fileFd[e.watch] = 0 THEN RunOpens(e.watch) ELSE MarkDirty(e.watch) /\ UNCHANGED <<lockVars, pc>>
    /\ UNCHANGED <<fileFd, fileNotes>>

HandleDirEventIgnores(e) == UNCHANGED <<fileFd, fileNotes, lockVars, pc, dirty, deadline>>

\* HandleDirEvent.
HandleDirEvent(e) ==
    /\ IF fileFd[e.watch] = 0
         THEN RunOpens(e.watch)
         ELSE UNCHANGED <<lockVars, pc, dirty, deadline>>
    /\ UNCHANGED <<fileFd, fileNotes>>

\* The loop over the events: one event.  An event of a watch that is no longer
\* there, or of a descriptor it no longer has, is ignored.
HandleEvent(e) ==
    /\ pc = "handle" /\ e \in events
    /\ events' = events \ {e}
    /\ IF e = WakeEvent
         THEN UNCHANGED <<fileFd, fileNotes, lockVars, pc, dirty, deadline>>
         ELSE /\ m_mutex = "free"
              /\ CASE e.watch \in m_watches /\ e.fd = "file" /\ fileFd[e.watch] # 0 -> HandleFileEvent(e)
                   [] e.watch \in m_watches /\ e.fd = "dir" -> HandleDirEvent(e)
                   [] OTHER -> UNCHANGED <<fileFd, fileNotes, lockVars, pc, dirty, deadline>>
    /\ UNCHANGED <<fsVars, dirNote, woken, m_watches, dirFd, m_pendingUnwatches, calling, userVars, histVars>>

\* TryOpenAndArmFile, the arming: the watch has changed if it succeeds.
RunArms(ok) ==
    /\ pc = "arm"
    /\ pc' = "handle"
    /\ ArmFile(m_mutex, ok)
    /\ IF ok THEN MarkDirty(m_mutex) ELSE UNCHANGED <<dirty, deadline>>
    /\ UNCHANGED <<fsVars, dirNote, woken, m_watches, dirFd, m_pendingUnwatches, events, calling, userVars, histVars>>

\* The end of the loop: FireDirty once the deadline has passed, which copies
\* the callbacks of the dirty watches under the mutex.
EndOfBatch ==
    /\ pc = "handle" /\ events = {}
    /\ IF deadline = "passed"
         THEN /\ m_mutex = "free"
              /\ calling' = dirty \cap m_watches
              /\ dirty' = {}
              /\ deadline' = "none"
              /\ pc' = "call"
         ELSE /\ pc' = "top"
              /\ UNCHANGED <<dirty, deadline, calling>>
    /\ UNCHANGED <<fsVars, kernelVars, tableVars, lockVars, events, userVars, histVars>>

\* FireDirty calls a callback, which reads the file.
Callback(w) ==
    /\ pc = "call" /\ w \in calling
    /\ calling' = calling \ {w}
    /\ seen' = [seen EXCEPT ![w] = IF caller[w] = "watching" THEN version ELSE @]
    /\ fired' = [fired EXCEPT ![w] = @ + 1]
    /\ late' = [late EXCEPT ![w] = IF caller[w] = "done" THEN @ + 1 ELSE @]
    /\ UNCHANGED <<fsVars, kernelVars, tableVars, lockVars, pc, events, dirty, deadline, userVars>>

CallbacksEnd ==
    /\ pc = "call" /\ calling = {}
    /\ pc' = "top"
    /\ UNCHANGED <<fsVars, kernelVars, tableVars, lockVars, events, dirty, deadline, calling, userVars, histVars>>

\* The clock.
DeadlinePasses ==
    /\ deadline = "set"
    /\ deadline' = "passed"
    /\ UNCHANGED <<fsVars, kernelVars, tableVars, lockVars, pc, events, dirty, calling, userVars, histVars>>

-----------------------------------------------------------------------------
(* ~KqueueFileWatcher.  A call of WatchFile or Unwatch holds a reference.  *)

StoreShutdown ==
    /\ owner = "alive"
    /\ \A w \in WatchId : caller[w] \notin {"opened", "arming", "unwatching"}
    /\ owner' = "waking"
    /\ m_shutdown' = TRUE
    /\ UNCHANGED <<fsVars, kernelVars, tableVars, lockVars, runVars, caller, histVars>>

\* Mutant of WakeToEnd: the destructor does not wake Run.
WakeToEndSilently ==
    /\ owner = "waking"
    /\ owner' = "joining"
    /\ UNCHANGED <<fsVars, kernelVars, tableVars, lockVars, runVars, caller, m_shutdown, histVars>>

WakeToEnd ==
    /\ owner = "waking"
    /\ owner' = "joining"
    /\ woken' = TRUE
    /\ UNCHANGED <<fsVars, fileNotes, dirNote, tableVars, lockVars, runVars, caller, m_shutdown, histVars>>

\* join() returns; every watch is disarmed and the kqueue closed.
Join ==
    /\ owner = "joining" /\ pc = "ended"
    /\ owner' = "gone"
    /\ DisarmWatches(m_watches)
    /\ woken' = FALSE
    /\ UNCHANGED <<fsVars, m_pendingUnwatches, lockVars, runVars, caller, m_shutdown, histVars>>

-----------------------------------------------------------------------------
FileSystem ==
    \/ Write \/ Replace \/ Remove \/ MoveDir \/ MakeDir
    \/ \E w \in WatchId :
          ChangeOther(w) \/ \E note \in {"gone", "write"} : fileFd[w] # 0 /\ Touch(fileFd[w], note)

WatchFile(w) ==
    \/ \E ok \in BOOLEAN : WatchOpensDir(w, ok) \/ WatchArmsDir(w, ok) \/ WatchArmsFile(w, ok)
    \/ WatchOpensFile(w)

Run ==
    \/ RunTop
    \/ KeventReturns
    \/ \E e \in events : HandleEvent(e)
    \/ \E ok \in BOOLEAN : RunArms(ok)
    \/ EndOfBatch
    \/ \E w \in WatchId : Callback(w)
    \/ CallbacksEnd

Destructor == StoreShutdown \/ WakeToEnd \/ Join

Next ==
    \/ FileSystem
    \/ \E w \in WatchId : WatchFile(w) \/ UnwatchQueues(w) \/ UnwatchWakes(w)
    \/ Run
    \/ KeventFails
    \/ DeadlinePasses
    \/ Destructor

(***************************************************************************)
(* Fairness: the thread keeps running and time passes; a call of WatchFile *)
(* or Unwatch and a destructor that have begun go on.  The mutex is held   *)
(* for a few system calls, never across a wait.  kevent() does not fail    *)
(* for ever: KeventReturns is strongly fair.  Nothing is assumed of the    *)
(* file system and nobody has to call anything.                            *)
(***************************************************************************)
Fairness ==
    /\ WF_vars(Run)
    /\ SF_vars(KeventReturns)
    /\ WF_vars(DeadlinePasses)
    /\ WF_vars(WakeToEnd \/ Join)
    /\ \A w \in WatchId : WF_vars(WatchFile(w) /\ caller[w] # "new") /\ WF_vars(UnwatchWakes(w))

Spec == Init /\ [][Next]_vars
FairSpec == Spec /\ Fairness

-----------------------------------------------------------------------------
(* Safety.                                                                 *)

\* Run has collected the event that w's file has gone.
GoneCollected(w) == [watch |-> w, fd |-> "file", gone |-> TRUE] \in events

\* HandleDirEvent: "We've got a live fd on the current inode", or the file fd
\* will tell: a watch that has a file armed has the one at the path, or an
\* event that sends it there is noted or collected.
LiveFdIsCurrent ==
    \A w \in m_watches : fileFd[w] \in {0, inode} \/ "gone" \in fileNotes[w] \/ GoneCollected(w)

\* HandleDirEvent's "live fd on the current inode" is wrong in two ways only.
\* The file left the path between open and EV_ADD, so that the kernel has
\* nothing to tell of it; or the directory itself did, which HandleDirEvent does
\* not look for.  Whatever else happens to the path, a watch that has a file
\* armed has the current one, or is about to be told.
StaleOnlyIfUntold ==
    \A w \in m_watches :
        fileFd[w] \in {0, inode} \/ "gone" \in fileNotes[w] \/ GoneCollected(w)
          \/ w \in missed \/ dirFd[w] # dir

\* A replace gives an event on the file and one on the directory, and the file
\* is opened anew: coalesced or not, a watch is called back no more often than
\* the path got new contents, or a file it had armed was touched, since
\* WatchFile began.  (An arming that failed costs one more: the watch finds the
\* same file again.)
NoCallbackWithoutChange == \A w \in WatchId : fired[w] <= version + touches + armFailures

-----------------------------------------------------------------------------
(* Liveness.                                                               *)

\* A watcher recovers from replaces, removals and re-creations in any order: a
\* content that a watching user has not read is called back, unless the file
\* or the watch goes first, arming a file failed (the watch then waits for the
\* next event of the directory), or the watch is left behind as
\* StaleOnlyIfUntold says.
ChangeIsReported ==
    \A w \in WatchId :
        caller[w] = "watching" /\ inode # 0 /\ seen[w] # version
          ~> caller[w] # "watching" \/ inode = 0 \/ seen[w] = version
             \/ owner # "alive" \/ armFailures > 0
             \/ (fileFd[w] # 0 /\ w \in missed) \/ dirFd[w] # dir

\* CloseWatch wakes Run, however long it was to wait: the watch is taken out.
UnwatchTakesEffect ==
    \A w \in WatchId : caller[w] = "done" ~> w \notin m_watches

\* The destructor stores m_shutdown before it wakes Run, so Run sees it: join()
\* returns.
DestructorReturns == owner # "alive" ~> owner = "gone"

-----------------------------------------------------------------------------
(* Refinement.                                                             *)

\* Where the user of each watch is, as FileWatch has it.
UserStates ==
    [w \in WatchId |->
        CASE caller[w] = "watching"   -> "watching"
          [] caller[w] = "unwatching" -> "leaving"
          [] caller[w] = "done"       -> "left"
          [] caller[w] = "failed"     -> "failed"
          [] OTHER                    -> "none"]

Alive == owner # "gone"

Watcher == INSTANCE FileWatch WITH
    Watch <- WatchId, content <- version, watch <- UserStates, alive <- Alive

\* WatchFile, Unwatch, Run and the destructor keep FileWatch's promise.  In
\* particular Unwatch is asynchronous, and a callback may be under way when it
\* returns, but Run takes the watch out before it waits again: one callback at
\* most comes after Unwatch has returned, and none after the destructor has.
ImplementsFileWatch == Watcher!Spec
=============================================================================
