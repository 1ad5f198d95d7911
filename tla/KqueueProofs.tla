----------------------------- MODULE KqueueProofs -----------------------------
(***************************************************************************)
(* Proofs about KqueueFileWatcher, for any number of watches, of contents  *)
(* of the path, of touches, moves of the directory and armings that fail,  *)
(* and any size of a batch.                                                *)
(***************************************************************************)
EXTENDS KqueueFileWatcher, TLAPS

-----------------------------------------------------------------------------
(* The inductive invariant.                                                *)

\* WatchFile has returned a handle for w.
Returned(w) == caller[w] \in {"watching", "unwatching", "done"}

\* Run has collected that w's file was written.
WriteCollected(w) == [watch |-> w, fd |-> "file", gone |-> FALSE] \in events

\* The types, apart from dirFd's (DirInv) and the bounds of fired and late, which
\* need Credit.
TypesOK ==
    /\ version \in 0..MaxChanges
    /\ inode \in 0..MaxChanges
    /\ touches \in Nat /\ moves \in Nat /\ armFailures \in Nat
    /\ touches + moves + armFailures <= MaxUpsets
    /\ dir \in {0, moves + 1}
    /\ m_watches \subseteq WatchId
    /\ fileFd \in [WatchId -> 0..MaxChanges]
    /\ fileNotes \in [WatchId -> SUBSET {"gone", "write"}]
    /\ dirNote \in [WatchId -> BOOLEAN]
    /\ woken \in BOOLEAN
    /\ m_pendingUnwatches \subseteq WatchId
    /\ m_shutdown \in BOOLEAN
    /\ m_mutex \in {"free"} \cup WatchId
    /\ armFd \in 0..MaxChanges
    /\ missed \subseteq WatchId
    /\ pc \in {"top", "kevent", "handle", "arm", "call", "ended"}
    /\ events \subseteq Event
    /\ dirty \subseteq WatchId
    /\ deadline \in {"none", "set", "passed"}
    /\ calling \subseteq WatchId
    /\ caller \in [WatchId -> Callers]
    /\ owner \in {"alive", "waking", "joining", "gone"}
    /\ seen \in [WatchId -> 0..MaxChanges]
    /\ fired \in [WatchId -> Nat]
    /\ late \in [WatchId -> Nat]

\* A watch has a directory open, the one at the path or an earlier one.
DirAt(w) ==
    /\ dirFd[w] <= moves \/ dirFd[w] = dir
    /\ w \in m_watches \/ caller[w] = "opened" => dirFd[w] # 0
    /\ caller[w] \in {"new", "opened"} => w \notin m_watches \cup m_pendingUnwatches

DirInv == dirFd \in [WatchId -> Nat] /\ \A w \in WatchId : DirAt(w)

\* The mutex is held by WatchFile or by Run, never by both; events are handled
\* before Run goes on, and callbacks called.
RunInv ==
    /\ pc = "arm" => /\ m_mutex \in WatchId /\ armFd # 0
                     /\ Returned(m_mutex) /\ fileFd[m_mutex] = 0
    /\ pc \notin {"handle", "arm"} => events = {}
    /\ calling # {} => pc = "call"
    /\ owner = "gone" => pc = "ended"

\* A dir event never says that the file has gone; a file event of w is one of a
\* descriptor that w still has, and the only one collected.
EventsAt(w) ==
    /\ [watch |-> w, fd |-> "dir", gone |-> TRUE] \notin events
    /\ fileNotes[w] # {} => fileFd[w] # 0
    /\ GoneCollected(w) \/ WriteCollected(w) => fileFd[w] # 0
    /\ ~(GoneCollected(w) /\ WriteCollected(w))

\* Only a watch whose WatchFile has returned has a descriptor, is dirty or is
\* called; WatchFile holds the mutex from ArmDir on.  Once unwatched the watch
\* is pending or taken out.
TablesAt(w) ==
    /\ ~Returned(w) => fileFd[w] = 0 /\ w \notin dirty \cup calling
    /\ w \in m_watches => Returned(w) \/ caller[w] = "arming"
    /\ caller[w] = "arming" => m_mutex = w
    /\ w \in m_watches /\ caller[w] \in {"unwatching", "done"} => w \in m_pendingUnwatches
    /\ owner # "alive" => caller[w] \notin {"opened", "arming", "unwatching"}

\* A watch that was called after Unwatch returned is not called again: Run
\* passes the head of the loop, where it takes the watch out, before it fires.
LateAt(w) ==
    /\ late[w] \in {0, 1} /\ late[w] <= fired[w]
    /\ late[w] = 1 => caller[w] = "done" /\ w \notin calling
    /\ late[w] = 1 /\ w \in m_watches => pc \in {"call", "top", "ended"}

One(condition) == IF condition THEN 1 ELSE 0

\* A write of w's file is noted and will be collected as such.
WriteNoted(w) == fileNotes[w] # {} /\ "gone" \notin fileNotes[w]

\* Run is about to arm the file that it has opened for w.
Arming(w) == pc = "arm" /\ m_mutex = w

\* w may still open the file at the path: it has none, or is told that its own
\* has gone.
MayOpen(w) ==
    /\ w \in m_watches /\ Returned(w) /\ inode # 0
    /\ fileFd[w] = 0 \/ "gone" \in fileNotes[w] \/ GoneCollected(w)
    /\ ~(Arming(w) /\ armFd = inode)

Calls(w)     == One(w \in calling)
Dirt(w)      == One(w \in dirty)
Noted(w)     == One(WriteNoted(w))
Collected(w) == One(WriteCollected(w))
Arms(w)      == One(Arming(w))
Opens(w)     == One(MayOpen(w))

\* The callbacks that w has had, and those that what is noted, collected, opened,
\* dirty or about to be called may still give it, are covered by the contents the
\* path has had and the armings that failed.
Credit(w) ==
    fired[w] + Calls(w) + Dirt(w) + Noted(w) + Collected(w) + Arms(w) + Opens(w)
      <= version + touches + armFailures

IInv ==
    /\ TypesOK
    /\ DirInv
    /\ RunInv
    /\ \A w \in WatchId : EventsAt(w) /\ TablesAt(w) /\ LateAt(w) /\ Credit(w)

-----------------------------------------------------------------------------
(* Lemmas.                                                                 *)

\* What an event is.
LEMMA EventIs ==
    ASSUME NEW e \in Event
    PROVE  \/ e = WakeEvent
           \/ /\ e # WakeEvent
              /\ e.watch \in WatchId /\ e.fd \in {"file", "dir"} /\ e.gone \in BOOLEAN
              /\ e = [watch |-> e.watch, fd |-> e.fd, gone |-> e.gone]
BY DEF Event, WakeEvent

\* The events of kevent() are events.
LEMMA ReadyIsEvents ==
    ASSUME TypesOK
    PROVE  Ready \subseteq Event
<1>1. \A w \in WatchId : FileEvent(w) \in Event /\ DirEvent(w) \in Event
  BY DEF FileEvent, DirEvent, Event
<1>2. WakeEvent \in Event
  BY DEF WakeEvent, Event
<1> QED
  BY <1>1, <1>2 DEF Ready

\* What Run may find an event to be.  It ignores a wake, an event of a watch
\* that is gone, and the event of a directory whose file is there or of one that
\* has none; a write makes the watch dirty; if the file has gone, or there was
\* none, it opens the one at the path, if any.
Ignored(e) ==
    /\ UNCHANGED <<fileFd, fileNotes, lockVars, pc, dirty, deadline>>
    /\ e # WakeEvent =>
          \/ e.watch \notin m_watches
          \/ e.fd = "file" /\ fileFd[e.watch] = 0
          \/ e.fd = "dir"

Wrote(e) ==
    /\ e.fd = "file" /\ ~e.gone
    /\ dirty' = dirty \cup {e.watch}
    /\ deadline' = IF deadline = "none" THEN "set" ELSE deadline
    /\ UNCHANGED <<fileFd, fileNotes, lockVars, pc>>

Lost(e) ==
    /\ e.fd = "file" /\ e.gone
    /\ fileFd' = [fileFd EXCEPT ![e.watch] = 0]
    /\ fileNotes' = [fileNotes EXCEPT ![e.watch] = {}]
    /\ inode = 0
    /\ UNCHANGED <<lockVars, pc, dirty, deadline>>

Opened(e) ==
    /\ \/ e.fd = "file" /\ e.gone
       \/ e.fd = "dir" /\ fileFd[e.watch] = 0
    /\ fileFd' = [fileFd EXCEPT ![e.watch] = 0]
    /\ fileNotes' = IF e.fd = "file" THEN [fileNotes EXCEPT ![e.watch] = {}] ELSE fileNotes
    /\ inode # 0 /\ m_mutex' = e.watch /\ armFd' = inode /\ pc' = "arm"
    /\ UNCHANGED <<armFailures, missed, dirty, deadline>>

\* HandleEvent does one of these.
LEMMA HandleEventDoes ==
    ASSUME TypesOK, NEW e \in events, HandleEvent(e)
    PROVE  /\ pc = "handle" /\ events' = events \ {e}
           /\ UNCHANGED <<fsVars, dirNote, woken, m_watches, m_pendingUnwatches, calling, userVars, histVars>>
           /\ \/ Ignored(e)
              \/ /\ e # WakeEvent /\ m_mutex = "free"
                 /\ e.watch \in m_watches
                 /\ e.fd = "file" => fileFd[e.watch] # 0
                 /\ Wrote(e) \/ Lost(e) \/ Opened(e)
<1>1. /\ pc = "handle" /\ events' = events \ {e}
      /\ UNCHANGED <<fsVars, dirNote, woken, m_watches, m_pendingUnwatches, calling, userVars, histVars>>
  BY DEF HandleEvent
<1>2. CASE e = WakeEvent
  BY <1>1, <1>2 DEF HandleEvent, Ignored
<1>3. CASE e # WakeEvent
  <2>0. /\ e.watch \in WatchId /\ e.fd \in {"file", "dir"} /\ e.gone \in BOOLEAN
        /\ m_mutex = "free"
    BY <1>3, EventIs DEF TypesOK, HandleEvent
  <2>1. CASE e.watch \in m_watches /\ e.fd = "file" /\ fileFd[e.watch] # 0
    <3>1. HandleFileEvent(e)
      BY <1>3, <2>1 DEF HandleEvent
    <3>2. CASE ~e.gone
      BY <1>1, <1>3, <2>0, <2>1, <3>1, <3>2 DEF HandleFileEvent, MarkDirty, Wrote
    <3>3. CASE e.gone /\ inode = 0
      BY <1>1, <1>3, <2>0, <2>1, <3>1, <3>3 DEF HandleFileEvent, RunOpens, Lost
    <3>4. CASE e.gone /\ inode # 0
      BY <1>1, <1>3, <2>0, <2>1, <3>1, <3>4 DEF HandleFileEvent, RunOpens, OpenFile, Opened
    <3> QED
      BY <2>0, <3>2, <3>3, <3>4
  <2>2. CASE e.watch \in m_watches /\ e.fd = "dir"
    <3>1. HandleDirEvent(e)
      BY <1>3, <2>2 DEF HandleEvent
    <3>2. CASE fileFd[e.watch] = 0 /\ inode # 0
      <4>1. fileFd' = [fileFd EXCEPT ![e.watch] = 0]
        BY <2>0, <3>1, <3>2 DEF HandleDirEvent, TypesOK
      <4> QED
        BY <1>1, <1>3, <2>0, <2>2, <3>1, <3>2, <4>1 DEF HandleDirEvent, RunOpens, OpenFile, Opened
    <3>3. CASE ~(fileFd[e.watch] = 0 /\ inode # 0)
      BY <1>1, <1>3, <2>0, <2>2, <3>1, <3>3 DEF HandleDirEvent, RunOpens, Ignored
    <3> QED
      BY <3>2, <3>3
  <2>3. CASE ~(e.watch \in m_watches /\ e.fd = "file" /\ fileFd[e.watch] # 0)
             /\ ~(e.watch \in m_watches /\ e.fd = "dir")
    <3>1. UNCHANGED <<fileFd, fileNotes, lockVars, pc, dirty, deadline>>
      BY <1>3, <2>3 DEF HandleEvent
    <3> QED
      BY <1>1, <2>0, <2>3, <3>1 DEF Ignored
  <2> QED
    BY <2>1, <2>2, <2>3
<1> QED
  BY <1>2, <1>3

-----------------------------------------------------------------------------
(* Types.                                                                  *)

\* What the kernel notes.
LEMMA NotesDo ==
    ASSUME TypesOK, NEW f, NEW note \in {"gone", "write"}, NEW d, Notes(f, note, d)
    PROVE  /\ fileNotes' \in [WatchId -> SUBSET {"gone", "write"}]
           /\ dirNote' \in [WatchId -> BOOLEAN]
           /\ UNCHANGED <<woken, tableVars, lockVars, runVars, userVars, histVars>>
           /\ \A w \in WatchId :
                 /\ fileNotes'[w] \in {fileNotes[w], fileNotes[w] \cup {note}}
                 /\ fileNotes'[w] # fileNotes[w] => f # 0 /\ fileFd[w] = f
                 /\ f # 0 /\ fileFd[w] = f => note \in fileNotes'[w]
<1>1. fileNotes' \in [WatchId -> SUBSET {"gone", "write"}]
  BY DEF Notes, TypesOK
<1>2. dirNote' \in [WatchId -> BOOLEAN]
  BY DEF Notes, TypesOK
<1>3. \A w \in WatchId :
         fileNotes'[w] = IF f # 0 /\ fileFd[w] = f THEN fileNotes[w] \cup {note} ELSE fileNotes[w]
  BY DEF Notes
<1>4. UNCHANGED <<woken, tableVars, lockVars, runVars, userVars, histVars>>
  BY DEF Notes
<1> QED
  BY <1>1, <1>2, <1>3, <1>4

\* A step of the file system is one of these.
LEMMA FileSystemIs ==
    ASSUME FileSystem
    PROVE  \/ Write \/ Replace \/ Remove \/ MoveDir \/ MakeDir
           \/ \E w \in WatchId : ChangeOther(w)
           \/ \E w \in WatchId, note \in {"gone", "write"} : fileFd[w] # 0 /\ Touch(fileFd[w], note)
BY Zenon DEF FileSystem

\* Whatever it does, the kernel notes it.
LEMMA FileSystemNotes ==
    ASSUME FileSystem
    PROVE  owner # "gone" /\ \E f, d : \E note \in {"gone", "write"} : Notes(f, note, d)
<1>1. CASE Write
  BY <1>1 DEF Write, MayAct
<1>2. CASE Replace
  BY <1>2 DEF Replace, MayAct
<1>3. CASE Remove
  BY <1>3 DEF Remove, MayAct
<1>4. CASE MoveDir
  BY <1>4 DEF MoveDir, MayAct
<1>5. CASE MakeDir
  BY <1>5 DEF MakeDir, MayAct
<1>6. ASSUME NEW w \in WatchId, ChangeOther(w)
      PROVE  owner # "gone" /\ \E f, d : \E note \in {"gone", "write"} : Notes(f, note, d)
  BY <1>6 DEF ChangeOther, MayAct
<1>7. ASSUME NEW w \in WatchId, NEW note \in {"gone", "write"}, Touch(fileFd[w], note)
      PROVE  owner # "gone" /\ \E f, d : \E n \in {"gone", "write"} : Notes(f, n, d)
  BY <1>7, Zenon DEF Touch, MayAct
<1> QED
  BY <1>1, <1>2, <1>3, <1>4, <1>5, <1>6, <1>7, FileSystemIs

\* The numbers of the file system after a step of it.
LEMMA FileSystemNumbers ==
    ASSUME TypesOK, FileSystem
    PROVE  /\ version' \in 0..MaxChanges /\ inode' \in 0..MaxChanges
           /\ touches' \in Nat /\ moves' \in Nat
           /\ touches' + moves' + armFailures <= MaxUpsets
           /\ dir' \in {0, moves' + 1}
<1>0. MaxChanges \in Nat /\ MaxUpsets \in Nat
  BY WatcherAssumption
<1>1. /\ version \in 0..MaxChanges /\ inode \in 0..MaxChanges
      /\ touches \in Nat /\ moves \in Nat /\ armFailures \in Nat
      /\ touches + moves + armFailures <= MaxUpsets /\ dir \in {0, moves + 1}
  BY DEF TypesOK
<1>2. version < MaxChanges => version + 1 \in 0..MaxChanges
  BY <1>0, <1>1
<1>3. 0 \in 0..MaxChanges
  BY <1>0
<1>4. MayUpset => touches + moves + armFailures + 1 <= MaxUpsets
  BY <1>0, <1>1 DEF MayUpset
<1>5. CASE Write \/ Replace \/ Remove
  BY <1>1, <1>2, <1>3, <1>5 DEF Write, Replace, Remove
<1>6. CASE MoveDir
  BY <1>0, <1>1, <1>3, <1>4, <1>6 DEF MoveDir
<1>7. CASE MakeDir
  BY <1>1, <1>7 DEF MakeDir
<1>8. CASE \E w \in WatchId : ChangeOther(w)
  BY <1>1, <1>8 DEF ChangeOther, fsVars
<1>9. ASSUME NEW w \in WatchId, NEW note \in {"gone", "write"}, Touch(fileFd[w], note)
      PROVE  /\ UNCHANGED <<version, inode, moves, dir>> /\ touches' \in Nat
             /\ touches' + moves' + armFailures <= MaxUpsets
  BY <1>0, <1>1, <1>4, <1>9 DEF Touch
<1> QED
  BY <1>1, <1>5, <1>6, <1>7, <1>8, <1>9, FileSystemIs

\* The file system keeps the state well typed.
LEMMA FileSystemTypes ==
    ASSUME TypesOK, FileSystem
    PROVE  TypesOK'
<1>1. /\ fileNotes' \in [WatchId -> SUBSET {"gone", "write"}]
      /\ dirNote' \in [WatchId -> BOOLEAN]
      /\ UNCHANGED <<woken, tableVars, lockVars, runVars, userVars, histVars>>
  BY FileSystemNotes, NotesDo
<1> QED
  BY <1>1, FileSystemNumbers DEF TypesOK, tableVars, lockVars, runVars, userVars, histVars

\* EV_ADD fails within the bound.
LEMMA EvAddCounts ==
    ASSUME TypesOK, NEW ok \in BOOLEAN, EvAdd(ok)
    PROVE  armFailures' \in Nat /\ touches + moves + armFailures' <= MaxUpsets
<1>1. MaxUpsets \in Nat /\ touches \in Nat /\ moves \in Nat /\ armFailures \in Nat
  BY WatcherAssumption DEF TypesOK
<1> QED
  BY <1>1 DEF EvAdd, MayUpset, TypesOK

\* ArmFile keeps the descriptors well typed.
LEMMA ArmFileTypes ==
    ASSUME TypesOK, NEW w \in WatchId, NEW ok \in BOOLEAN, ArmFile(w, ok)
    PROVE  /\ m_mutex' = "free" /\ armFd' = 0
           /\ armFailures' \in Nat /\ touches + moves + armFailures' <= MaxUpsets
           /\ missed' \subseteq WatchId
           /\ fileFd' \in [WatchId -> 0..MaxChanges]
           /\ fileNotes' \in [WatchId -> SUBSET {"gone", "write"}]
<1>0. MaxChanges \in Nat /\ MaxUpsets \in Nat
  BY WatcherAssumption
<1>1. m_mutex' = "free" /\ armFd' = 0 /\ missed' \subseteq WatchId
  BY DEF ArmFile, TypesOK
<1>4. armFailures' \in Nat /\ touches + moves + armFailures' <= MaxUpsets
  BY EvAddCounts DEF ArmFile
<1>2. fileFd' \in [WatchId -> 0..MaxChanges]
  BY <1>0 DEF ArmFile, TypesOK
<1>3. fileNotes' \in [WatchId -> SUBSET {"gone", "write"}]
  BY DEF ArmFile, TypesOK
<1> QED
  BY <1>1, <1>2, <1>3, <1>4

\* A call of WatchFile keeps the state well typed.
LEMMA WatchFileTypes ==
    ASSUME TypesOK, NEW w \in WatchId, WatchFile(w)
    PROVE  TypesOK'
<1>0. MaxChanges \in Nat
  BY WatcherAssumption
<1>1. ASSUME NEW ok \in BOOLEAN, WatchOpensDir(w, ok) PROVE TypesOK'
  <2>1. caller' \in [WatchId -> Callers] /\ fired' \in [WatchId -> Nat]
    BY <1>0, <1>1 DEF WatchOpensDir, TypesOK, Callers
  <2> QED
    BY <1>1, <2>1 DEF WatchOpensDir, TypesOK, fsVars, kernelVars, tableVars, lockVars, runVars
<1>2. ASSUME NEW ok \in BOOLEAN, WatchArmsDir(w, ok) PROVE TypesOK'
  <2>1. armFailures' \in Nat /\ touches + moves + armFailures' <= MaxUpsets
    BY <1>2, EvAddCounts DEF WatchArmsDir
  <2>2. caller' \in [WatchId -> Callers] /\ m_watches' \subseteq WatchId /\ m_mutex' \in {"free"} \cup WatchId
    BY <1>2 DEF WatchArmsDir, TypesOK, Callers
  <2> QED
    BY <1>2, <2>1, <2>2 DEF WatchArmsDir, TypesOK, fsVars, kernelVars, runVars, histVars
<1>3. ASSUME WatchReturns(w)
      PROVE  /\ caller' \in [WatchId -> Callers] /\ seen' \in [WatchId -> 0..MaxChanges]
             /\ UNCHANGED <<version, inode, touches, moves, dir, dirNote, woken, m_watches, m_pendingUnwatches, runVars,
                            owner, m_shutdown, fired, late>>
  <2>1. caller' \in [WatchId -> Callers] /\ seen' \in [WatchId -> 0..MaxChanges]
    BY <1>3 DEF WatchReturns, TypesOK, Callers
  <2> QED
    BY <1>3, <2>1 DEF WatchReturns, fsVars
<1>4. CASE WatchOpensFile(w)
  <2>1. CASE inode = 0
    BY <1>3, <1>4, <2>1, Zenon DEF WatchOpensFile, TypesOK, runVars
  <2>2. CASE inode # 0
    BY <1>4, <2>2 DEF WatchOpensFile, OpenFile, TypesOK, fsVars, kernelVars, tableVars, runVars, userVars, histVars
  <2> QED
    BY <2>1, <2>2
<1>5. ASSUME NEW ok \in BOOLEAN, WatchArmsFile(w, ok) PROVE TypesOK'
  <2>1. /\ m_mutex' = "free" /\ armFd' = 0
        /\ armFailures' \in Nat /\ touches + moves + armFailures' <= MaxUpsets
        /\ missed' \subseteq WatchId
        /\ fileFd' \in [WatchId -> 0..MaxChanges]
        /\ fileNotes' \in [WatchId -> SUBSET {"gone", "write"}]
    BY <1>5, ArmFileTypes DEF WatchArmsFile
  <2>2. /\ caller' \in [WatchId -> Callers] /\ seen' \in [WatchId -> 0..MaxChanges]
        /\ UNCHANGED <<version, inode, touches, moves, dir, dirNote, woken, m_watches, m_pendingUnwatches, runVars,
                       owner, m_shutdown, fired, late>>
    BY <1>3, <1>5 DEF WatchArmsFile
  <2>3. 0 \in 0..MaxChanges
    BY <1>0
  <2> QED
    BY <2>1, <2>2, <2>3 DEF TypesOK, runVars
<1> QED
  BY <1>1, <1>2, <1>4, <1>5 DEF WatchFile

\* DisarmWatches keeps the descriptors well typed.
LEMMA DisarmTypes ==
    ASSUME TypesOK, NEW W, DisarmWatches(W)
    PROVE  /\ fileFd' \in [WatchId -> 0..MaxChanges]
           /\ fileNotes' \in [WatchId -> SUBSET {"gone", "write"}]
           /\ dirNote' \in [WatchId -> BOOLEAN]
           /\ m_watches' \subseteq WatchId
<1>0. MaxChanges \in Nat
  BY WatcherAssumption
<1>1. fileFd' \in [WatchId -> 0..MaxChanges]
  BY <1>0 DEF DisarmWatches, TypesOK
<1>2. fileNotes' \in [WatchId -> SUBSET {"gone", "write"}]
  BY DEF DisarmWatches, TypesOK
<1>3. dirNote' \in [WatchId -> BOOLEAN]
  BY DEF DisarmWatches, TypesOK
<1> QED
  BY <1>1, <1>2, <1>3 DEF DisarmWatches, TypesOK

\* A step of Run keeps the state well typed.
LEMMA RunTypes ==
    ASSUME TypesOK, RunInv, Run
    PROVE  TypesOK'
<1>0. MaxChanges \in Nat
  BY WatcherAssumption
<1>1. CASE RunTop
  <2>1. CASE m_shutdown
    BY <1>1, <2>1 DEF RunTop, TypesOK, fsVars, tableVars, lockVars, userVars, histVars
  <2>2. CASE ~m_shutdown
    <3>1. /\ fileFd' \in [WatchId -> 0..MaxChanges]
          /\ fileNotes' \in [WatchId -> SUBSET {"gone", "write"}]
          /\ dirNote' \in [WatchId -> BOOLEAN]
          /\ m_watches' \subseteq WatchId
      BY <1>1, <2>2, DisarmTypes DEF RunTop
    <3> QED
      BY <1>1, <2>2, <3>1 DEF RunTop, TypesOK, fsVars, lockVars, userVars, histVars
  <2> QED
    BY <2>1, <2>2
<1>2. CASE KeventReturns
  <2>1. PICK E \in SUBSET Ready :
          /\ events' = E
          /\ fileNotes' = [w \in WatchId |-> IF FileEvent(w) \in E THEN {} ELSE fileNotes[w]]
          /\ dirNote' = [w \in WatchId |-> dirNote[w] /\ DirEvent(w) \notin E]
          /\ woken' = (woken /\ WakeEvent \notin E)
    BY <1>2, Zenon DEF KeventReturns
  <2>2. events' \subseteq Event
    BY <2>1, ReadyIsEvents
  <2>3. fileNotes' \in [WatchId -> SUBSET {"gone", "write"}]
    BY <2>1 DEF TypesOK
  <2>4. dirNote' \in [WatchId -> BOOLEAN] /\ woken' \in BOOLEAN
    BY <2>1 DEF TypesOK
  <2> QED
    BY <1>2, <2>2, <2>3, <2>4 DEF KeventReturns, TypesOK, fsVars, tableVars, lockVars, userVars, histVars
<1>3. ASSUME NEW e \in events, HandleEvent(e) PROVE TypesOK'
  <2>1. /\ pc = "handle" /\ events' = events \ {e}
        /\ UNCHANGED <<fsVars, dirNote, woken, m_watches, m_pendingUnwatches, calling, userVars, histVars>>
        /\ \/ Ignored(e)
           \/ /\ e.watch \in m_watches
              /\ Wrote(e) \/ Lost(e) \/ Opened(e)
    BY <1>3, HandleEventDoes
  <2>2. /\ fileFd' \in [WatchId -> 0..MaxChanges]
        /\ fileNotes' \in [WatchId -> SUBSET {"gone", "write"}]
    BY <1>0, <2>1 DEF Ignored, Wrote, Lost, Opened, TypesOK
  <2>3. /\ m_mutex' \in {"free"} \cup WatchId
        /\ armFd' \in 0..MaxChanges
        /\ armFailures' \in Nat /\ touches + moves + armFailures' <= MaxUpsets
        /\ missed' \subseteq WatchId
        /\ pc' \in {"handle", "arm"}
        /\ dirty' \subseteq WatchId
        /\ deadline' \in {"none", "set", "passed"}
    BY <2>1 DEF Ignored, Wrote, Lost, Opened, TypesOK, lockVars
  <2> QED
    BY <2>1, <2>2, <2>3 DEF TypesOK, fsVars, userVars, histVars
<1>4. ASSUME NEW ok \in BOOLEAN, RunArms(ok) PROVE TypesOK'
  <2>1. m_mutex \in WatchId
    BY <1>4 DEF RunArms, RunInv
  <2>2. /\ m_mutex' = "free" /\ armFd' = 0
        /\ armFailures' \in Nat /\ touches + moves + armFailures' <= MaxUpsets
        /\ missed' \subseteq WatchId
        /\ fileFd' \in [WatchId -> 0..MaxChanges]
        /\ fileNotes' \in [WatchId -> SUBSET {"gone", "write"}]
    BY <1>4, <2>1, ArmFileTypes DEF RunArms
  <2>3. dirty' \subseteq WatchId /\ deadline' \in {"none", "set", "passed"} /\ pc' = "handle"
    BY <1>4, <2>1 DEF RunArms, MarkDirty, TypesOK
  <2> QED
    BY <1>0, <1>4, <2>2, <2>3 DEF RunArms, TypesOK, fsVars, userVars, histVars
<1>5. CASE EndOfBatch
  BY <1>5 DEF EndOfBatch, TypesOK, fsVars, kernelVars, tableVars, lockVars, userVars, histVars
<1>6. ASSUME NEW w \in WatchId, Callback(w) PROVE TypesOK'
  <2>1. seen' \in [WatchId -> 0..MaxChanges]
    BY <1>6 DEF Callback, TypesOK
  <2>2. fired' \in [WatchId -> Nat] /\ late' \in [WatchId -> Nat]
    BY <1>6 DEF Callback, TypesOK
  <2> QED
    BY <1>6, <2>1, <2>2 DEF Callback, TypesOK, fsVars, kernelVars, tableVars, lockVars, userVars
<1>7. CASE CallbacksEnd
  BY <1>7 DEF CallbacksEnd, TypesOK, fsVars, kernelVars, tableVars, lockVars, userVars, histVars
<1> QED
  BY <1>1, <1>2, <1>3, <1>4, <1>5, <1>6, <1>7 DEF Run

\* Every step keeps the state well typed.
LEMMA NextTypes ==
    ASSUME TypesOK, RunInv, [Next]_vars
    PROVE  TypesOK'
<1>1. CASE FileSystem
  BY <1>1, FileSystemTypes
<1>2. ASSUME NEW w \in WatchId, WatchFile(w) PROVE TypesOK'
  BY <1>2, WatchFileTypes
<1>3. ASSUME NEW w \in WatchId, UnwatchQueues(w) PROVE TypesOK'
  <2>1. caller' \in [WatchId -> Callers] /\ seen' \in [WatchId -> 0..MaxChanges]
    BY <1>3, WatcherAssumption DEF UnwatchQueues, TypesOK, Callers
  <2> QED
    BY <1>3, <2>1 DEF UnwatchQueues, TypesOK, fsVars, kernelVars, lockVars, runVars
<1>4. ASSUME NEW w \in WatchId, UnwatchWakes(w) PROVE TypesOK'
  <2>1. caller' \in [WatchId -> Callers]
    BY <1>4 DEF UnwatchWakes, TypesOK, Callers
  <2> QED
    BY <1>4, <2>1 DEF UnwatchWakes, TypesOK, fsVars, tableVars, lockVars, runVars, histVars
<1>5. CASE Run
  BY <1>5, RunTypes
<1>6. CASE KeventFails
  BY <1>6 DEF KeventFails, TypesOK, fsVars, kernelVars, tableVars, lockVars, userVars, histVars
<1>7. CASE DeadlinePasses
  BY <1>7 DEF DeadlinePasses, TypesOK, fsVars, kernelVars, tableVars, lockVars, userVars, histVars
<1>8. CASE StoreShutdown
  BY <1>8 DEF StoreShutdown, TypesOK, fsVars, kernelVars, tableVars, lockVars, runVars, histVars
<1>9. CASE WakeToEnd
  BY <1>9 DEF WakeToEnd, TypesOK, fsVars, tableVars, lockVars, runVars, histVars
<1>10. CASE Join
  <2>1. /\ fileFd' \in [WatchId -> 0..MaxChanges]
        /\ fileNotes' \in [WatchId -> SUBSET {"gone", "write"}]
        /\ dirNote' \in [WatchId -> BOOLEAN]
        /\ m_watches' \subseteq WatchId
    BY <1>10, DisarmTypes DEF Join
  <2> QED
    BY <1>10, <2>1 DEF Join, TypesOK, fsVars, lockVars, runVars, histVars
<1>11. CASE UNCHANGED vars
  BY <1>11 DEF vars, TypesOK, fsVars, kernelVars, tableVars, lockVars, runVars, userVars, histVars
<1> QED
  BY <1>1, <1>2, <1>3, <1>4, <1>5, <1>6, <1>7, <1>8, <1>9, <1>10, <1>11 DEF Next, Destructor

-----------------------------------------------------------------------------
(* The invariant of a watch, action by action.                             *)

AtWatch(w) == EventsAt(w) /\ TablesAt(w) /\ LateAt(w) /\ Credit(w)

\* Each of these is one or none.
LEMMA OnesAre ==
    ASSUME NEW w
    PROVE  /\ Calls(w) \in 0..1 /\ Dirt(w) \in 0..1 /\ Noted(w) \in 0..1
           /\ Collected(w) \in 0..1 /\ Arms(w) \in 0..1 /\ Opens(w) \in 0..1
BY DEF One, Calls, Dirt, Noted, Collected, Arms, Opens

\* The same in the next state.
LEMMA OnesAreNext ==
    ASSUME NEW w
    PROVE  /\ Calls(w)' \in 0..1 /\ Dirt(w)' \in 0..1 /\ Noted(w)' \in 0..1
           /\ Collected(w)' \in 0..1 /\ Arms(w)' \in 0..1 /\ Opens(w)' \in 0..1
BY DEF One, Calls, Dirt, Noted, Collected, Arms, Opens

\* The numbers that Credit adds up.
LEMMA NumbersAre ==
    ASSUME TypesOK, TypesOK', NEW w \in WatchId
    PROVE  /\ fired[w] \in Nat /\ fired'[w] \in Nat
           /\ version \in Nat /\ version' \in Nat
           /\ touches \in Nat /\ touches' \in Nat
           /\ armFailures \in Nat /\ armFailures' \in Nat
BY DEF TypesOK

\* A step that gives w nothing new to be called for keeps its credit.
LEMMA CreditKept ==
    ASSUME TypesOK, TypesOK', NEW w \in WatchId, Credit(w),
           fired'[w] = fired[w],
           version + touches + armFailures <= version' + touches' + armFailures',
           Calls(w)' <= Calls(w), Dirt(w)' <= Dirt(w), Noted(w)' <= Noted(w),
           Collected(w)' <= Collected(w), Arms(w)' <= Arms(w), Opens(w)' <= Opens(w)
    PROVE  Credit(w)'
BY NumbersAre, OnesAre, OnesAreNext DEF Credit

\* None of these becomes one when its reason is no new one.
LEMMA OnesKept ==
    ASSUME NEW w
    PROVE  /\ ((w \in calling') => (w \in calling)) => Calls(w)' <= Calls(w)
           /\ ((w \in dirty') => (w \in dirty)) => Dirt(w)' <= Dirt(w)
           /\ (WriteNoted(w)' => WriteNoted(w)) => Noted(w)' <= Noted(w)
           /\ (WriteCollected(w)' => WriteCollected(w)) => Collected(w)' <= Collected(w)
           /\ (Arming(w)' => Arming(w)) => Arms(w)' <= Arms(w)
           /\ (MayOpen(w)' => MayOpen(w)) => Opens(w)' <= Opens(w)
<1>1. ((w \in calling') => (w \in calling)) => Calls(w)' <= Calls(w)
  BY DEF One, Calls
<1>2. ((w \in dirty') => (w \in dirty)) => Dirt(w)' <= Dirt(w)
  BY DEF One, Dirt
<1>3. (WriteNoted(w)' => WriteNoted(w)) => Noted(w)' <= Noted(w)
  BY DEF One, Noted
<1>4. (WriteCollected(w)' => WriteCollected(w)) => Collected(w)' <= Collected(w)
  BY DEF One, Collected
<1>5. (Arming(w)' => Arming(w)) => Arms(w)' <= Arms(w)
  BY DEF One, Arms
<1>6. (MayOpen(w)' => MayOpen(w)) => Opens(w)' <= Opens(w)
  BY DEF One, Opens
<1> QED
  BY <1>1, <1>2, <1>3, <1>4, <1>5, <1>6

\* The same, all together.
LEMMA AllKept ==
    ASSUME NEW w, (w \in calling') => (w \in calling), (w \in dirty') => (w \in dirty),
           WriteNoted(w)' => WriteNoted(w), WriteCollected(w)' => WriteCollected(w),
           Arming(w)' => Arming(w), MayOpen(w)' => MayOpen(w)
    PROVE  /\ Calls(w)' <= Calls(w) /\ Dirt(w)' <= Dirt(w) /\ Noted(w)' <= Noted(w)
           /\ Collected(w)' <= Collected(w) /\ Arms(w)' <= Arms(w) /\ Opens(w)' <= Opens(w)
<1>1. Calls(w)' <= Calls(w) /\ Dirt(w)' <= Dirt(w)
  BY DEF One, Calls, Dirt
<1>2. Noted(w)' <= Noted(w) /\ Collected(w)' <= Collected(w)
  BY DEF One, Noted, Collected
<1>3. Arms(w)' <= Arms(w) /\ Opens(w)' <= Opens(w)
  BY DEF One, Arms, Opens
<1> QED
  BY <1>1, <1>2, <1>3

\* A step that touches nothing of w but perhaps its user's place after
\* WatchFile returned keeps what holds of w.
LEMMA OthersKept ==
    ASSUME TypesOK, TypesOK', NEW w \in WatchId, AtWatch(w),
           UNCHANGED <<version, inode, touches, events, pc>>,
           armFailures <= armFailures', UNCHANGED armFd \/ pc # "arm",
           fileFd'[w] = fileFd[w], fileNotes'[w] = fileNotes[w],
           caller'[w] = caller[w], fired'[w] = fired[w], late'[w] = late[w],
           (w \in m_watches) <=> (w \in m_watches'),
           (w \in m_pendingUnwatches) => (w \in m_pendingUnwatches'),
           (w \in dirty) <=> (w \in dirty'), (w \in calling) <=> (w \in calling'),
           (m_mutex = w) <=> (m_mutex' = w),
           owner' # "alive" => owner # "alive" \/ caller[w] \notin {"opened", "arming", "unwatching"}
    PROVE  AtWatch(w)'
<1>1. EventsAt(w)'
  BY DEF AtWatch, EventsAt, WriteCollected, GoneCollected
<1>2. TablesAt(w)'
  BY DEF AtWatch, TablesAt, Returned
<1>3. LateAt(w)'
  BY DEF AtWatch, LateAt
<1>4. Credit(w)'
  <2>1. /\ WriteNoted(w)' => WriteNoted(w)
        /\ WriteCollected(w)' => WriteCollected(w)
        /\ Arming(w)' => Arming(w)
        /\ MayOpen(w)' => MayOpen(w)
    BY DEF WriteNoted, WriteCollected, GoneCollected, Arming, MayOpen, Returned
  <2>2. version + touches + armFailures <= version' + touches' + armFailures'
    BY NumbersAre
  <2>3. /\ Calls(w)' <= Calls(w) /\ Dirt(w)' <= Dirt(w) /\ Noted(w)' <= Noted(w)
        /\ Collected(w)' <= Collected(w) /\ Arms(w)' <= Arms(w) /\ Opens(w)' <= Opens(w)
    BY <2>1, AllKept
  <2> QED
    BY <2>2, <2>3, CreditKept DEF AtWatch
<1> QED
  BY <1>1, <1>2, <1>3, <1>4 DEF AtWatch

\* The file system: a new content is one more reason to call a watch, and so is
\* a touch.
LEMMA FileSystemAt ==
    ASSUME TypesOK, TypesOK', NEW w \in WatchId, AtWatch(w), FileSystem
    PROVE  AtWatch(w)'
<1>1. UNCHANGED <<woken, tableVars, lockVars, runVars, userVars, histVars>>
  BY FileSystemNotes, NotesDo
<1> USE <1>1 DEF tableVars, lockVars, runVars, userVars, histVars
<1>2. TablesAt(w)' /\ LateAt(w)'
  BY DEF AtWatch, TablesAt, LateAt, Returned
<1>3. fileNotes'[w] # {} => fileFd[w] # 0
  BY FileSystemNotes, NotesDo DEF AtWatch, EventsAt
<1>4. EventsAt(w)'
  BY <1>3 DEF AtWatch, EventsAt, WriteCollected, GoneCollected
<1>5. /\ Calls(w)' <= Calls(w) /\ Dirt(w)' <= Dirt(w)
      /\ Collected(w)' <= Collected(w) /\ Arms(w)' <= Arms(w)
      /\ fired' = fired /\ armFailures' = armFailures
  BY OnesKept DEF Arming, WriteCollected, GoneCollected
<1> USE NumbersAre, OnesAre, OnesAreNext
<1>a. ASSUME fileNotes'[w] \in {fileNotes[w], fileNotes[w] \cup {"write"}},
             inode' = inode, version' + touches' = version + touches + 1
      PROVE  AtWatch(w)'
  <2>1. MayOpen(w)' => MayOpen(w)
    BY <1>a DEF MayOpen, Returned, WriteCollected, GoneCollected, Arming
  <2>2. Opens(w)' <= Opens(w)
    BY <2>1, OnesKept
  <2>3. Credit(w)'
    BY <1>5, <1>a, <2>2 DEF AtWatch, Credit
  <2> QED
    BY <1>2, <1>4, <2>3 DEF AtWatch
<1>b. ASSUME fileNotes'[w] \in {fileNotes[w], fileNotes[w] \cup {"gone"}},
             \/ version' + touches' = version + touches + 1
             \/ version' = version /\ touches' = touches /\ Opens(w)' <= Opens(w)
      PROVE  AtWatch(w)'
  <2>1. Noted(w)' <= Noted(w)
    BY <1>b, OnesKept DEF WriteNoted
  <2>2. Credit(w)'
    BY <1>5, <1>b, <2>1 DEF AtWatch, Credit
  <2> QED
    BY <1>2, <1>4, <2>2 DEF AtWatch
<1>6. CASE Write
  <2>1. Notes(inode, "write", 0) /\ version' = version + 1 /\ UNCHANGED <<inode, touches>>
    BY <1>6 DEF Write
  <2>2. fileNotes'[w] \in {fileNotes[w], fileNotes[w] \cup {"write"}}
    BY <2>1, NotesDo
  <2>3. version' + touches' = version + touches + 1
    BY <2>1
  <2> QED
    BY <1>a, <2>1, <2>2, <2>3
<1>7. CASE Replace
  <2>1. Notes(inode, "gone", dir) /\ version' = version + 1 /\ UNCHANGED touches
    BY <1>7 DEF Replace
  <2>2. fileNotes'[w] \in {fileNotes[w], fileNotes[w] \cup {"gone"}}
    BY <2>1, NotesDo
  <2>3. version' + touches' = version + touches + 1
    BY <2>1
  <2> QED
    BY <1>b, <2>2, <2>3
<1>8. CASE Remove \/ MoveDir
  <2>1. /\ Notes(inode, "gone", dir) \/ Notes(0, "gone", dir)
        /\ inode' = 0 /\ UNCHANGED <<version, touches>>
    BY <1>8 DEF Remove, MoveDir
  <2>2. Opens(w)' <= Opens(w)
    BY <2>1, OnesKept DEF MayOpen
  <2> QED
    BY <1>b, <2>1, <2>2, NotesDo
<1>9. CASE MakeDir \/ \E v \in WatchId : ChangeOther(v)
  <2>1. /\ UNCHANGED <<version, inode, touches>>
        /\ \E d : \E note \in {"gone", "write"} : Notes(0, note, d)
    BY <1>9 DEF MakeDir, ChangeOther, fsVars
  <2>2. fileNotes'[w] = fileNotes[w]
    BY <2>1, NotesDo
  <2> QED
    BY <1>5, <2>1, <2>2, OthersKept
<1>10. ASSUME NEW v \in WatchId, NEW note \in {"gone", "write"}, Touch(fileFd[v], note)
       PROVE  AtWatch(w)'
  <2>1. Notes(fileFd[v], note, 0) /\ touches' = touches + 1 /\ UNCHANGED <<version, inode>>
    BY <1>10 DEF Touch
  <2>2. fileNotes'[w] \in {fileNotes[w], fileNotes[w] \cup {note}}
    BY <2>1, NotesDo
  <2>3. version' + touches' = version + touches + 1
    BY <2>1
  <2> QED
    BY <1>a, <1>b, <2>1, <2>2, <2>3
<1> QED
  BY <1>6, <1>7, <1>8, <1>9, <1>10, FileSystemIs

\* WatchFile, for its own watch and for the others: it cannot be opening or
\* arming a file while Run is.
LEMMA WatchFileAt ==
    ASSUME TypesOK, TypesOK', RunInv, NEW v \in WatchId, WatchFile(v),
           NEW w \in WatchId, AtWatch(w), AtWatch(v)
    PROVE  AtWatch(w)'
<1>f. "free" \notin WatchId
  BY WatcherAssumption
<1> USE NumbersAre, OnesAre, OnesAreNext
<1>1. ASSUME NEW ok \in BOOLEAN, WatchOpensDir(v, ok) PROVE AtWatch(w)'
  <2>1. /\ caller[v] = "new" /\ owner = "alive"
        /\ caller' = [caller EXCEPT ![v] = IF ok THEN "opened" ELSE "failed"]
        /\ fired' = [fired EXCEPT ![v] = IF ok THEN version + touches ELSE 0]
        /\ UNCHANGED <<version, inode, touches, fileNotes, fileFd, m_watches, m_pendingUnwatches, m_mutex, armFd,
                       armFailures, pc, events, dirty, calling, owner, late>>
    BY <1>1 DEF WatchOpensDir, fsVars, kernelVars, tableVars, lockVars, runVars
  <2>2. CASE w # v
    <3>1. caller'[w] = caller[w] /\ fired'[w] = fired[w]
      BY <2>1, <2>2 DEF TypesOK
    <3> QED
      BY <2>1, <3>1, OthersKept
  <2>3. CASE w = v
    <3>1. ~Returned(v) /\ ~Returned(v)' /\ caller'[v] \in {"opened", "failed"} /\ fired'[v] <= version + touches
      BY <2>1 DEF Returned, TypesOK
    <3>2. EventsAt(v)' /\ TablesAt(v)' /\ LateAt(v)'
      BY <2>1, <3>1 DEF AtWatch, EventsAt, TablesAt, LateAt, Returned, WriteCollected, GoneCollected, TypesOK
    <3>3. /\ v \notin calling' /\ v \notin dirty' /\ ~WriteNoted(v)' /\ ~WriteCollected(v)'
          /\ ~Arming(v)' /\ ~MayOpen(v)'
      BY <2>1, <3>1 DEF AtWatch, EventsAt, TablesAt, WriteNoted, WriteCollected, GoneCollected, Arming, MayOpen,
                        RunInv
    <3>4. Calls(v)' = 0 /\ Dirt(v)' = 0 /\ Noted(v)' = 0 /\ Collected(v)' = 0 /\ Arms(v)' = 0 /\ Opens(v)' = 0
      BY <3>3 DEF One, Calls, Dirt, Noted, Collected, Arms, Opens
    <3>5. Credit(v)'
      BY <2>1, <3>1, <3>4 DEF Credit
    <3> QED
      BY <2>3, <3>2, <3>5 DEF AtWatch
  <2> QED
    BY <2>2, <2>3
<1>2. ASSUME NEW ok \in BOOLEAN, WatchArmsDir(v, ok) PROVE AtWatch(w)'
  <2>1. /\ caller[v] = "opened" /\ m_mutex = "free"
        /\ armFailures <= armFailures'
        /\ \/ /\ m_watches' = m_watches \cup {v} /\ m_mutex' = v
              /\ caller' = [caller EXCEPT ![v] = "arming"]
           \/ /\ UNCHANGED <<m_watches, m_mutex>>
              /\ caller' = [caller EXCEPT ![v] = "failed"]
        /\ UNCHANGED <<version, inode, touches, fileNotes, fileFd, m_pendingUnwatches, armFd,
                       pc, events, dirty, calling, owner, fired, late>>
    BY <1>2 DEF WatchArmsDir, EvAdd, fsVars, kernelVars, runVars, histVars
  <2>2. CASE w # v
    <3>1. caller'[w] = caller[w] /\ (w \in m_watches <=> w \in m_watches') /\ (m_mutex = w <=> m_mutex' = w)
      BY <1>f, <2>1, <2>2 DEF TypesOK
    <3> QED
      BY <2>1, <3>1, OthersKept
  <2>3. CASE w = v
    <3>1. ~Returned(v) /\ ~Returned(v)' /\ caller'[v] \in {"arming", "failed"} /\ pc # "arm"
          /\ (caller'[v] = "arming" => m_mutex' = v)
      BY <1>f, <2>1 DEF Returned, TypesOK, RunInv
    <3>2. EventsAt(v)' /\ LateAt(v)'
      BY <2>1, <3>1 DEF AtWatch, EventsAt, LateAt, Returned, WriteCollected, GoneCollected, TypesOK
    <3>3. TablesAt(v)'
      BY <2>1, <3>1 DEF AtWatch, TablesAt, Returned, TypesOK
    <3>4. /\ WriteNoted(v)' => WriteNoted(v)
          /\ WriteCollected(v)' => WriteCollected(v)
          /\ Arming(v)' => Arming(v)
          /\ MayOpen(v)' => MayOpen(v)
      BY <2>1, <3>1 DEF WriteNoted, WriteCollected, Arming, MayOpen
    <3>5. /\ Calls(v)' <= Calls(v) /\ Dirt(v)' <= Dirt(v) /\ Noted(v)' <= Noted(v)
          /\ Collected(v)' <= Collected(v) /\ Arms(v)' <= Arms(v) /\ Opens(v)' <= Opens(v)
      BY <2>1, <3>4, AllKept
    <3>6. Credit(v)'
      BY <2>1, <3>5 DEF Credit, AtWatch
    <3> QED
      BY <2>3, <3>2, <3>3, <3>6 DEF AtWatch
  <2> QED
    BY <2>2, <2>3
<1>3. ASSUME caller[v] = "arming" PROVE pc # "arm" /\ ~Returned(v) /\ m_mutex = v /\ owner = "alive"
  BY <1>3 DEF RunInv, AtWatch, TablesAt, Returned
<1>4. ASSUME caller[v] = "arming", m_mutex' = "free", armFd' = 0, armFailures <= armFailures',
             caller' = [caller EXCEPT ![v] = "watching"],
             fileFd'[v] # 0 \/ inode = 0 \/ armFailures < armFailures',
             fileNotes'[v] = {},
             \A x \in WatchId : x # v => fileFd'[x] = fileFd[x] /\ fileNotes'[x] = fileNotes[x],
             UNCHANGED <<version, inode, touches, m_watches, m_pendingUnwatches, pc, events, dirty, calling,
                         owner, fired, late>>
      PROVE  AtWatch(w)'
  <2>1. CASE w # v
    <3>1. caller'[w] = caller[w] /\ (m_mutex = w <=> m_mutex' = w) /\ pc # "arm"
      BY <1>f, <1>3, <1>4, <2>1 DEF TypesOK
    <3> QED
      BY <1>4, <2>1, <3>1, OthersKept
  <2>2. CASE w = v
    <3>1. caller'[v] = "watching" /\ Returned(v)' /\ ~Returned(v) /\ owner = "alive" /\ pc # "arm"
      BY <1>3, <1>4 DEF Returned, TypesOK
    <3>2. ~WriteCollected(v) /\ ~GoneCollected(v) /\ v \notin calling /\ v \notin dirty /\ late[v] = 0
      BY <1>4, <3>1 DEF AtWatch, EventsAt, TablesAt, LateAt
    <3>3. EventsAt(v)'
      BY <1>4, <3>2 DEF AtWatch, EventsAt, WriteCollected, GoneCollected
    <3>4. TablesAt(v)' /\ LateAt(v)'
      BY <1>4, <3>1, <3>2 DEF AtWatch, TablesAt, LateAt
    <3>5. /\ v \notin calling' /\ v \notin dirty' /\ ~WriteNoted(v)' /\ ~WriteCollected(v)'
          /\ ~Arming(v)'
      BY <1>4, <3>1, <3>2 DEF WriteNoted, WriteCollected, Arming
    <3>6. Calls(v)' = 0 /\ Dirt(v)' = 0 /\ Noted(v)' = 0 /\ Collected(v)' = 0 /\ Arms(v)' = 0
      BY <3>5 DEF One, Calls, Dirt, Noted, Collected, Arms
    <3>7. MayOpen(v)' => armFailures < armFailures'
      BY <1>4, <3>2 DEF MayOpen, GoneCollected
    <3>8. Opens(v)' <= armFailures' - armFailures
      BY <1>4, <3>7 DEF Opens, One
    <3>9. Credit(v)'
      BY <1>4, <3>6, <3>8 DEF Credit, AtWatch
    <3> QED
      BY <2>2, <3>3, <3>4, <3>9 DEF AtWatch
  <2> QED
    BY <2>1, <2>2
<1>5. ASSUME WatchReturns(v)
      PROVE  /\ caller' = [caller EXCEPT ![v] = "watching"]
             /\ UNCHANGED <<version, inode, touches, m_watches, m_pendingUnwatches, pc, events, dirty, calling,
                            owner, fired, late>>
  BY <1>5 DEF WatchReturns, fsVars, runVars
<1>6. CASE WatchOpensFile(v)
  <2>1. CASE inode = 0
    <3>1. /\ caller[v] = "arming" /\ m_mutex' = "free" /\ armFd' = 0 /\ armFailures' = armFailures
          /\ UNCHANGED <<fileFd, fileNotes>> /\ WatchReturns(v)
      BY <1>6, <2>1 DEF WatchOpensFile
    <3>2. fileNotes[v] = {}
      BY <1>3, <3>1 DEF AtWatch, EventsAt, TablesAt
    <3> QED
      BY <1>4, <1>5, <2>1, <3>1, <3>2
  <2>2. CASE inode # 0
    <3>1. /\ caller[v] = "arming" /\ m_mutex' = v
          /\ UNCHANGED <<version, inode, touches, m_watches, m_pendingUnwatches, pc, events, dirty, calling,
                         owner, fired, late, armFailures, fileFd, fileNotes, caller>>
      BY <1>6, <2>2 DEF WatchOpensFile, OpenFile, fsVars, kernelVars, tableVars, runVars, userVars, histVars
    <3>2. m_mutex = v /\ pc # "arm"
      BY <1>3, <3>1
    <3> QED
      BY <3>1, <3>2, OthersKept
  <2> QED
    BY <2>1, <2>2
<1>7. ASSUME NEW ok \in BOOLEAN, WatchArmsFile(v, ok) PROVE AtWatch(w)'
  <2>1. /\ caller[v] = "arming" /\ armFd # 0 /\ m_mutex' = "free" /\ armFd' = 0
        /\ fileFd' = [fileFd EXCEPT ![v] = IF ok THEN armFd ELSE 0]
        /\ fileNotes' = [fileNotes EXCEPT ![v] = {}]
        /\ armFailures' = IF ok THEN armFailures ELSE armFailures + 1
        /\ WatchReturns(v)
    BY <1>7 DEF WatchArmsFile, ArmFile, EvAdd
  <2>2. /\ fileFd'[v] # 0 \/ armFailures < armFailures'
        /\ armFailures <= armFailures'
    BY <2>1 DEF TypesOK
  <2>3. /\ fileNotes'[v] = {}
        /\ \A x \in WatchId : x # v => fileFd'[x] = fileFd[x] /\ fileNotes'[x] = fileNotes[x]
    BY <2>1 DEF TypesOK
  <2> QED
    BY <1>4, <1>5, <2>1, <2>2, <2>3
<1> QED
  BY <1>1, <1>2, <1>6, <1>7 DEF WatchFile

\* Unwatch, for its own watch and for the others.
LEMMA UnwatchAt ==
    ASSUME TypesOK, TypesOK', NEW v \in WatchId, UnwatchQueues(v) \/ UnwatchWakes(v),
           NEW w \in WatchId, AtWatch(w)
    PROVE  AtWatch(w)'
<1> USE NumbersAre, OnesAre, OnesAreNext
<1>1. /\ \/ /\ caller[v] = "watching" /\ owner = "alive"
            /\ caller' = [caller EXCEPT ![v] = "unwatching"]
            /\ m_pendingUnwatches' = m_pendingUnwatches \cup {v}
         \/ /\ caller[v] = "unwatching"
            /\ caller' = [caller EXCEPT ![v] = "done"]
            /\ UNCHANGED m_pendingUnwatches
      /\ UNCHANGED <<version, inode, touches, fileNotes, fileFd, m_watches, m_mutex, armFd, armFailures,
                     pc, events, dirty, calling, owner, fired, late>>
  BY DEF UnwatchQueues, UnwatchWakes, fsVars, kernelVars, tableVars, lockVars, runVars, histVars
<1>2. CASE w # v
  <2>1. caller'[w] = caller[w] /\ (w \in m_pendingUnwatches => w \in m_pendingUnwatches')
    BY <1>1, <1>2 DEF TypesOK
  <2> QED
    BY <1>1, <2>1, OthersKept
<1>3. CASE w = v
  <2>1. Returned(v) /\ Returned(v)' /\ late[v] = 0
    BY <1>1, <1>3 DEF Returned, TypesOK, AtWatch, LateAt
  <2>2. EventsAt(v)' /\ LateAt(v)'
    BY <1>1, <1>3, <2>1 DEF AtWatch, EventsAt, LateAt, WriteCollected, GoneCollected
  <2>3. TablesAt(v)'
    BY <1>1, <1>3, <2>1 DEF AtWatch, TablesAt, TypesOK, Returned
  <2>4. /\ WriteNoted(v)' => WriteNoted(v)
        /\ WriteCollected(v)' => WriteCollected(v)
        /\ Arming(v)' => Arming(v)
        /\ MayOpen(v)' => MayOpen(v)
    BY <1>1, <2>1 DEF WriteNoted, WriteCollected, GoneCollected, Arming, MayOpen
  <2>5. /\ Calls(v)' <= Calls(v) /\ Dirt(v)' <= Dirt(v) /\ Noted(v)' <= Noted(v)
        /\ Collected(v)' <= Collected(v) /\ Arms(v)' <= Arms(v) /\ Opens(v)' <= Opens(v)
    BY <1>1, <2>4, AllKept
  <2>6. Credit(v)'
    BY <1>1, <1>3, <2>5 DEF Credit, AtWatch
  <2> QED
    BY <1>3, <2>2, <2>3, <2>6 DEF AtWatch
<1> QED
  BY <1>2, <1>3

\* DisarmWatches, at the head of the loop or at the end, when no event is left.
LEMMA DisarmAt ==
    ASSUME TypesOK, TypesOK', NEW W, DisarmWatches(W), events = {}, pc # "arm", pc' # "arm",
           UNCHANGED <<version, inode, touches, armFailures, events, dirty, calling, caller, fired, late, m_mutex>>,
           NEW w \in WatchId, AtWatch(w),
           w \in m_watches /\ caller[w] \in {"unwatching", "done"} => w \in W \/ w \in m_pendingUnwatches',
           late[w] = 1 /\ w \in m_watches => w \in W \/ pc' \in {"call", "top", "ended"},
           owner' # "alive" => owner # "alive"
    PROVE  AtWatch(w)'
<1> USE NumbersAre, OnesAre, OnesAreNext
<1>1. /\ fileFd'[w] = IF w \in W THEN 0 ELSE fileFd[w]
      /\ fileNotes'[w] = IF w \in W THEN {} ELSE fileNotes[w]
      /\ (w \in m_watches') <=> (w \in m_watches /\ w \notin W)
  BY DEF DisarmWatches
<1>2. EventsAt(w)'
  BY <1>1 DEF AtWatch, EventsAt, WriteCollected, GoneCollected
<1>3. TablesAt(w)'
  BY <1>1 DEF AtWatch, TablesAt, Returned
<1>4. LateAt(w)'
  BY <1>1 DEF AtWatch, LateAt
<1>5. /\ WriteNoted(w)' => WriteNoted(w)
      /\ WriteCollected(w)' => WriteCollected(w)
      /\ Arming(w)' => Arming(w)
      /\ MayOpen(w)' => MayOpen(w)
  BY <1>1 DEF WriteNoted, WriteCollected, GoneCollected, Arming, MayOpen, Returned
<1>6. /\ Calls(w)' <= Calls(w) /\ Dirt(w)' <= Dirt(w) /\ Noted(w)' <= Noted(w)
      /\ Collected(w)' <= Collected(w) /\ Arms(w)' <= Arms(w) /\ Opens(w)' <= Opens(w)
  BY <1>5, AllKept
<1>7. Credit(w)'
  BY <1>6 DEF Credit, AtWatch
<1> QED
  BY <1>2, <1>3, <1>4, <1>7 DEF AtWatch

\* The head of the loop: a watch that was called late is taken out here.
LEMMA RunTopAt ==
    ASSUME TypesOK, TypesOK', RunInv, RunTop, NEW w \in WatchId, AtWatch(w)
    PROVE  AtWatch(w)'
<1> USE NumbersAre, OnesAre, OnesAreNext
<1>1. /\ pc = "top" /\ events = {}
      /\ UNCHANGED <<version, inode, touches, armFailures, armFd, events, calling, caller, owner, fired, late, m_mutex>>
  BY DEF RunTop, RunInv, fsVars, lockVars, userVars, histVars
<1>2. CASE m_shutdown
  <2>1. pc' = "ended" /\ dirty' = {} /\ UNCHANGED <<fileFd, fileNotes, m_watches, m_pendingUnwatches>>
    BY <1>2 DEF RunTop, tableVars
  <2>2. EventsAt(w)' /\ TablesAt(w)' /\ LateAt(w)'
    BY <1>1, <2>1 DEF AtWatch, EventsAt, TablesAt, LateAt, Returned, WriteCollected, GoneCollected
  <2>3. /\ WriteNoted(w)' => WriteNoted(w)
        /\ WriteCollected(w)' => WriteCollected(w)
        /\ Arming(w)' => Arming(w)
        /\ MayOpen(w)' => MayOpen(w)
    BY <1>1, <2>1 DEF WriteNoted, WriteCollected, GoneCollected, Arming, MayOpen, Returned
  <2>4. /\ Calls(w)' <= Calls(w) /\ Dirt(w)' <= Dirt(w) /\ Noted(w)' <= Noted(w)
        /\ Collected(w)' <= Collected(w) /\ Arms(w)' <= Arms(w) /\ Opens(w)' <= Opens(w)
    BY <1>1, <2>1, <2>3, AllKept
  <2>5. Credit(w)'
    BY <1>1, <2>4 DEF Credit, AtWatch
  <2> QED
    BY <2>2, <2>5 DEF AtWatch
<1>3. CASE ~m_shutdown
  <2>1. DisarmWatches(m_pendingUnwatches) /\ pc' = "kevent" /\ UNCHANGED dirty
    BY <1>3 DEF RunTop
  <2>2. w \in m_watches /\ caller[w] \in {"unwatching", "done"} => w \in m_pendingUnwatches
    BY DEF AtWatch, TablesAt
  <2>3. late[w] = 1 /\ w \in m_watches => w \in m_pendingUnwatches
    BY <2>2 DEF AtWatch, LateAt
  <2> QED
    BY <1>1, <2>1, <2>2, <2>3, DisarmAt
<1> QED
  BY <1>2, <1>3

\* kevent(): what was noted of a watch becomes an event, and is noted no more.
LEMMA KeventAt ==
    ASSUME TypesOK, TypesOK', RunInv, KeventReturns, NEW w \in WatchId, AtWatch(w)
    PROVE  AtWatch(w)'
<1> USE NumbersAre, OnesAre, OnesAreNext
<1>1. /\ pc = "kevent" /\ pc' = "handle" /\ events = {}
      /\ UNCHANGED <<version, inode, touches, fileFd, m_watches, m_pendingUnwatches, armFailures, armFd, m_mutex,
                     dirty, calling, caller, owner, fired, late>>
  BY DEF KeventReturns, RunInv, fsVars, tableVars, lockVars, userVars, histVars
<1>2. PICK E \in SUBSET Ready :
          /\ events' = E
          /\ fileNotes' = [x \in WatchId |-> IF FileEvent(x) \in E THEN {} ELSE fileNotes[x]]
  BY Zenon DEF KeventReturns
<1>3. /\ WriteCollected(w)' => WriteNoted(w) /\ FileEvent(w) \in E
      /\ GoneCollected(w)' => "gone" \in fileNotes[w] /\ FileEvent(w) \in E
      /\ [watch |-> w, fd |-> "dir", gone |-> TRUE] \notin events'
  <2>1. ASSUME NEW g \in BOOLEAN, [watch |-> w, fd |-> "file", gone |-> g] \in E
        PROVE  fileNotes[w] # {} /\ g = ("gone" \in fileNotes[w]) /\ FileEvent(w) \in E
    BY <2>1 DEF Ready, FileEvent, DirEvent, WakeEvent
  <2>2. [watch |-> w, fd |-> "dir", gone |-> TRUE] \notin Ready
    BY DEF Ready, FileEvent, DirEvent, WakeEvent
  <2> QED
    BY <1>2, <2>1, <2>2 DEF WriteCollected, GoneCollected, WriteNoted
<1>4. fileNotes'[w] = IF FileEvent(w) \in E THEN {} ELSE fileNotes[w]
  BY <1>2
<1>5. EventsAt(w)'
  BY <1>1, <1>3, <1>4 DEF AtWatch, EventsAt, WriteNoted
<1>6. TablesAt(w)' /\ LateAt(w)'
  BY <1>1 DEF AtWatch, TablesAt, LateAt, Returned
<1>7. /\ MayOpen(w)' => MayOpen(w)
      /\ Arming(w)' => Arming(w)
      /\ WriteNoted(w)' \/ WriteCollected(w)' => WriteNoted(w)
      /\ ~(WriteNoted(w)' /\ WriteCollected(w)')
  BY <1>1, <1>3, <1>4 DEF MayOpen, Arming, WriteNoted, Returned
<1>8. /\ Calls(w)' <= Calls(w) /\ Dirt(w)' <= Dirt(w) /\ Arms(w)' <= Arms(w) /\ Opens(w)' <= Opens(w)
  BY <1>1, <1>7, OnesKept
<1>9. Noted(w)' + Collected(w)' <= Noted(w)
  BY <1>7 DEF Noted, Collected, One
<1>10. Credit(w)'
  BY <1>1, <1>8, <1>9 DEF Credit, AtWatch
<1> QED
  BY <1>5, <1>6, <1>10 DEF AtWatch

\* HandleEvent: the event of a write makes its watch dirty; a file that has gone
\* sends it to the one at the path.
LEMMA HandleEventAt ==
    ASSUME TypesOK, TypesOK', RunInv, NEW e \in events, HandleEvent(e), NEW w \in WatchId, AtWatch(w)
    PROVE  AtWatch(w)'
<1> USE NumbersAre, OnesAre, OnesAreNext
<1>1. /\ pc = "handle" /\ events' = events \ {e}
      /\ UNCHANGED <<version, inode, touches, m_watches, m_pendingUnwatches, calling, caller, owner, fired, late>>
      /\ \/ Ignored(e)
         \/ /\ e # WakeEvent /\ m_mutex = "free"
            /\ e.watch \in m_watches
            /\ e.fd = "file" => fileFd[e.watch] # 0
            /\ Wrote(e) \/ Lost(e) \/ Opened(e)
  BY HandleEventDoes DEF fsVars, userVars, histVars
<1>0. /\ WriteCollected(w)' => WriteCollected(w)
      /\ GoneCollected(w)' => GoneCollected(w)
      /\ [watch |-> w, fd |-> "dir", gone |-> TRUE] \notin events'
      /\ "free" # w
  BY <1>1, WatcherAssumption DEF WriteCollected, GoneCollected, AtWatch, EventsAt
<1>2. CASE Ignored(e)
  <2>1. UNCHANGED <<fileFd, fileNotes, m_mutex, armFd, armFailures, pc, dirty>>
    BY <1>2 DEF Ignored, lockVars
  <2>2. EventsAt(w)'
    BY <1>0, <1>1, <2>1 DEF AtWatch, EventsAt
  <2>3. TablesAt(w)' /\ LateAt(w)'
    BY <1>1, <2>1 DEF AtWatch, TablesAt, LateAt, Returned
  <2>4. /\ WriteNoted(w)' => WriteNoted(w)
        /\ Arming(w)' => Arming(w)
        /\ MayOpen(w)' => MayOpen(w)
    BY <1>0, <1>1, <2>1 DEF WriteNoted, Arming, MayOpen, Returned
  <2>5. /\ Calls(w)' <= Calls(w) /\ Dirt(w)' <= Dirt(w) /\ Noted(w)' <= Noted(w)
        /\ Collected(w)' <= Collected(w) /\ Arms(w)' <= Arms(w) /\ Opens(w)' <= Opens(w)
    BY <1>0, <1>1, <2>1, <2>4, AllKept
  <2>6. Credit(w)'
    BY <1>1, <2>1, <2>5 DEF Credit, AtWatch
  <2> QED
    BY <2>2, <2>3, <2>6 DEF AtWatch
<1>3. CASE e # WakeEvent /\ m_mutex = "free" /\ e.watch \in m_watches /\ Wrote(e)
  <2>0. e = [watch |-> e.watch, fd |-> "file", gone |-> FALSE] /\ e.watch \in WatchId
    <3>1. e.gone \in BOOLEAN /\ e = [watch |-> e.watch, fd |-> e.fd, gone |-> e.gone]
      BY <1>3, EventIs DEF TypesOK
    <3> QED
      BY <1>3, <3>1 DEF Wrote, TypesOK
  <2>1. UNCHANGED <<fileFd, fileNotes, m_mutex, armFd, armFailures, pc>> /\ dirty' = dirty \cup {e.watch}
    BY <1>3 DEF Wrote, lockVars
  <2>2. EventsAt(w)'
    BY <1>0, <1>1, <2>1 DEF AtWatch, EventsAt
  <2>3. w \in dirty' /\ w \notin dirty => w = e.watch /\ WriteCollected(w) /\ ~WriteCollected(w)'
    BY <1>1, <2>0, <2>1 DEF WriteCollected
  <2>4. TablesAt(w)'
    BY <1>0, <1>1, <1>3, <2>1, <2>3 DEF AtWatch, TablesAt, Returned
  <2>5. LateAt(w)'
    BY <1>1, <2>1 DEF AtWatch, LateAt
  <2>6. /\ WriteNoted(w)' => WriteNoted(w)
        /\ Arming(w)' => Arming(w)
        /\ MayOpen(w)' => MayOpen(w)
    BY <1>0, <1>1, <2>1 DEF WriteNoted, Arming, MayOpen, Returned
  <2>7. /\ Calls(w)' <= Calls(w) /\ Noted(w)' <= Noted(w)
        /\ Collected(w)' <= Collected(w) /\ Arms(w)' <= Arms(w) /\ Opens(w)' <= Opens(w)
    BY <1>0, <1>1, <2>1, <2>6, OnesKept
  <2>8. Dirt(w)' + Collected(w)' <= Dirt(w) + Collected(w)
    BY <1>0, <2>3 DEF Dirt, Collected, One
  <2>9. Credit(w)'
    BY <1>1, <2>1, <2>7, <2>8 DEF Credit, AtWatch
  <2> QED
    BY <2>2, <2>4, <2>5, <2>9 DEF AtWatch
<1>4. CASE e # WakeEvent /\ m_mutex = "free" /\ e.watch \in m_watches /\ (Lost(e) \/ Opened(e))
  <2>0. /\ e.watch \in WatchId
        /\ \/ e = [watch |-> e.watch, fd |-> "file", gone |-> TRUE]
           \/ e.fd = "dir" /\ fileFd[e.watch] = 0
    <3>1. e.gone \in BOOLEAN /\ e = [watch |-> e.watch, fd |-> e.fd, gone |-> e.gone]
      BY <1>4, EventIs DEF TypesOK
    <3> QED
      BY <1>4, <3>1 DEF Lost, Opened, TypesOK
  <2>1. /\ fileFd' = [fileFd EXCEPT ![e.watch] = 0]
        /\ fileNotes' \in {fileNotes, [fileNotes EXCEPT ![e.watch] = {}]}
        /\ e.fd = "file" => fileNotes' = [fileNotes EXCEPT ![e.watch] = {}]
        /\ UNCHANGED <<armFailures, dirty>>
        /\ \/ inode = 0 /\ UNCHANGED <<m_mutex, armFd, pc>>
           \/ inode # 0 /\ m_mutex' = e.watch /\ armFd' = inode /\ pc' = "arm"
    BY <1>4 DEF Lost, Opened, lockVars
  <2>2. CASE w # e.watch
    <3>1. fileFd'[w] = fileFd[w] /\ fileNotes'[w] = fileNotes[w] /\ m_mutex # w /\ m_mutex' # w
      BY <1>0, <1>4, <2>1, <2>2 DEF TypesOK
    <3>2. EventsAt(w)'
      BY <1>0, <1>1, <3>1 DEF AtWatch, EventsAt
    <3>3. TablesAt(w)'
      BY <1>1, <2>1, <3>1 DEF AtWatch, TablesAt, Returned
    <3>4. LateAt(w)'
      BY <1>1, <2>1 DEF AtWatch, LateAt
    <3>5. /\ WriteNoted(w)' => WriteNoted(w)
          /\ Arming(w)' => Arming(w)
          /\ MayOpen(w)' => MayOpen(w)
      BY <1>0, <1>1, <3>1 DEF WriteNoted, Arming, MayOpen, Returned
    <3>6. /\ Calls(w)' <= Calls(w) /\ Dirt(w)' <= Dirt(w) /\ Noted(w)' <= Noted(w)
          /\ Collected(w)' <= Collected(w) /\ Arms(w)' <= Arms(w) /\ Opens(w)' <= Opens(w)
      BY <1>0, <1>1, <2>1, <3>5, AllKept
    <3>7. Credit(w)'
      BY <1>1, <2>1, <3>6 DEF Credit, AtWatch
    <3> QED
      BY <3>2, <3>3, <3>4, <3>7 DEF AtWatch
  <2>3. CASE w = e.watch
    <3>1. /\ fileFd'[w] = 0 /\ fileNotes'[w] = {}
          /\ ~WriteCollected(w)' /\ ~GoneCollected(w)'
          /\ fileFd[w] = 0 \/ GoneCollected(w)
      <4>1. CASE e = [watch |-> w, fd |-> "file", gone |-> TRUE]
        <5>1. GoneCollected(w) /\ ~WriteCollected(w) /\ ~GoneCollected(w)'
          BY <1>1, <4>1 DEF GoneCollected, AtWatch, EventsAt
        <5> QED
          BY <1>0, <2>1, <4>1, <5>1 DEF TypesOK
      <4>2. CASE e.fd = "dir" /\ fileFd[w] = 0
        <5>1. ~GoneCollected(w) /\ ~WriteCollected(w) /\ fileNotes[w] = {}
          BY <4>2 DEF AtWatch, EventsAt
        <5> QED
          BY <1>0, <2>1, <4>2, <5>1 DEF TypesOK
      <4> QED
        BY <2>0, <2>3, <4>1, <4>2
    <3>2. EventsAt(w)'
      BY <1>0, <3>1 DEF EventsAt
    <3>3. Returned(w) /\ Returned(w)'
      BY <1>0, <1>1, <1>4, <2>3 DEF AtWatch, TablesAt, Returned
    <3>4. TablesAt(w)'
      BY <1>1, <2>1, <3>1, <3>3 DEF AtWatch, TablesAt, Returned
    <3>5. LateAt(w)'
      BY <1>1, <2>1 DEF AtWatch, LateAt
    <3>6. ~WriteNoted(w)' /\ ~Arming(w)
      BY <1>1, <3>1 DEF WriteNoted, Arming
    <3>7. /\ ~(Arming(w)' /\ MayOpen(w)')
          /\ Arming(w)' \/ MayOpen(w)' => MayOpen(w)
      BY <1>1, <1>4, <2>1, <2>3, <3>1, <3>3, <3>6 DEF Arming, MayOpen
    <3>8. /\ Calls(w)' <= Calls(w) /\ Dirt(w)' <= Dirt(w) /\ Noted(w)' <= Noted(w)
          /\ Collected(w)' <= Collected(w)
      BY <1>1, <2>1, <3>1, <3>6, OnesKept
    <3>9. Arms(w)' + Opens(w)' <= Arms(w) + Opens(w)
      BY <3>6, <3>7 DEF Arms, Opens, One
    <3>10. Credit(w)'
      BY <1>1, <2>1, <3>8, <3>9 DEF Credit, AtWatch
    <3> QED
      BY <3>2, <3>4, <3>5, <3>10 DEF AtWatch
  <2> QED
    BY <2>2, <2>3
<1> QED
  BY <1>1, <1>2, <1>3, <1>4

\* The arming of a file that Run has opened makes the watch dirty, or fails.
LEMMA RunArmsAt ==
    ASSUME TypesOK, TypesOK', RunInv, NEW ok \in BOOLEAN, RunArms(ok), NEW w \in WatchId, AtWatch(w)
    PROVE  AtWatch(w)'
<1> USE NumbersAre, OnesAre, OnesAreNext
<1>1. /\ pc = "arm" /\ pc' = "handle" /\ m_mutex' = "free" /\ armFd # 0
      /\ m_mutex \in WatchId /\ Returned(m_mutex) /\ fileFd[m_mutex] = 0
      /\ fileFd' = [fileFd EXCEPT ![m_mutex] = IF ok THEN armFd ELSE 0]
      /\ fileNotes' = [fileNotes EXCEPT ![m_mutex] = {}]
      /\ armFailures' = IF ok THEN armFailures ELSE armFailures + 1
      /\ dirty' = IF ok THEN dirty \cup {m_mutex} ELSE dirty
      /\ UNCHANGED <<version, inode, touches, events, m_watches, m_pendingUnwatches, calling, caller, owner, fired, late>>
  BY DEF RunArms, RunInv, ArmFile, EvAdd, MarkDirty, fsVars, userVars, histVars
<1>0. "free" # w
  BY WatcherAssumption
<1>2. CASE w # m_mutex
  <2>1. /\ fileFd'[w] = fileFd[w] /\ fileNotes'[w] = fileNotes[w] /\ m_mutex' # w
        /\ (w \in dirty') <=> (w \in dirty)
    BY <1>0, <1>1, <1>2 DEF TypesOK
  <2>2. EventsAt(w)'
    BY <1>1, <2>1 DEF AtWatch, EventsAt, WriteCollected, GoneCollected
  <2>3. TablesAt(w)' /\ LateAt(w)'
    BY <1>1, <1>2, <2>1 DEF AtWatch, TablesAt, LateAt, Returned
  <2>4. /\ WriteNoted(w)' => WriteNoted(w)
        /\ WriteCollected(w)' => WriteCollected(w)
        /\ Arming(w)' => Arming(w)
        /\ MayOpen(w)' => MayOpen(w)
    BY <1>1, <1>2, <2>1 DEF WriteNoted, WriteCollected, GoneCollected, Arming, MayOpen, Returned
  <2>5. /\ Calls(w)' <= Calls(w) /\ Dirt(w)' <= Dirt(w) /\ Noted(w)' <= Noted(w)
        /\ Collected(w)' <= Collected(w) /\ Arms(w)' <= Arms(w) /\ Opens(w)' <= Opens(w)
    BY <1>1, <2>1, <2>4, AllKept
  <2>6. version + touches + armFailures <= version' + touches' + armFailures'
    BY <1>1
  <2>7. Credit(w)'
    BY <1>1, <2>5, <2>6, CreditKept DEF AtWatch
  <2> QED
    BY <2>2, <2>3, <2>7 DEF AtWatch
<1>3. CASE w = m_mutex
  <2>1. /\ fileFd'[w] = IF ok THEN armFd ELSE 0
        /\ fileNotes'[w] = {}
        /\ Returned(w) /\ Returned(w)' /\ fileFd[w] = 0
    BY <1>1, <1>3 DEF TypesOK, Returned
  <2>2. /\ ~WriteCollected(w) /\ ~GoneCollected(w) /\ ~WriteCollected(w)' /\ ~GoneCollected(w)'
    BY <1>1, <2>1 DEF AtWatch, EventsAt, WriteCollected, GoneCollected
  <2>3. EventsAt(w)'
    BY <1>1, <2>1, <2>2 DEF AtWatch, EventsAt
  <2>4. TablesAt(w)' /\ LateAt(w)'
    BY <1>1, <2>1 DEF AtWatch, TablesAt, LateAt, Returned
  <2>5. Arming(w) /\ ~Arming(w)' /\ ~WriteNoted(w)' /\ (ok => ~MayOpen(w)')
    BY <1>1, <1>3, <2>1, <2>2 DEF Arming, WriteNoted, MayOpen
  <2>6. Arms(w) = 1 /\ Arms(w)' = 0 /\ Noted(w)' = 0 /\ Collected(w)' = 0 /\ (ok => Opens(w)' = 0)
    BY <2>2, <2>5 DEF Arms, Noted, Collected, Opens, One
  <2>7. Calls(w)' <= Calls(w)
    BY <1>1, OnesKept
  <2>8. ~ok => Dirt(w)' <= Dirt(w)
    BY <1>1, OnesKept
  <2>9. CASE ok
    <3>1. Credit(w)'
      BY <1>1, <2>6, <2>7, <2>9 DEF Credit, AtWatch
    <3> QED
      BY <2>3, <2>4, <3>1 DEF AtWatch
  <2>10. CASE ~ok
    <3>1. Credit(w)'
      BY <1>1, <2>6, <2>7, <2>8, <2>10 DEF Credit, AtWatch
    <3> QED
      BY <2>3, <2>4, <3>1 DEF AtWatch
  <2> QED
    BY <2>9, <2>10
<1> QED
  BY <1>2, <1>3

\* FireDirty: the dirty watches are called.
LEMMA EndOfBatchAt ==
    ASSUME TypesOK, TypesOK', RunInv, EndOfBatch, NEW w \in WatchId, AtWatch(w)
    PROVE  AtWatch(w)'
<1> USE NumbersAre, OnesAre, OnesAreNext
<1>1. /\ pc = "handle" /\ calling = {}
      /\ \/ /\ m_mutex = "free" /\ calling' = dirty \cap m_watches /\ dirty' = {} /\ pc' = "call"
         \/ pc' = "top" /\ UNCHANGED <<dirty, calling>>
      /\ UNCHANGED <<version, inode, touches, fileFd, fileNotes, armFailures, armFd, m_mutex, events, m_watches,
                     m_pendingUnwatches, caller, owner, fired, late>>
  BY DEF EndOfBatch, RunInv, fsVars, kernelVars, tableVars, lockVars, userVars, histVars
<1>2. EventsAt(w)'
  BY <1>1 DEF AtWatch, EventsAt, WriteCollected, GoneCollected
<1>3. TablesAt(w)'
  BY <1>1 DEF AtWatch, TablesAt, Returned
<1>4. LateAt(w)'
  BY <1>1 DEF AtWatch, LateAt
<1>5. /\ WriteNoted(w)' => WriteNoted(w)
      /\ WriteCollected(w)' => WriteCollected(w)
      /\ Arming(w)' => Arming(w)
      /\ MayOpen(w)' => MayOpen(w)
  BY <1>1 DEF WriteNoted, WriteCollected, GoneCollected, Arming, MayOpen, Returned
<1>6. /\ Noted(w)' <= Noted(w) /\ Collected(w)' <= Collected(w)
      /\ Arms(w)' <= Arms(w) /\ Opens(w)' <= Opens(w)
  BY <1>5, OnesKept
<1>7. Calls(w)' + Dirt(w)' <= Calls(w) + Dirt(w)
  BY <1>1 DEF Calls, Dirt, One
<1>8. Credit(w)'
  BY <1>1, <1>6, <1>7 DEF Credit, AtWatch
<1> QED
  BY <1>2, <1>3, <1>4, <1>8 DEF AtWatch

\* A callback: one that comes late is the last.
LEMMA CallbackAt ==
    ASSUME TypesOK, TypesOK', RunInv, NEW v \in WatchId, Callback(v), NEW w \in WatchId, AtWatch(w)
    PROVE  AtWatch(w)'
<1> USE NumbersAre, OnesAre, OnesAreNext
<1>1. /\ pc = "call" /\ v \in calling /\ calling' = calling \ {v}
      /\ fired' = [fired EXCEPT ![v] = @ + 1]
      /\ late' = [late EXCEPT ![v] = IF caller[v] = "done" THEN @ + 1 ELSE @]
      /\ UNCHANGED <<version, inode, touches, fileFd, fileNotes, armFailures, armFd, m_mutex, events, m_watches,
                     m_pendingUnwatches, caller, owner, pc, dirty>>
  BY DEF Callback, fsVars, kernelVars, tableVars, lockVars, userVars
<1>2. CASE w # v
  <2>1. fired'[w] = fired[w] /\ late'[w] = late[w] /\ (w \in calling <=> w \in calling')
    BY <1>1, <1>2 DEF TypesOK
  <2> QED
    BY <1>1, <2>1, OthersKept
<1>3. CASE w = v
  <2>1. EventsAt(w)'
    BY <1>1 DEF AtWatch, EventsAt, WriteCollected, GoneCollected
  <2>2. TablesAt(w)'
    BY <1>1 DEF AtWatch, TablesAt, Returned
  <2>3. late[w] = 0 /\ fired'[w] = fired[w] + 1 /\ w \notin calling'
    BY <1>1, <1>3 DEF AtWatch, LateAt, TypesOK
  <2>4. late'[w] = IF caller[w] = "done" THEN 1 ELSE 0
    BY <1>1, <1>3, <2>3 DEF TypesOK
  <2>5. LateAt(w)'
    BY <1>1, <2>3, <2>4 DEF LateAt
  <2>6. /\ WriteNoted(w)' => WriteNoted(w)
        /\ WriteCollected(w)' => WriteCollected(w)
        /\ Arming(w)' => Arming(w)
        /\ MayOpen(w)' => MayOpen(w)
    BY <1>1 DEF WriteNoted, WriteCollected, GoneCollected, Arming, MayOpen, Returned
  <2>7. /\ Dirt(w)' <= Dirt(w) /\ Noted(w)' <= Noted(w) /\ Collected(w)' <= Collected(w)
        /\ Arms(w)' <= Arms(w) /\ Opens(w)' <= Opens(w)
    BY <1>1, <2>6, OnesKept
  <2>8. Calls(w)' = 0 /\ Calls(w) = 1
    BY <1>1, <1>3 DEF Calls, One
  <2>9. Credit(w)'
    BY <1>1, <2>3, <2>7, <2>8 DEF Credit, AtWatch
  <2> QED
    BY <2>1, <2>2, <2>5, <2>9 DEF AtWatch
<1> QED
  BY <1>2, <1>3

\* The steps that only move Run on, let time pass, or begin the destructor.
LEMMA MovesAt ==
    ASSUME TypesOK, TypesOK', RunInv, NEW w \in WatchId, AtWatch(w),
           CallbacksEnd \/ KeventFails \/ DeadlinePasses \/ StoreShutdown \/ WakeToEnd \/ UNCHANGED vars
    PROVE  AtWatch(w)'
<1> USE NumbersAre, OnesAre, OnesAreNext
<1>1. /\ \/ pc' = pc
         \/ pc # "arm" /\ pc' = "top"
      /\ owner' # "alive" => owner # "alive" \/ caller[w] \notin {"opened", "arming", "unwatching"}
      /\ UNCHANGED <<version, inode, touches, fileFd, fileNotes, armFailures, armFd, m_mutex, events, m_watches,
                     m_pendingUnwatches, caller, dirty, calling, fired, late>>
  BY DEF CallbacksEnd, KeventFails, DeadlinePasses, StoreShutdown, WakeToEnd, vars, fsVars, kernelVars,
         tableVars, lockVars, runVars, userVars, histVars
<1>2. EventsAt(w)'
  BY <1>1 DEF AtWatch, EventsAt, WriteCollected, GoneCollected
<1>3. TablesAt(w)' /\ LateAt(w)'
  BY <1>1 DEF AtWatch, TablesAt, LateAt, Returned
<1>4. /\ WriteNoted(w)' => WriteNoted(w)
      /\ WriteCollected(w)' => WriteCollected(w)
      /\ Arming(w)' => Arming(w)
      /\ MayOpen(w)' => MayOpen(w)
  BY <1>1 DEF WriteNoted, WriteCollected, GoneCollected, Arming, MayOpen, Returned
<1>5. /\ Calls(w)' <= Calls(w) /\ Dirt(w)' <= Dirt(w) /\ Noted(w)' <= Noted(w)
      /\ Collected(w)' <= Collected(w) /\ Arms(w)' <= Arms(w) /\ Opens(w)' <= Opens(w)
  BY <1>1, <1>4, AllKept
<1>6. Credit(w)'
  BY <1>1, <1>5 DEF Credit, AtWatch
<1> QED
  BY <1>2, <1>3, <1>6 DEF AtWatch

\* Every step keeps what holds of each watch.
LEMMA NextAt ==
    ASSUME TypesOK, TypesOK', RunInv, \A w \in WatchId : AtWatch(w), [Next]_vars
    PROVE  \A w \in WatchId : AtWatch(w)'
<1> SUFFICES ASSUME NEW w \in WatchId PROVE AtWatch(w)'
  OBVIOUS
<1>1. CASE FileSystem
  BY <1>1, FileSystemAt
<1>2. ASSUME NEW v \in WatchId, WatchFile(v) PROVE AtWatch(w)'
  BY <1>2, WatchFileAt
<1>3. ASSUME NEW v \in WatchId, UnwatchQueues(v) \/ UnwatchWakes(v) PROVE AtWatch(w)'
  BY <1>3, UnwatchAt
<1>4. CASE RunTop
  BY <1>4, RunTopAt
<1>5. CASE KeventReturns
  BY <1>5, KeventAt
<1>6. ASSUME NEW e \in events, HandleEvent(e) PROVE AtWatch(w)'
  BY <1>6, HandleEventAt
<1>7. ASSUME NEW ok \in BOOLEAN, RunArms(ok) PROVE AtWatch(w)'
  BY <1>7, RunArmsAt
<1>8. CASE EndOfBatch
  BY <1>8, EndOfBatchAt
<1>9. ASSUME NEW v \in WatchId, Callback(v) PROVE AtWatch(w)'
  BY <1>9, CallbackAt
<1>10. CASE CallbacksEnd \/ KeventFails \/ DeadlinePasses \/ StoreShutdown \/ WakeToEnd \/ UNCHANGED vars
  BY <1>10, MovesAt
<1>11. CASE Join
  <2>1. /\ pc = "ended" /\ owner # "alive" /\ DisarmWatches(m_watches)
        /\ UNCHANGED <<version, inode, touches, armFailures, events, dirty, calling, caller, fired, late, m_mutex,
                       pc, m_pendingUnwatches>>
    BY <1>11 DEF Join, fsVars, lockVars, runVars, histVars
  <2>2. events = {}
    BY <2>1 DEF RunInv
  <2> QED
    BY <2>1, <2>2, DisarmAt
<1> QED
  BY <1>1, <1>2, <1>3, <1>4, <1>5, <1>6, <1>7, <1>8, <1>9, <1>10, <1>11 DEF Next, Run, Destructor

\* Every step keeps RunInv.
LEMMA NextRunInv ==
    ASSUME TypesOK, TypesOK', RunInv, \A w \in WatchId : AtWatch(w), [Next]_vars
    PROVE  RunInv'
<1>f. "free" \notin WatchId
  BY WatcherAssumption
<1>1. CASE FileSystem \/ DeadlinePasses \/ StoreShutdown \/ WakeToEnd \/ UNCHANGED vars
  <2>1. /\ UNCHANGED <<pc, m_mutex, armFd, caller, fileFd, events, calling>>
        /\ owner' = "gone" => owner = "gone"
    BY <1>1, FileSystemNotes, NotesDo DEF DeadlinePasses, StoreShutdown, WakeToEnd, vars, tableVars,
                lockVars, runVars, userVars
  <2> QED
    BY <2>1 DEF RunInv, Returned
<1>2. ASSUME NEW v \in WatchId, WatchFile(v) PROVE RunInv'
  <2>1. /\ caller[v] \in {"new", "opened", "arming"}
        /\ caller[v] = "new" => UNCHANGED <<m_mutex, armFd, fileFd>>
        /\ caller[v] = "opened" => m_mutex = "free"
        /\ caller' = caller \/ \E s \in Callers : caller' = [caller EXCEPT ![v] = s]
        /\ UNCHANGED <<pc, events, calling, owner>>
    BY <1>2 DEF WatchFile, WatchOpensDir, WatchArmsDir, WatchOpensFile, WatchArmsFile, WatchReturns,
                tableVars, lockVars, runVars, userVars, Callers
  <2>2. pc = "arm" => caller[v] = "new" /\ v # m_mutex
    BY <1>f, <2>1 DEF RunInv, Returned, AtWatch, TablesAt
  <2> QED
    BY <2>1, <2>2 DEF RunInv, Returned, TypesOK
<1>3. ASSUME NEW v \in WatchId, UnwatchQueues(v) \/ UnwatchWakes(v) PROVE RunInv'
  <2>1. /\ UNCHANGED <<pc, m_mutex, armFd, fileFd, events, calling, owner>>
        /\ \E s \in {"unwatching", "done"} : caller' = [caller EXCEPT ![v] = s]
    BY <1>3 DEF UnwatchQueues, UnwatchWakes, tableVars, lockVars, runVars
  <2> QED
    BY <2>1 DEF RunInv, Returned, TypesOK
<1>4. CASE RunTop \/ KeventFails \/ CallbacksEnd \/ Join
  <2>1. /\ pc \notin {"arm", "handle"} /\ pc' \notin {"arm", "handle"}
        /\ calling = {} /\ UNCHANGED <<events, calling>>
        /\ owner' = "gone" => owner = "gone" \/ pc' = "ended"
        /\ pc' = pc \/ pc # "ended"
    BY <1>4 DEF RunTop, KeventFails, CallbacksEnd, Join, runVars, userVars, RunInv
  <2> QED
    BY <2>1 DEF RunInv
<1>5. CASE KeventReturns
  BY <1>5 DEF KeventReturns, RunInv, userVars
<1>6. ASSUME NEW e \in events, HandleEvent(e) PROVE RunInv'
  <2>1. /\ pc = "handle"
        /\ UNCHANGED <<m_watches, calling, caller, owner>>
        /\ \/ pc' = pc
           \/ /\ pc' = "arm" /\ m_mutex = "free"
              /\ e.watch \in m_watches /\ fileFd' = [fileFd EXCEPT ![e.watch] = 0]
              /\ inode # 0 /\ m_mutex' = e.watch /\ armFd' = inode
    BY <1>6, HandleEventDoes DEF fsVars, userVars, histVars, Ignored, Wrote, Lost, Opened
  <2>2. ASSUME NEW x \in m_watches, m_mutex = "free" PROVE x \in WatchId /\ Returned(x)
    BY <1>f, <2>2 DEF TypesOK, AtWatch, TablesAt
  <2>3. CASE pc' = pc
    BY <2>1, <2>3 DEF RunInv
  <2>4. CASE pc' = "arm"
    BY <2>1, <2>2, <2>4 DEF RunInv, Returned, TypesOK
  <2> QED
    BY <2>1, <2>3, <2>4
<1>7. ASSUME NEW ok \in BOOLEAN, RunArms(ok) PROVE RunInv'
  BY <1>7 DEF RunArms, RunInv, userVars
<1>8. CASE EndOfBatch
  BY <1>8 DEF EndOfBatch, RunInv, userVars
<1>9. ASSUME NEW v \in WatchId, Callback(v) PROVE RunInv'
  BY <1>9 DEF Callback, RunInv, userVars
<1> QED
  BY <1>1, <1>2, <1>3, <1>4, <1>5, <1>6, <1>7, <1>8, <1>9 DEF Next, Run, Destructor

\* Every step keeps DirInv: WatchFile opens the directory at the path, and only
\* DisarmWatch and a failure of WatchFile close it.
LEMMA NextDirInv ==
    ASSUME TypesOK, DirInv, [Next]_vars
    PROVE  DirInv'
<1>0. moves \in Nat /\ dir \in {0, moves + 1}
  BY DEF TypesOK
<1>d. dirFd \in [WatchId -> Nat] /\ \A w \in WatchId : DirAt(w)
  BY DEF DirInv
<1>k. ASSUME UNCHANGED <<moves, dir, dirFd>>, m_watches' \subseteq m_watches,
             \A w \in WatchId :
                /\ caller'[w] \in {"new", "opened"} => caller'[w] = caller[w]
                /\ w \in m_pendingUnwatches' => w \in m_pendingUnwatches \/ caller'[w] = "unwatching"
      PROVE  DirInv'
  BY <1>d, <1>k DEF DirInv, DirAt
<1>1. CASE FileSystem
  <2>1. UNCHANGED <<dirFd, m_watches, m_pendingUnwatches, caller>>
    BY <1>1, FileSystemNotes, NotesDo DEF tableVars, userVars
  <2>2. \/ UNCHANGED <<moves, dir>>
        \/ dir = moves + 1 /\ dir' = 0 /\ moves' = moves + 1
        \/ dir = 0 /\ UNCHANGED moves
    BY <1>0, <1>1, FileSystemIs DEF Write, Replace, Remove, MoveDir, MakeDir, ChangeOther, Touch, fsVars
  <2>3. ASSUME NEW w \in WatchId PROVE DirAt(w)'
    <3>1. dirFd[w] \in Nat /\ DirAt(w)
      BY <1>d
    <3> QED
      BY <1>0, <2>1, <2>2, <3>1 DEF DirAt
  <2> QED
    BY <1>d, <2>1, <2>3 DEF DirInv
<1>2. ASSUME NEW v \in WatchId, WatchFile(v) PROVE DirInv'
  <2>1. ASSUME NEW ok \in BOOLEAN, WatchOpensDir(v, ok) PROVE DirInv'
    <3>1. /\ dirFd' = [dirFd EXCEPT ![v] = IF ok THEN dir ELSE 0] /\ (ok => dir # 0)
          /\ caller[v] = "new" /\ caller' = [caller EXCEPT ![v] = IF ok THEN "opened" ELSE "failed"]
          /\ UNCHANGED <<moves, dir, m_watches, m_pendingUnwatches>>
      BY <2>1 DEF WatchOpensDir, fsVars
    <3> QED
      BY <1>0, <1>d, <3>1 DEF DirInv, DirAt, TypesOK
  <2>2. ASSUME NEW ok \in BOOLEAN, WatchArmsDir(v, ok) PROVE DirInv'
    <3>1. /\ UNCHANGED <<moves, dir, m_pendingUnwatches>> /\ caller[v] = "opened"
          /\ \/ m_watches' = m_watches \cup {v} /\ UNCHANGED dirFd
                /\ caller' = [caller EXCEPT ![v] = "arming"]
             \/ UNCHANGED m_watches /\ dirFd' = [dirFd EXCEPT ![v] = 0]
                /\ caller' = [caller EXCEPT ![v] = "failed"]
      BY <2>2 DEF WatchArmsDir, fsVars
    <3> QED
      BY <1>0, <1>d, <3>1 DEF DirInv, DirAt, TypesOK
  <2>3. CASE WatchOpensFile(v) \/ \E ok \in BOOLEAN : WatchArmsFile(v, ok)
    <3>1. /\ UNCHANGED <<moves, dir, dirFd, m_watches, m_pendingUnwatches>>
          /\ caller' = caller \/ caller' = [caller EXCEPT ![v] = "watching"]
      BY <2>3 DEF WatchOpensFile, WatchArmsFile, WatchReturns, fsVars, tableVars, userVars
    <3> QED
      BY <1>k, <3>1 DEF TypesOK
  <2> QED
    BY <1>2, <2>1, <2>2, <2>3 DEF WatchFile
<1>3. ASSUME NEW v \in WatchId, UnwatchQueues(v) \/ UnwatchWakes(v) PROVE DirInv'
  <2>1. /\ UNCHANGED <<moves, dir, dirFd, m_watches>>
        /\ \/ /\ caller' = [caller EXCEPT ![v] = "unwatching"]
              /\ m_pendingUnwatches' = m_pendingUnwatches \cup {v}
           \/ caller' = [caller EXCEPT ![v] = "done"] /\ UNCHANGED m_pendingUnwatches
    BY <1>3 DEF UnwatchQueues, UnwatchWakes, fsVars, tableVars
  <2> QED
    BY <1>k, <2>1 DEF TypesOK
<1>4. CASE (RunTop /\ ~m_shutdown) \/ Join
  <2>1. PICK W \in {m_watches, m_pendingUnwatches} : DisarmWatches(W)
    BY <1>4, Zenon DEF RunTop, Join
  <2>2. UNCHANGED <<moves, dir, caller>> /\ m_pendingUnwatches' \subseteq m_pendingUnwatches
    BY <1>4 DEF RunTop, Join, fsVars, userVars
  <2>3. ASSUME NEW w \in WatchId PROVE dirFd'[w] \in Nat /\ DirAt(w)'
    <3>1. DirAt(w) /\ dirFd[w] \in Nat
      BY <1>d
    <3>2. /\ dirFd'[w] = IF w \in W THEN 0 ELSE dirFd[w]
          /\ w \in m_watches' => w \in m_watches /\ w \notin W
      BY <2>1 DEF DisarmWatches
    <3>3. caller[w] \in {"new", "opened"} => w \notin W
      BY <2>1, <3>1 DEF DirAt
    <3> QED
      BY <1>0, <2>2, <3>1, <3>2, <3>3 DEF DirAt
  <2>4. dirFd' \in [WatchId -> Nat]
    BY <2>1, <2>3 DEF DisarmWatches
  <2> QED
    BY <2>3, <2>4 DEF DirInv
<1>5. CASE \/ RunTop /\ m_shutdown
           \/ KeventReturns \/ EndOfBatch \/ CallbacksEnd \/ KeventFails \/ DeadlinePasses
           \/ StoreShutdown \/ WakeToEnd \/ UNCHANGED vars
           \/ \E e \in events : HandleEvent(e)
           \/ \E ok \in BOOLEAN : RunArms(ok)
           \/ \E w \in WatchId : Callback(w)
  <2>1. UNCHANGED <<moves, dir, dirFd, m_watches, m_pendingUnwatches, caller>>
    BY <1>5 DEF RunTop, KeventReturns, EndOfBatch, CallbacksEnd, KeventFails, DeadlinePasses, StoreShutdown,
                WakeToEnd, HandleEvent, RunArms, Callback, vars, fsVars, tableVars, userVars
  <2> QED
    BY <1>k, <2>1
<1> QED
  BY <1>1, <1>2, <1>3, <1>4, <1>5 DEF Next, Run, Destructor

-----------------------------------------------------------------------------
(* The invariant.                                                          *)

\* IInv holds when Create() has started the thread.
LEMMA InitInv == Init => IInv
<1> SUFFICES ASSUME Init PROVE IInv
  OBVIOUS
<1>0. MaxChanges \in Nat /\ MaxUpsets \in Nat /\ MaxChanges > 0
  BY WatcherAssumption
<1>1. TypesOK
  <2>1. /\ version \in 0..MaxChanges /\ inode \in 0..MaxChanges /\ armFd \in 0..MaxChanges
        /\ touches \in Nat /\ moves \in Nat /\ armFailures \in Nat
        /\ touches + moves + armFailures <= MaxUpsets /\ dir \in {0, moves + 1}
        /\ fileFd \in [WatchId -> 0..MaxChanges] /\ seen \in [WatchId -> 0..MaxChanges]
        /\ fired \in [WatchId -> Nat] /\ late \in [WatchId -> Nat]
    BY <1>0 DEF Init
  <2>2. /\ fileNotes \in [WatchId -> SUBSET {"gone", "write"}]
        /\ dirNote \in [WatchId -> BOOLEAN]
        /\ caller \in [WatchId -> Callers]
    BY DEF Init, Callers
  <2>3. /\ m_watches \subseteq WatchId /\ missed \subseteq WatchId /\ m_pendingUnwatches \subseteq WatchId
        /\ events \subseteq Event /\ dirty \subseteq WatchId /\ calling \subseteq WatchId
    BY DEF Init
  <2>4. /\ woken \in BOOLEAN /\ m_shutdown \in BOOLEAN
        /\ m_mutex \in {"free"} \cup WatchId
        /\ pc \in {"top", "kevent", "handle", "arm", "call", "ended"}
        /\ deadline \in {"none", "set", "passed"}
        /\ owner \in {"alive", "waking", "joining", "gone"}
    BY DEF Init
  <2> QED
    BY <2>1, <2>2, <2>3, <2>4 DEF TypesOK
<1>2. RunInv /\ DirInv
  BY DEF Init, RunInv, DirInv, DirAt
<1>3. ASSUME NEW w \in WatchId PROVE AtWatch(w)
  <2>1. EventsAt(w) /\ TablesAt(w) /\ LateAt(w)
    BY DEF Init, EventsAt, TablesAt, LateAt, Returned, WriteCollected, GoneCollected
  <2>2. /\ w \notin calling /\ w \notin dirty /\ ~WriteNoted(w) /\ ~WriteCollected(w)
        /\ ~Arming(w) /\ ~MayOpen(w)
    BY DEF Init, WriteNoted, WriteCollected, Arming, MayOpen
  <2>3. Calls(w) = 0 /\ Dirt(w) = 0 /\ Noted(w) = 0 /\ Collected(w) = 0 /\ Arms(w) = 0 /\ Opens(w) = 0
    BY <2>2 DEF One, Calls, Dirt, Noted, Collected, Arms, Opens
  <2>4. fired[w] = 0 /\ version \in Nat /\ touches = 0 /\ armFailures = 0
    BY DEF Init
  <2>5. Credit(w)
    BY <2>3, <2>4 DEF Credit
  <2> QED
    BY <2>1, <2>5 DEF AtWatch
<1> QED
  BY <1>1, <1>2, <1>3 DEF IInv, AtWatch

\* Every step keeps IInv.
LEMMA NextInv == IInv /\ [Next]_vars => IInv'
<1> SUFFICES ASSUME IInv, [Next]_vars PROVE IInv'
  OBVIOUS
<1>1. TypesOK /\ DirInv /\ RunInv /\ \A w \in WatchId : AtWatch(w)
  BY DEF IInv, AtWatch
<1>2. TypesOK'
  BY <1>1, NextTypes
<1>3. RunInv'
  BY <1>1, <1>2, NextRunInv
<1>4. \A w \in WatchId : AtWatch(w)'
  BY <1>1, <1>2, NextAt
<1>5. DirInv'
  BY <1>1, NextDirInv
<1> QED
  BY <1>2, <1>3, <1>4, <1>5 DEF IInv, AtWatch

\* The credit of a watch bounds its callbacks.
LEMMA CreditBounds ==
    ASSUME IInv, NEW w \in WatchId
    PROVE  /\ fired[w] <= version + touches + armFailures
           /\ fired[w] \in 0..(MaxChanges + MaxUpsets)
           /\ late[w] \in 0..(MaxChanges + MaxUpsets)
<1>0. MaxChanges \in Nat /\ MaxUpsets \in Nat
  BY WatcherAssumption
<1>1. /\ fired[w] \in Nat /\ late[w] \in Nat /\ version \in 0..MaxChanges
      /\ touches \in Nat /\ moves \in Nat /\ armFailures \in Nat
      /\ touches + moves + armFailures <= MaxUpsets
  BY DEF IInv, TypesOK
<1>2. fired[w] <= version + touches + armFailures
  BY <1>1, OnesAre DEF IInv, Credit
<1>3. late[w] <= fired[w]
  BY DEF IInv, LateAt
<1> QED
  BY <1>0, <1>1, <1>2, <1>3

\* Every reachable state of the watcher is well typed, the numbers of its
\* callbacks included.
THEOREM TypeCorrect == Spec => []TypeOK
<1>1. ASSUME IInv PROVE TypeOK
  <2>1. /\ fired \in [WatchId -> 0..(MaxChanges + MaxUpsets)]
        /\ late \in [WatchId -> 0..(MaxChanges + MaxUpsets)]
    BY <1>1, CreditBounds DEF IInv, TypesOK
  <2>2. /\ MaxUpsets \in Nat /\ touches \in Nat /\ moves \in Nat /\ armFailures \in Nat
        /\ touches + moves + armFailures <= MaxUpsets /\ dir \in {0, moves + 1}
    BY <1>1, WatcherAssumption DEF IInv, TypesOK
  <2>3. /\ touches \in 0..MaxUpsets /\ moves \in 0..MaxUpsets /\ armFailures \in 0..MaxUpsets
        /\ dir \in 0..(MaxUpsets + 1)
    BY <2>2
  <2>4. ASSUME NEW w \in WatchId PROVE dirFd[w] \in 0..(MaxUpsets + 1)
    <3>1. dirFd[w] \in Nat /\ (dirFd[w] <= moves \/ dirFd[w] = dir)
      BY <1>1 DEF IInv, DirInv, DirAt
    <3> QED
      BY <2>2, <3>1
  <2>5. dirFd \in [WatchId -> 0..(MaxUpsets + 1)]
    BY <1>1, <2>4 DEF IInv, DirInv
  <2> QED
    BY <1>1, <2>1, <2>3, <2>5 DEF IInv, TypesOK, TypeOK
<1> QED
  BY <1>1, InitInv, NextInv, PTL DEF Spec

\* However writes, replaces, removals, changes of attributes and moves of the
\* directory fall between the system calls of Run, however their events are split
\* into batches and coalesced, no watch is called back more often than the path
\* got a new content, a file that some watch had armed was touched, or an arming
\* failed.
THEOREM CallbacksAreEarned == Spec => []NoCallbackWithoutChange
<1>1. ASSUME IInv PROVE NoCallbackWithoutChange
  BY <1>1, CreditBounds DEF NoCallbackWithoutChange
<1> QED
  BY <1>1, InitInv, NextInv, PTL DEF Spec

-----------------------------------------------------------------------------
(* The descriptor a watch has is on the current file.                      *)

\* What StaleOnlyIfUntold says of one watch.
CurrentAt(w) ==
    fileFd[w] \in {0, inode} \/ "gone" \in fileNotes[w] \/ GoneCollected(w)
      \/ w \in missed \/ dirFd[w] # dir

\* The file system sends a watch away from the file that it replaces or removes;
\* when it moves the directory, the watch has another one open than the path.
LEMMA FileSystemCurrent ==
    ASSUME TypesOK, DirInv, FileSystem, NEW w \in m_watches, CurrentAt(w)
    PROVE  CurrentAt(w)'
<1>0. w \in WatchId /\ moves \in Nat /\ dir \in {0, moves + 1}
  BY DEF TypesOK
<1>d. dirFd[w] \in Nat /\ dirFd[w] # 0 /\ (dirFd[w] <= moves \/ dirFd[w] = dir)
  BY <1>0 DEF DirInv, DirAt
<1>1. UNCHANGED <<missed, m_watches, fileFd, dirFd, events>>
  BY FileSystemNotes, NotesDo DEF tableVars, lockVars, runVars
<1>2. fileNotes[w] \subseteq fileNotes'[w]
  BY <1>0, FileSystemNotes, NotesDo
<1>3. ASSUME UNCHANGED <<inode, dir>> PROVE CurrentAt(w)'
  BY <1>1, <1>2, <1>3 DEF CurrentAt, GoneCollected
<1>4. CASE Replace \/ Remove
  <2>1. Notes(inode, "gone", dir) /\ UNCHANGED dir
    BY <1>4 DEF Replace, Remove
  <2>2. fileFd[w] = inode => fileFd[w] = 0 \/ "gone" \in fileNotes'[w]
    BY <1>0, <2>1, NotesDo
  <2> QED
    BY <1>1, <1>2, <2>1, <2>2 DEF CurrentAt, GoneCollected
<1>5. CASE MoveDir
  BY <1>1, <1>5, <1>d DEF MoveDir, CurrentAt
<1>6. CASE MakeDir
  <2>1. dir = 0 /\ dir' = moves + 1
    BY <1>6 DEF MakeDir
  <2>2. dirFd[w] # dir'
    BY <1>0, <1>d, <2>1
  <2> QED
    BY <1>1, <2>2 DEF CurrentAt
<1>7. CASE Write \/ \E v \in WatchId : ChangeOther(v)
  BY <1>3, <1>7 DEF Write, ChangeOther, fsVars
<1>8. ASSUME NEW v \in WatchId, NEW note \in {"gone", "write"}, Touch(fileFd[v], note)
      PROVE  CurrentAt(w)'
  BY <1>3, <1>8 DEF Touch
<1> QED
  BY <1>4, <1>5, <1>6, <1>7, <1>8, FileSystemIs

\* A step that leaves the path alone, arms no file but the current one unless it
\* is missed, and takes no news of a file's end from a watch that keeps its
\* descriptor, leaves it so.
LEMMA CurrentKept ==
    ASSUME StaleOnlyIfUntold, UNCHANGED <<inode, dir>>,
           \A w \in m_watches' :
              \/ fileFd'[w] \in {0, inode} \/ w \in missed'
              \/ /\ w \in m_watches /\ fileFd'[w] = fileFd[w] /\ dirFd'[w] = dirFd[w]
                 /\ w \in missed => w \in missed'
                 /\ "gone" \in fileNotes[w] => "gone" \in fileNotes'[w] \/ GoneCollected(w)'
                 /\ GoneCollected(w) => GoneCollected(w)'
    PROVE  StaleOnlyIfUntold'
<1> SUFFICES ASSUME NEW w \in m_watches'
             PROVE  \/ fileFd'[w] \in {0, inode'} \/ "gone" \in fileNotes'[w] \/ GoneCollected(w)'
                    \/ w \in missed' \/ dirFd'[w] # dir'
  BY DEF StaleOnlyIfUntold
<1>1. w \in m_watches => \/ fileFd[w] \in {0, inode} \/ "gone" \in fileNotes[w] \/ GoneCollected(w)
                         \/ w \in missed \/ dirFd[w] # dir
  BY DEF StaleOnlyIfUntold
<1> QED
  BY <1>1

\* Every step keeps a live descriptor on the current file.
LEMMA NextCurrent ==
    ASSUME IInv, StaleOnlyIfUntold, [Next]_vars
    PROVE  StaleOnlyIfUntold'
<1>t. TypesOK /\ DirInv /\ RunInv /\ \A w \in WatchId : EventsAt(w) /\ TablesAt(w)
  BY DEF IInv
<1>a. ASSUME NEW v \in WatchId, NEW ok \in BOOLEAN, ArmFile(v, ok),
             UNCHANGED <<inode, dir, dirFd, events, m_watches>>
      PROVE  StaleOnlyIfUntold'
  <2>1. /\ fileFd' = [fileFd EXCEPT ![v] = IF ok THEN armFd ELSE 0]
        /\ fileNotes' = [fileNotes EXCEPT ![v] = {}]
        /\ missed' = IF ok /\ armFd # inode THEN missed \cup {v} ELSE missed \ {v}
    BY <1>a DEF ArmFile
  <2>2. fileFd'[v] \in {0, inode} \/ v \in missed'
    BY <1>t, <2>1 DEF TypesOK
  <2>3. \A w \in m_watches : w # v => /\ fileFd'[w] = fileFd[w] /\ fileNotes'[w] = fileNotes[w]
                                     /\ (w \in missed => w \in missed')
    BY <1>t, <2>1 DEF TypesOK
  <2>4. \A w \in m_watches : GoneCollected(w) => GoneCollected(w)'
    BY <1>a DEF GoneCollected
  <2>5. UNCHANGED <<inode, dir, dirFd, m_watches>>
    BY <1>a
  <2> QED
    BY <2>2, <2>3, <2>4, <2>5, CurrentKept
<1>1. CASE FileSystem
  <2>1. m_watches' = m_watches
    BY <1>1, <1>t, FileSystemNotes, NotesDo DEF tableVars
  <2>2. \A w \in m_watches : CurrentAt(w)'
    BY <1>1, <1>t, FileSystemCurrent DEF StaleOnlyIfUntold, CurrentAt
  <2> QED
    BY <2>1, <2>2 DEF StaleOnlyIfUntold, CurrentAt
<1>2. ASSUME NEW v \in WatchId, WatchFile(v) PROVE StaleOnlyIfUntold'
  <2>1. ASSUME NEW ok \in BOOLEAN, WatchOpensDir(v, ok) PROVE StaleOnlyIfUntold'
    <3>1. /\ UNCHANGED <<inode, dir, missed, m_watches, fileFd, fileNotes, events>>
          /\ dirFd' = [dirFd EXCEPT ![v] = IF ok THEN dir ELSE 0] /\ caller[v] = "new"
      BY <2>1 DEF WatchOpensDir, fsVars, kernelVars, lockVars, runVars
    <3>2. v \notin m_watches
      BY <1>t, <3>1 DEF DirInv, DirAt
    <3>3. \A w \in m_watches : dirFd'[w] = dirFd[w]
      BY <1>t, <3>1, <3>2 DEF DirInv, TypesOK
    <3> QED
      BY <3>1, <3>3, CurrentKept DEF GoneCollected
  <2>2. ASSUME NEW ok \in BOOLEAN, WatchArmsDir(v, ok) PROVE StaleOnlyIfUntold'
    <3>1. /\ UNCHANGED <<inode, dir, missed, fileFd, fileNotes, events>> /\ m_watches' \subseteq m_watches \cup {v}
          /\ caller[v] = "opened" /\ (dirFd' = dirFd \/ dirFd' = [dirFd EXCEPT ![v] = 0])
      BY <2>2 DEF WatchArmsDir, fsVars, kernelVars, runVars
    <3>2. fileFd[v] = 0
      BY <1>t, <3>1 DEF TablesAt, Returned
    <3>3. \A w \in m_watches' : w # v => w \in m_watches /\ dirFd'[w] = dirFd[w]
      BY <1>t, <3>1 DEF DirInv, TypesOK
    <3> QED
      BY <3>1, <3>2, <3>3, CurrentKept DEF GoneCollected
  <2>3. CASE WatchOpensFile(v)
    <3>1. UNCHANGED <<inode, dir, missed, fileFd, dirFd, fileNotes, events, m_watches>>
      BY <2>3 DEF WatchOpensFile, OpenFile, WatchReturns, fsVars, kernelVars, tableVars, runVars
    <3> QED
      BY <3>1, CurrentKept DEF GoneCollected
  <2>4. ASSUME NEW ok \in BOOLEAN, WatchArmsFile(v, ok) PROVE StaleOnlyIfUntold'
    <3>1. ArmFile(v, ok) /\ UNCHANGED <<inode, dir, dirFd, events, m_watches>>
      BY <2>4 DEF WatchArmsFile, WatchReturns, fsVars, runVars
    <3> QED
      BY <1>a, <3>1
  <2> QED
    BY <1>2, <2>1, <2>2, <2>3, <2>4 DEF WatchFile
<1>3. CASE RunTop \/ Join
  <2>1. /\ UNCHANGED <<inode, dir, missed, events>>
        /\ m_watches' \subseteq m_watches
        /\ \A w \in WatchId :
              \/ fileFd'[w] = 0
              \/ fileFd'[w] = fileFd[w] /\ dirFd'[w] = dirFd[w] /\ fileNotes'[w] = fileNotes[w]
    BY <1>3 DEF RunTop, Join, DisarmWatches, fsVars, tableVars, lockVars, runVars
  <2>2. \A w \in m_watches' : w \in WatchId /\ w \in m_watches
    BY <2>1, <1>t DEF TypesOK
  <2>3. \A w \in WatchId : GoneCollected(w) => GoneCollected(w)'
    BY <2>1 DEF GoneCollected
  <2> QED
    BY <2>1, <2>2, <2>3, CurrentKept
<1>4. CASE KeventReturns
  <2>1. UNCHANGED <<inode, dir, missed, m_watches, fileFd, dirFd>> /\ events = {}
    BY <1>4, <1>t DEF KeventReturns, RunInv, fsVars, tableVars, lockVars
  <2>2. PICK E \in SUBSET Ready :
          /\ events' = E
          /\ fileNotes' = [x \in WatchId |-> IF FileEvent(x) \in E THEN {} ELSE fileNotes[x]]
    BY <1>4, Zenon DEF KeventReturns
  <2>3. ASSUME NEW w \in WatchId, "gone" \in fileNotes[w]
        PROVE  "gone" \in fileNotes'[w] \/ GoneCollected(w)'
    <3>1. FileEvent(w) = [watch |-> w, fd |-> "file", gone |-> TRUE]
      BY <2>3 DEF FileEvent
    <3> QED
      BY <2>2, <2>3, <3>1 DEF GoneCollected
  <2>4. \A w \in m_watches' : w \in WatchId /\ w \in m_watches
    BY <2>1, <1>t DEF TypesOK
  <2>5. \A w \in WatchId : ~GoneCollected(w)
    BY <2>1 DEF GoneCollected
  <2> QED
    BY <2>1, <2>3, <2>4, <2>5, CurrentKept
<1>5. ASSUME NEW e \in events, HandleEvent(e) PROVE StaleOnlyIfUntold'
  <2>1. /\ events' = events \ {e}
        /\ UNCHANGED <<inode, dir, m_watches>>
        /\ \/ Ignored(e)
           \/ /\ e # WakeEvent /\ e.watch \in m_watches
              /\ Wrote(e) \/ Lost(e) \/ Opened(e)
    BY <1>5, <1>t, HandleEventDoes DEF fsVars
  <2>2. UNCHANGED <<dirFd, missed>>
    <3>1. UNCHANGED dirFd
      BY <1>5 DEF HandleEvent
    <3> QED
      BY <2>1, <3>1 DEF Ignored, Wrote, Lost, Opened, lockVars
  <2>3. ASSUME NEW w \in m_watches
        PROVE  \/ fileFd'[w] = 0
               \/ /\ fileFd'[w] = fileFd[w] /\ fileNotes'[w] = fileNotes[w]
                  /\ GoneCollected(w) => GoneCollected(w)'
    <3>1. w \in WatchId /\ EventsAt(w)
      BY <1>t DEF TypesOK
    <3>2. GoneCollected(w) /\ ~GoneCollected(w)' => e = [watch |-> w, fd |-> "file", gone |-> TRUE]
      BY <2>1 DEF GoneCollected
    <3>3. CASE e = [watch |-> w, fd |-> "file", gone |-> TRUE]
      <4>1. e # WakeEvent /\ e.watch = w /\ e.fd = "file" /\ e.gone /\ GoneCollected(w)
        BY <3>3 DEF WakeEvent, GoneCollected
      <4>2. fileFd[w] # 0
        BY <3>1, <4>1 DEF EventsAt
      <4>3. Lost(e) \/ Opened(e)
        BY <2>1, <4>1, <4>2 DEF Ignored, Wrote
      <4> QED
        BY <1>t, <3>1, <4>1, <4>3 DEF Lost, Opened, TypesOK
    <3>4. CASE e # [watch |-> w, fd |-> "file", gone |-> TRUE]
      <4>1. CASE Ignored(e) \/ Wrote(e)
        BY <3>2, <3>4, <4>1 DEF Ignored, Wrote
      <4>2. CASE e # WakeEvent /\ e.watch \in m_watches /\ (Lost(e) \/ Opened(e))
        <5>1. e.watch = w => fileFd'[w] = 0
          BY <1>t, <3>1, <4>2 DEF Lost, Opened, TypesOK
        <5>2. e.watch # w => fileFd'[w] = fileFd[w] /\ fileNotes'[w] = fileNotes[w]
          BY <1>t, <3>1, <4>2 DEF Lost, Opened, TypesOK
        <5> QED
          BY <3>2, <3>4, <5>1, <5>2
      <4> QED
        BY <2>1, <4>1, <4>2
    <3> QED
      BY <3>3, <3>4
  <2> QED
    BY <2>1, <2>2, <2>3, CurrentKept
<1>6. ASSUME NEW ok \in BOOLEAN, RunArms(ok) PROVE StaleOnlyIfUntold'
  <2>1. /\ UNCHANGED <<inode, dir, dirFd, events, m_watches>> /\ m_mutex \in WatchId
        /\ ArmFile(m_mutex, ok)
    BY <1>6, <1>t DEF RunArms, RunInv, fsVars
  <2> QED
    BY <1>a, <2>1
<1>7. CASE \/ \E w \in WatchId : UnwatchQueues(w) \/ UnwatchWakes(w) \/ Callback(w)
           \/ EndOfBatch \/ CallbacksEnd \/ KeventFails \/ DeadlinePasses \/ StoreShutdown \/ WakeToEnd
           \/ UNCHANGED vars
  <2>1. UNCHANGED <<inode, dir, missed, m_watches, fileFd, dirFd, fileNotes, events>>
    BY <1>7 DEF UnwatchQueues, UnwatchWakes, Callback, EndOfBatch, CallbacksEnd, KeventFails, DeadlinePasses,
                StoreShutdown, WakeToEnd, vars, fsVars, kernelVars, tableVars, lockVars, runVars
  <2> QED
    BY <2>1, CurrentKept DEF GoneCollected
<1> QED
  BY <1>1, <1>2, <1>3, <1>4, <1>5, <1>6, <1>7 DEF Next, Run, Destructor

\* HandleDirEvent's comment is wrong of a watch in two cases only, whatever the
\* file system does and when: the file it has armed left the path between open and
\* EV_ADD (WatcherStale shows it), or the directory it has open is not the one at
\* the path any more.
THEOREM LiveFdUnlessUntold == Spec => []StaleOnlyIfUntold
<1>1. Init => StaleOnlyIfUntold
  BY DEF Init, StaleOnlyIfUntold
<1> QED
  BY <1>1, InitInv, NextInv, NextCurrent, PTL DEF Spec

-----------------------------------------------------------------------------
(* The refinement of FileWatch.                                            *)

\* The states of the users, one by one.
LEMMA UserStatesAre ==
    ASSUME TypesOK, NEW w \in WatchId
    PROVE  /\ caller[w] \in {"new", "opened", "arming"} => UserStates[w] = "none"
           /\ caller[w] = "watching" => UserStates[w] = "watching"
           /\ caller[w] = "unwatching" => UserStates[w] = "leaving"
           /\ caller[w] # "unwatching" => UserStates[w] # "leaving"
           /\ caller[w] = "done" => UserStates[w] = "left"
BY DEF UserStates, TypesOK

\* When one user moves, so does its state.
LEMMA UserMoves ==
    ASSUME TypesOK, TypesOK', NEW w \in WatchId,
           NEW s \in {"watching", "unwatching", "done", "failed"},
           NEW t, t = CASE s = "watching" -> "watching" [] s = "unwatching" -> "leaving"
                        [] s = "done" -> "left" [] s = "failed" -> "failed",
           caller' = [caller EXCEPT ![w] = s]
    PROVE  UserStates' = [UserStates EXCEPT ![w] = t]
<1>1. UserStates'[w] = t
  <2>1. caller'[w] = s
    BY DEF TypesOK
  <2> QED
    BY <2>1 DEF UserStates
<1>2. \A v \in WatchId : v # w => UserStates'[v] = UserStates[v]
  BY DEF UserStates, TypesOK
<1>3. UserStates' = [v \in WatchId |-> UserStates'[v]] /\ UserStates = [v \in WatchId |-> UserStates[v]]
  BY DEF UserStates
<1> QED
  BY <1>1, <1>2, <1>3

\* While WatchFile is at work its user has nothing.
LEMMA UserStays ==
    ASSUME TypesOK, NEW w \in WatchId, caller[w] \in {"new", "opened", "arming"},
           NEW s \in {"opened", "arming"}, caller' = [caller EXCEPT ![w] = s]
    PROVE  UserStates' = UserStates
<1>1. ASSUME NEW v \in WatchId PROVE UserStates'[v] = UserStates[v]
  <2>1. CASE v = w
    <3>1. caller'[v] = s
      BY <2>1 DEF TypesOK
    <3> QED
      BY <2>1, <3>1 DEF UserStates
  <2>2. CASE v # w
    BY <2>2 DEF UserStates, TypesOK
  <2> QED
    BY <2>1, <2>2
<1>2. UserStates' = [v \in WatchId |-> UserStates'[v]] /\ UserStates = [v \in WatchId |-> UserStates[v]]
  BY DEF UserStates
<1> QED
  BY <1>1, <1>2

\* The initial states are FileWatch's.
LEMMA InitRefines == Init => Watcher!Init
BY DEF Init, Watcher!Init, UserStates, Alive

\* WatchFile implements the abstract WatchFile when it returns or fails.
LEMMA WatchFileRefines ==
    ASSUME TypesOK, TypesOK', NEW w \in WatchId, TablesAt(w), WatchFile(w)
    PROVE  Watcher!WatchFile(w) \/ UNCHANGED Watcher!vars
<1>1. ASSUME caller[w] \in {"new", "opened", "arming"}, owner = "alive",
             caller' = [caller EXCEPT ![w] = "failed"], UNCHANGED <<version, seen, late, owner>>
      PROVE  Watcher!WatchFile(w)
  <2>1. UserStates' = [UserStates EXCEPT ![w] = "failed"]
    BY <1>1, UserMoves
  <2> QED
    BY <1>1, <2>1, UserStatesAre DEF Watcher!WatchFile, Alive
<1>2. ASSUME caller[w] \in {"new", "opened", "arming"}, NEW s \in {"opened", "arming"},
             caller' = [caller EXCEPT ![w] = s], UNCHANGED <<version, seen, late, owner>>
      PROVE  UNCHANGED Watcher!vars
  BY <1>2, UserStays DEF Watcher!vars, Alive
<1>3. ASSUME caller[w] = "arming", WatchReturns(w) PROVE Watcher!WatchFile(w)
  <2>1. UserStates' = [UserStates EXCEPT ![w] = "watching"]
    BY <1>3, UserMoves DEF WatchReturns
  <2>2. owner = "alive" /\ UNCHANGED <<version, late, owner>> /\ seen' = [seen EXCEPT ![w] = version]
    BY <1>3 DEF WatchReturns, TablesAt, fsVars
  <2> QED
    BY <1>3, <2>1, <2>2, UserStatesAre DEF Watcher!WatchFile, Alive
<1>4. ASSUME NEW ok \in BOOLEAN, WatchOpensDir(w, ok) \/ WatchArmsDir(w, ok)
      PROVE  Watcher!WatchFile(w) \/ UNCHANGED Watcher!vars
  <2>1. /\ caller[w] \in {"new", "opened", "arming"} /\ owner = "alive"
        /\ UNCHANGED <<version, seen, late, owner>>
        /\ \/ caller' = [caller EXCEPT ![w] = "failed"]
           \/ caller' = [caller EXCEPT ![w] = "opened"]
           \/ caller' = [caller EXCEPT ![w] = "arming"]
    BY <1>4 DEF WatchOpensDir, WatchArmsDir, TablesAt, fsVars, histVars
  <2> QED
    BY <1>1, <1>2, <2>1
<1>5. CASE WatchOpensFile(w)
  <2>1. CASE inode = 0
    BY <1>3, <1>5, <2>1 DEF WatchOpensFile
  <2>2. CASE inode # 0
    BY <1>5, <2>2 DEF WatchOpensFile, fsVars, userVars, histVars, Watcher!vars, UserStates, Alive
  <2> QED
    BY <2>1, <2>2
<1>6. ASSUME NEW ok \in BOOLEAN, WatchArmsFile(w, ok) PROVE Watcher!WatchFile(w)
  BY <1>3, <1>6 DEF WatchArmsFile
<1> QED
  BY <1>4, <1>5, <1>6 DEF WatchFile

\* Every step is one of FileWatch's, or a stutter.
LEMMA StepRefines ==
    ASSUME IInv, IInv', [Next]_vars
    PROVE  [Watcher!Next]_(Watcher!vars)
<1>t. TypesOK /\ TypesOK'
  BY DEF IInv
<1>u. RunInv /\ \A w \in WatchId : TablesAt(w) /\ LateAt(w)
  BY DEF IInv
<1>1. CASE FileSystem
  <2>0. owner # "gone" /\ UNCHANGED <<userVars, histVars>>
    BY <1>1, <1>t, FileSystemNotes, NotesDo
  <2>1. UNCHANGED <<UserStates, Alive, seen, late>> /\ Alive
    BY <2>0 DEF UserStates, Alive, userVars, histVars
  <2>2. version' = version \/ version' = version + 1
    BY <1>1, FileSystemIs DEF Write, Replace, Remove, MoveDir, MakeDir, ChangeOther, Touch, fsVars
  <2> QED
    BY <2>1, <2>2 DEF Watcher!Next, Watcher!Change, Watcher!vars
<1>2. ASSUME NEW w \in WatchId, WatchFile(w) PROVE Watcher!WatchFile(w) \/ UNCHANGED Watcher!vars
  BY <1>2, <1>t, <1>u, WatchFileRefines
<1>3. ASSUME NEW w \in WatchId, UnwatchQueues(w) PROVE Watcher!Unwatch(w)
  <2>1. UserStates[w] = "watching"
    BY <1>t, <1>3, UserStatesAre DEF UnwatchQueues
  <2>2. UserStates' = [UserStates EXCEPT ![w] = "leaving"]
    BY <1>t, <1>3, UserMoves DEF UnwatchQueues
  <2>3. Alive /\ UNCHANGED <<version, late, Alive>> /\ seen' = [seen EXCEPT ![w] = 0]
    BY <1>3 DEF UnwatchQueues, Alive, fsVars
  <2> QED
    BY <2>1, <2>2, <2>3 DEF Watcher!Unwatch
<1>4. ASSUME NEW w \in WatchId, UnwatchWakes(w) PROVE Watcher!UnwatchReturns(w)
  <2>1. UserStates[w] = "leaving"
    BY <1>t, <1>4, UserStatesAre DEF UnwatchWakes
  <2>2. UserStates' = [UserStates EXCEPT ![w] = "left"]
    BY <1>t, <1>4, UserMoves DEF UnwatchWakes
  <2>3. Alive /\ UNCHANGED <<version, seen, late, Alive>>
    BY <1>4, <1>u DEF UnwatchWakes, Alive, TablesAt, fsVars, histVars
  <2> QED
    BY <2>1, <2>2, <2>3 DEF Watcher!UnwatchReturns
<1>5. ASSUME NEW w \in WatchId, Callback(w) PROVE Watcher!Callback(w) \/ Watcher!LateCallback(w)
  <2>1. Alive /\ UNCHANGED <<version, UserStates, Alive>>
    BY <1>5, <1>u DEF Callback, Alive, UserStates, RunInv, userVars, fsVars
  <2>2. caller[w] \in {"watching", "unwatching", "done"} /\ w \in calling
    BY <1>5, <1>u DEF Callback, TablesAt, Returned
  <2>3. CASE caller[w] = "done"
    <3>1. UserStates[w] = "left"
      BY <1>t, <2>3, UserStatesAre
    <3>2. late[w] = 0
      BY <1>u, <2>2 DEF LateAt
    <3>3. late' = [late EXCEPT ![w] = 1]
      BY <1>5, <2>3, <3>2 DEF Callback
    <3>4. UNCHANGED seen
      BY <1>5, <1>t, <2>3 DEF Callback, TypesOK
    <3> QED
      BY <2>1, <3>1, <3>2, <3>3, <3>4 DEF Watcher!LateCallback
  <2>4. CASE caller[w] \in {"watching", "unwatching"}
    <3>1. /\ UserStates[w] \in {"watching", "leaving"}
          /\ caller[w] = "watching" <=> UserStates[w] = "watching"
      BY <1>t, <2>4, UserStatesAre
    <3>2. seen' = [seen EXCEPT ![w] = IF UserStates[w] = "watching" THEN version ELSE @]
      BY <1>5, <3>1 DEF Callback
    <3>3. UNCHANGED late
      BY <1>5, <1>t, <2>4 DEF Callback, TypesOK
    <3> QED
      BY <2>1, <3>1, <3>2, <3>3 DEF Watcher!Callback
  <2> QED
    BY <2>2, <2>3, <2>4
<1>6. CASE Join
  <2>1. \A w \in WatchId : UserStates[w] # "leaving"
    BY <1>6, <1>t, <1>u, UserStatesAre DEF Join, TablesAt
  <2>2. Alive /\ Alive' = FALSE /\ UNCHANGED <<version, UserStates, seen, late>>
    BY <1>6 DEF Join, Alive, UserStates, fsVars, histVars
  <2> QED
    BY <2>1, <2>2 DEF Watcher!Next, Watcher!Destroy
<1>7. CASE StoreShutdown \/ WakeToEnd
  BY <1>7 DEF StoreShutdown, WakeToEnd, Alive, UserStates, fsVars, histVars, Watcher!vars
<1>8. CASE \/ RunTop \/ KeventReturns \/ KeventFails \/ EndOfBatch \/ CallbacksEnd \/ DeadlinePasses
           \/ UNCHANGED vars
           \/ \E e \in events : HandleEvent(e)
           \/ \E ok \in BOOLEAN : RunArms(ok)
  <2>1. UNCHANGED <<version, caller, seen, late, owner>>
    BY <1>8 DEF RunTop, KeventReturns, KeventFails, EndOfBatch, CallbacksEnd, DeadlinePasses, vars,
                HandleEvent, RunArms, fsVars, userVars, histVars
  <2> QED
    BY <2>1 DEF UserStates, Alive, Watcher!vars
<1> QED
  BY <1>1, <1>2, <1>3, <1>4, <1>5, <1>6, <1>7, <1>8 DEF Next, Run, Destructor, Watcher!Next

\* KqueueFileWatcher keeps what IFileWatcher promises: at most one callback comes
\* after Unwatch has returned and none after the destructor has, however the
\* callers, the file system and Run interleave.
THEOREM ImplementsIFileWatcher == Spec => ImplementsFileWatch
<1>1. Init /\ [][Next]_vars => []IInv
  BY InitInv, NextInv, PTL
<1>2. Init /\ [][Next]_vars => Watcher!Init /\ [][Watcher!Next]_(Watcher!vars)
  BY <1>1, InitRefines, StepRefines, PTL
<1> QED
  BY <1>2 DEF Spec, ImplementsFileWatch, Watcher!Spec
=============================================================================
