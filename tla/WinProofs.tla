------------------------------- MODULE WinProofs -------------------------------
(***************************************************************************)
(* Proofs about WinFileWatcher, for any number of watches, of changes of   *)
(* the file and of calls and reads that fail.                              *)
(***************************************************************************)
EXTENDS WinFileWatcher, FiniteSetTheorems, SequenceTheorems, TLAPS

-----------------------------------------------------------------------------
(* The inductive invariant.                                                *)

\* There is one directory, and WatchFile looks for its watcher before it opens
\* one.
OneDirWatcher == m_dirWatchers = {} \/ \E d \in DirId : m_dirWatchers = {d}

\* The directory that Run is to read again is an active one, which has no read
\* outstanding: no other thread takes it out of m_dirWatchers.
ReissueIsActive ==
    pc = "reissue" => \A d \in live : d \in m_dirWatchers /\ io[d] = "idle"

\* A completion is on the port once, while its directory has not been told.
PacketsAreCompletions ==
    /\ \A i \in 1..Len(port) : port[i] # WakePacket => io[port[i]] \in Completed
    /\ \A i, j \in 1..Len(port) : port[i] = port[j] /\ i # j => port[i] = WakePacket

BufferInv ==
    /\ OneDirWatcher
    /\ BufferOutlivesRead
    /\ ReissueIsActive
    /\ PacketsAreCompletions

\* The tables and the users.  Only a watch whose WatchFile has returned is in
\* the tables or called; once it is unwatched it is pending or taken out.
TablesAt(w) ==
    /\ w \in m_watchLocations \cup calling => caller[w] \in {"watching", "unwatching", "done"}
    /\ w \in m_watchLocations /\ caller[w] \in {"unwatching", "done"} => w \in m_pendingUnwatches
    /\ owner # "alive" => caller[w] # "unwatching"

\* A watch that was called after Unwatch returned is not called again: Run
\* passes the head of the loop, where it takes the watch out, before it fires.
LateAt(w) ==
    /\ late[w] \in {0, 1}
    /\ late[w] = 1 => caller[w] = "done" /\ w \notin calling
    /\ late[w] = 1 /\ w \in m_watchLocations => pc \in {"call", "top"}

\* Where Run and the destructor are.
RunInv ==
    /\ calling # {} => pc = "call"
    /\ owner = "gone" => pc = "ended"

IInv ==
    /\ TypeOK
    /\ BufferInv
    /\ RunInv
    /\ \A w \in WatchId : TablesAt(w) /\ LateAt(w)


-----------------------------------------------------------------------------
(* Lemmas.                                                                 *)

\* No WinDirWatcher is named by the packet of Wake().
LEMMA WakeIsNoDir == WakePacket \notin DirId
BY WinAssumption, FS_CardinalityType DEF WakePacket

\* A set with at most one member has a cardinality of at most one.
LEMMA OneDirCardinality ==
    ASSUME NEW D, D = {} \/ \E d \in DirId : D = {d}
    PROVE  Cardinality(D) <= 1
<1>1. CASE D = {}
  BY <1>1, FS_EmptySet
<1>2. ASSUME NEW d \in DirId, D = {d} PROVE Cardinality(D) <= 1
  <2>1. Cardinality({d}) = 1
    BY FS_Singleton, Zenon
  <2> QED
    BY <1>2, <2>1
<1> QED
  BY <1>1, <1>2

\* CancelIoEx changes nothing, or aborts an outstanding read of a directory of D.
LEMMA CancelAborts ==
    ASSUME NEW D, Cancel(D)
    PROVE  \/ UNCHANGED <<io, noted, port>>
           \/ \E d \in D : /\ io[d] = "pending"
                           /\ io' = [io EXCEPT ![d] = "aborted"]
                           /\ noted' = [noted EXCEPT ![d] = "nothing"]
                           /\ port' = Append(port, d)
<1>1. CASE \E d \in D : io[d] = "pending"
  <2> DEFINE d == CHOOSE x \in D : io[x] = "pending"
  <2>1. d \in D /\ io[d] = "pending"
    BY <1>1
  <2>2. /\ io' = [io EXCEPT ![d] = "aborted"]
        /\ noted' = [noted EXCEPT ![d] = "nothing"]
        /\ port' = Append(port, d)
    BY <1>1 DEF Cancel
  <2> HIDE DEF d
  <2> QED
    BY <2>1, <2>2
<1>2. CASE ~ \E d \in D : io[d] = "pending"
  BY <1>2 DEF Cancel
<1> QED
  BY <1>1, <1>2

\* What the kernel's variables may hold, as a part of TypeOK.
KernelOK ==
    /\ noted \in [DirId -> {"nothing", "other", "file"}]
    /\ io \in [DirId -> {"unopened", "idle", "pending"} \cup Completed]
    /\ port \in Seq(DirId \cup {WakePacket})

\* A cancelled read is completed as aborted.
LEMMA CancelType ==
    ASSUME KernelOK, NEW D \in SUBSET DirId, Cancel(D)
    PROVE  KernelOK'
<1>1. CASE UNCHANGED <<io, noted, port>>
  BY <1>1 DEF KernelOK
<1>2. ASSUME NEW d \in D, io' = [io EXCEPT ![d] = "aborted"],
             noted' = [noted EXCEPT ![d] = "nothing"], port' = Append(port, d)
      PROVE  KernelOK'
  <2>1. port' \in Seq(DirId \cup {WakePacket})
    BY <1>2, AppendProperties DEF KernelOK
  <2> QED
    BY <1>2, <2>1 DEF KernelOK, Completed
<1> QED
  BY <1>1, <1>2, CancelAborts

\* The end of the loop keeps Run's variables well typed.
LEMMA EndOfLoopType ==
    ASSUME dirty \subseteq WatchId, calling \subseteq WatchId,
           NEW dl \in {"none", "set", "passed"}, NEW active, EndOfLoop(dl, active)
    PROVE  /\ dirty' \subseteq WatchId /\ calling' \subseteq WatchId
           /\ deadline' \in {"none", "set", "passed"}
           /\ pc' \in {"top", "call"}
BY DEF EndOfLoop

\* Taking a packet leaves packets.
LEMMA TakePacketType ==
    ASSUME port \in Seq(DirId \cup {WakePacket}), NEW p, TakePacket(p)
    PROVE  port' \in Seq(DirId \cup {WakePacket})
BY HeadTailProperties DEF TakePacket

-----------------------------------------------------------------------------
(* Types.                                                                  *)

\* A call of WatchFile keeps the state well typed.
LEMMA WatchFileType ==
    ASSUME TypeOK, NEW w \in WatchId, WatchFile(w), OneDirWatcher'
    PROVE  TypeOK'
<1>0. Cardinality(m_dirWatchers') <= 1
  BY OneDirCardinality DEF OneDirWatcher
<1> USE WinAssumption DEF TypeOK, kernelVars, tableVars, runVars, userVars, histVars
<1>1. CASE WatchShares(w)
  BY <1>0, <1>1 DEF WatchShares
<1>2. ASSUME NEW d \in DirId, NEW ok \in BOOLEAN, WatchOpens(w, d, ok) PROVE TypeOK'
  <2>1. /\ io' \in [DirId -> {"unopened", "idle", "pending"} \cup Completed]
        /\ refused' \in 0..MaxFailures
    BY <1>2 DEF WatchOpens, IssueRead, MayFail
  <2>2. /\ m_dirWatchers' \subseteq DirId
        /\ entries' \in [DirId -> SUBSET WatchId]
        /\ m_watchLocations' \subseteq WatchId
        /\ caller' \in [WatchId -> {"new", "watching", "unwatching", "done", "failed"}]
        /\ seen' \in [WatchId -> 0..MaxChanges]
    <3>1. CASE ok
      <4>1. /\ m_dirWatchers' = {d}
            /\ entries' = [entries EXCEPT ![d] = {w}]
            /\ m_watchLocations' = m_watchLocations \cup {w}
            /\ caller' = [caller EXCEPT ![w] = "watching"]
            /\ seen' = [seen EXCEPT ![w] = version]
        BY <1>2, <3>1 DEF WatchOpens
      <4>2. entries' \in [DirId -> SUBSET WatchId]
        BY <4>1
      <4> QED
        BY <4>1, <4>2
    <3>2. CASE ~ok
      BY <1>2, <3>2 DEF WatchOpens
    <3> QED
      BY <3>1, <3>2
  <2>3. UNCHANGED <<version, noted, port, m_draining, m_pendingUnwatches,
                    runVars, owner, m_shutdown, late, errors>>
    BY <1>2 DEF WatchOpens
  <2> QED
    BY <1>0, <2>1, <2>2, <2>3
<1>3. CASE WatchFails(w)
  BY <1>0, <1>3 DEF WatchFails, MayFail
<1> QED
  BY <1>1, <1>2, <1>3 DEF WatchFile

\* A step of Run keeps the state well typed.
LEMMA RunType ==
    ASSUME TypeOK, Run \/ WaitFails, OneDirWatcher'
    PROVE  TypeOK'
<1>0. Cardinality(m_dirWatchers') <= 1
  BY OneDirCardinality DEF OneDirWatcher
<1>k. KernelOK
  BY DEF TypeOK, KernelOK
<1> USE WinAssumption DEF TypeOK, kernelVars, tableVars, runVars, userVars, histVars
<1>1. CASE RunTop
  <2>1. Emptied \in SUBSET DirId
    BY DEF Emptied
  <2>2. KernelOK'
    BY <1>1, <1>k, <2>1, CancelType DEF RunTop, DrainPendingUnwatches
  <2>3. /\ m_dirWatchers' \subseteq DirId
        /\ m_draining' \subseteq DirId
        /\ entries' \in [DirId -> SUBSET WatchId]
        /\ m_watchLocations' \subseteq WatchId
        /\ m_pendingUnwatches' \subseteq WatchId
    BY <1>1, <2>1 DEF RunTop, DrainPendingUnwatches
  <2>4. /\ pc' = "wait"
        /\ UNCHANGED <<version, live, dirty, deadline, shuttingDown, calling, userVars, histVars>>
    BY <1>1 DEF RunTop
  <2> QED
    BY <1>0, <2>2, <2>3, <2>4 DEF KernelOK
<1>2. CASE RunShutsDown
  <2>2. KernelOK'
    BY <1>2, <1>k, CancelType DEF RunShutsDown
  <2>3. /\ m_dirWatchers' \subseteq DirId
        /\ m_draining' \subseteq DirId
        /\ entries' \in [DirId -> SUBSET WatchId]
        /\ m_watchLocations' \subseteq WatchId
        /\ m_pendingUnwatches' \subseteq WatchId
        /\ shuttingDown' \in BOOLEAN
        /\ dirty' \subseteq WatchId
        /\ deadline' \in {"none", "set", "passed"}
        /\ pc' \in {"wait", "ended"}
    BY <1>2 DEF RunShutsDown
  <2>4. UNCHANGED <<version, live, calling, userVars, histVars>>
    BY <1>2 DEF RunShutsDown
  <2> QED
    BY <1>0, <2>2, <2>3, <2>4 DEF KernelOK
<1>3. CASE RunWakes
  BY <1>0, <1>3, TakePacketType, EndOfLoopType DEF RunWakes
<1>4. CASE RunTimesOut \/ WaitFails
  BY <1>0, <1>4, EndOfLoopType DEF RunTimesOut, WaitFails
<1>5. ASSUME NEW d \in DirId, RunDrains(d) PROVE TypeOK'
  BY <1>0, <1>5, TakePacketType DEF RunDrains
<1>6. ASSUME NEW d \in DirId, RunCollects(d) PROVE TypeOK'
  <2>1. port' \in Seq(DirId \cup {WakePacket})
    BY <1>6, TakePacketType DEF RunCollects
  <2>2. dirty' \subseteq WatchId
    BY <1>6 DEF RunCollects, CollectDirty
  <2> QED
    BY <1>0, <1>6, <2>1, <2>2 DEF RunCollects
<1>7. ASSUME NEW d \in DirId, RunLogsError(d) PROVE TypeOK'
  BY <1>0, <1>7, TakePacketType DEF RunLogsError
<1>8. ASSUME NEW d \in DirId, NEW ok \in BOOLEAN, Reissue(d, ok) PROVE TypeOK'
  <2> DEFINE dl == IF dirty # {} /\ deadline = "none" THEN "set" ELSE deadline
  <2> DEFINE active == IF ok THEN m_dirWatchers ELSE m_dirWatchers \ {d}
  <2>1. dl \in {"none", "set", "passed"} /\ EndOfLoop(dl, active)
    BY <1>8 DEF Reissue
  <2> HIDE DEF dl, active
  <2>2. /\ dirty' \subseteq WatchId /\ calling' \subseteq WatchId
        /\ deadline' \in {"none", "set", "passed"}
        /\ pc' \in {"top", "call"}
    BY <2>1, EndOfLoopType
  <2>3. /\ io' \in [DirId -> {"unopened", "idle", "pending"} \cup Completed]
        /\ refused' \in 0..MaxFailures
    BY <1>8 DEF Reissue, IssueRead, MayFail
  <2>4. /\ m_dirWatchers' \subseteq DirId
        /\ entries' \in [DirId -> SUBSET WatchId]
        /\ noted' \in [DirId -> {"nothing", "other", "file"}]
        /\ live' \subseteq DirId
    BY <1>8 DEF Reissue
  <2>5. UNCHANGED <<version, port, m_draining, m_watchLocations, m_pendingUnwatches,
                    shuttingDown, userVars, seen, late, errors>>
    BY <1>8 DEF Reissue
  <2> QED
    BY <1>0, <2>2, <2>3, <2>4, <2>5
<1>9. ASSUME NEW w \in WatchId, Callback(w) PROVE TypeOK'
  <2>1. late' \in [WatchId -> Nat] /\ seen' \in [WatchId -> 0..MaxChanges]
    BY <1>9 DEF Callback
  <2>2. calling' \subseteq WatchId /\ pc' \in {"top", "call"}
    BY <1>9 DEF Callback
  <2> QED
    BY <1>0, <1>9, <2>1, <2>2 DEF Callback
<1> QED
  BY <1>1, <1>2, <1>3, <1>4, <1>5, <1>6, <1>7, <1>8, <1>9 DEF Run

\* Every step keeps the state well typed.
LEMMA NextType ==
    ASSUME TypeOK, [Next]_vars, OneDirWatcher'
    PROVE  TypeOK'
<1>0. Cardinality(m_dirWatchers') <= 1
  BY OneDirCardinality DEF OneDirWatcher
<1>a. ASSUME NEW d \in DirId, port' = Append(port, d) PROVE port' \in Seq(DirId \cup {WakePacket})
  BY <1>a, AppendProperties DEF TypeOK
<1>b. ASSUME port' = Append(port, WakePacket) PROVE port' \in Seq(DirId \cup {WakePacket})
  BY <1>b, AppendProperties DEF TypeOK
<1>1. ASSUME NEW name \in {"file", "other"}, Change(name) PROVE TypeOK'
  BY <1>0, <1>1, WinAssumption DEF Change, TypeOK, tableVars, runVars, userVars, histVars
<1>2. ASSUME NEW d \in DirId, NEW result \in {"hit", "miss"}, ReadCompletes(d, result) PROVE TypeOK'
  <2>1. io' \in [DirId -> {"unopened", "idle", "pending"} \cup Completed]
    BY <1>2 DEF ReadCompletes, TypeOK, Completed
  <2> QED
    BY <1>0, <1>2, <1>a, <2>1 DEF ReadCompletes, TypeOK, tableVars, runVars, userVars, histVars
<1>3. ASSUME NEW d \in DirId, ReadFails(d) PROVE TypeOK'
  <2>1. /\ io' \in [DirId -> {"unopened", "idle", "pending"} \cup Completed]
        /\ errors' \in 0..MaxFailures
    BY <1>3, WinAssumption DEF ReadFails, TypeOK, Completed, MayFail
  <2> QED
    BY <1>0, <1>3, <1>a, <2>1 DEF ReadFails, TypeOK, tableVars, runVars, userVars
<1>4. ASSUME NEW w \in WatchId, WatchFile(w) PROVE TypeOK'
  BY <1>4, WatchFileType
<1>5. ASSUME NEW w \in WatchId, UnwatchQueues(w) PROVE TypeOK'
  BY <1>0, <1>5, WinAssumption DEF UnwatchQueues, TypeOK, kernelVars, runVars
<1>6. ASSUME NEW w \in WatchId, UnwatchWakes(w) PROVE TypeOK'
  BY <1>0, <1>6, <1>b DEF UnwatchWakes, TypeOK, tableVars, runVars, histVars
<1>7. CASE Run \/ WaitFails
  BY <1>7, RunType
<1>8. CASE DeadlinePasses
  BY <1>0, <1>8 DEF DeadlinePasses, TypeOK, kernelVars, tableVars, userVars, histVars
<1>9. CASE StoreShutdown \/ Join
  BY <1>0, <1>9 DEF StoreShutdown, Join, TypeOK, kernelVars, tableVars, runVars, histVars
<1>10. CASE WakeToEnd
  BY <1>0, <1>10, <1>b DEF WakeToEnd, TypeOK, tableVars, runVars, histVars
<1>11. CASE UNCHANGED vars
  BY <1>0, <1>11 DEF vars, TypeOK, kernelVars, tableVars, runVars, userVars, histVars
<1> QED
  BY <1>1, <1>2, <1>3, <1>4, <1>5, <1>6, <1>7, <1>8, <1>9, <1>10, <1>11 DEF Next, Kernel

-----------------------------------------------------------------------------
(* Directories, reads and completions.                                     *)

\* Queueing the completion of a read that was outstanding, or a wake, keeps the
\* packets in step with the completions.
LEMMA PacketQueued ==
    ASSUME KernelOK, PacketsAreCompletions,
           NEW p \in DirId \cup {WakePacket}, port' = Append(port, p),
           \/ p = WakePacket /\ UNCHANGED io
           \/ /\ io[p] = "pending"
              /\ \E r \in Completed : io' = [io EXCEPT ![p] = r]
    PROVE  PacketsAreCompletions'
<1> DEFINE n == Len(port)
<1>1. n \in Nat /\ \A i \in 1..n : port[i] \in DirId \cup {WakePacket}
  BY LenProperties, ElementOfSeq DEF KernelOK
<1>2. /\ Len(port') = n + 1
      /\ \A i \in 1..n : port'[i] = port[i]
      /\ port'[n + 1] = p
  BY AppendProperties DEF KernelOK
<1>3. /\ \A i \in 1..n : port[i] # WakePacket => io[port[i]] \in Completed
      /\ \A i, j \in 1..n : port[i] = port[j] /\ i # j => port[i] = WakePacket
  BY DEF PacketsAreCompletions
<1> HIDE DEF n
<1>4. \A i \in 1..(n + 1) : i \in 1..n \/ i = n + 1
  BY <1>1
<1>5. "pending" \notin Completed
  BY DEF Completed
<1>6. p # WakePacket => p \in DirId /\ io[p] = "pending" /\ io'[p] \in Completed
  BY DEF KernelOK
<1>7. \A d \in DirId : d # p => io'[d] = io[d]
  BY DEF KernelOK
<1>8. \A i \in 1..n : port[i] = p => p = WakePacket
  BY <1>3, <1>5, <1>6
<1>9. ASSUME NEW i \in 1..(n + 1), port'[i] # WakePacket PROVE io'[port'[i]] \in Completed
  BY <1>1, <1>2, <1>3, <1>4, <1>6, <1>7, <1>8, <1>9
<1>10. ASSUME NEW i \in 1..(n + 1), NEW j \in 1..(n + 1), port'[i] = port'[j], i # j
       PROVE  port'[i] = WakePacket
  BY <1>2, <1>3, <1>4, <1>8, <1>10
<1> QED
  BY <1>2, <1>9, <1>10 DEF PacketsAreCompletions

\* A packet of a directory that Run takes is its completion, and the last one.
LEMMA PacketTaken ==
    ASSUME KernelOK, PacketsAreCompletions,
           NEW p \in DirId \cup {WakePacket}, TakePacket(p),
           \/ p = WakePacket /\ UNCHANGED io
           \/ p \in DirId /\ io' = [io EXCEPT ![p] = "idle"]
    PROVE  PacketsAreCompletions'
<1> DEFINE n == Len(port)
<1>1. n \in Nat /\ n > 0 /\ \A i \in 1..n : port[i] \in DirId \cup {WakePacket}
  BY LenProperties, ElementOfSeq, EmptySeq DEF KernelOK, TakePacket
<1>2. /\ Len(port') = n - 1
      /\ \A i \in 1..(n - 1) : port'[i] = port[i + 1]
      /\ port[1] = p
  BY HeadTailProperties DEF KernelOK, TakePacket
<1>3. /\ \A i \in 1..n : port[i] # WakePacket => io[port[i]] \in Completed
      /\ \A i, j \in 1..n : port[i] = port[j] /\ i # j => port[i] = WakePacket
  BY DEF PacketsAreCompletions
<1> HIDE DEF n
<1>4. \A i \in 1..(n - 1) : i + 1 \in 1..n /\ i + 1 # 1
  BY <1>1
<1>5. 1 \in 1..n /\ \A i, j \in 1..(n - 1) : i # j => i + 1 # j + 1
  BY <1>1
<1>6. \A i \in 1..(n - 1) : port'[i] # WakePacket => port'[i] # p
  BY <1>2, <1>3, <1>4, <1>5
<1>7. \A d \in DirId : d # p => io'[d] = io[d]
  BY WakeIsNoDir DEF KernelOK
<1>8. ASSUME NEW i \in 1..(n - 1), port'[i] # WakePacket PROVE io'[port'[i]] \in Completed
  <2>1. port'[i] \in DirId
    BY <1>1, <1>2, <1>4, <1>8
  <2>2. io[port'[i]] \in Completed
    BY <1>2, <1>3, <1>4, <1>8
  <2> QED
    BY <1>6, <1>7, <1>8, <2>1, <2>2
<1>9. ASSUME NEW i \in 1..(n - 1), NEW j \in 1..(n - 1), port'[i] = port'[j], i # j
      PROVE  port'[i] = WakePacket
  <2>1. i + 1 \in 1..n /\ j + 1 \in 1..n /\ i + 1 # j + 1
    BY <1>4, <1>5, <1>9
  <2>2. port[i + 1] = port[j + 1] /\ port'[i] = port[i + 1]
    BY <1>2, <1>9
  <2> QED
    BY <1>3, <2>1, <2>2
<1> QED
  BY <1>2, <1>8, <1>9 DEF PacketsAreCompletions

\* A read that is issued for a directory that has no packet changes none.
LEMMA PacketsStay ==
    ASSUME KernelOK, PacketsAreCompletions, UNCHANGED port,
           NEW d \in DirId, io[d] \notin Completed, NEW r, io' = [io EXCEPT ![d] = r]
    PROVE  PacketsAreCompletions'
<1>1. \A i \in 1..Len(port) : port[i] \in DirId \cup {WakePacket}
  BY ElementOfSeq DEF KernelOK
<1>2. \A e \in DirId : e # d => io'[e] = io[e]
  BY DEF KernelOK
<1> QED
  BY <1>1, <1>2 DEF PacketsAreCompletions

\* The cancels of RunTop and RunShutsDown.
LEMMA PacketsCancelled ==
    ASSUME KernelOK, PacketsAreCompletions, NEW D \in SUBSET DirId, Cancel(D)
    PROVE  PacketsAreCompletions'
<1>1. CASE UNCHANGED <<io, noted, port>>
  BY <1>1 DEF PacketsAreCompletions
<1>2. ASSUME NEW d \in D, io[d] = "pending", io' = [io EXCEPT ![d] = "aborted"],
             port' = Append(port, d)
      PROVE  PacketsAreCompletions'
  <2>1. "aborted" \in Completed /\ d \in DirId \cup {WakePacket}
    BY DEF Completed
  <2>2. \E r \in Completed : io' = [io EXCEPT ![d] = r]
    BY <1>2, <2>1
  <2> QED
    BY <1>2, <2>1, <2>2, PacketQueued
<1> QED
  BY <1>1, <1>2, CancelAborts

\* A call of WatchFile keeps BufferInv.
LEMMA WatchFileBuffer ==
    ASSUME TypeOK, BufferInv, NEW w \in WatchId, WatchFile(w)
    PROVE  BufferInv'
<1>k. KernelOK
  BY DEF TypeOK, KernelOK
<1> USE DEF BufferInv
<1>1. CASE WatchShares(w) \/ WatchFails(w)
  BY <1>1 DEF WatchShares, WatchFails, kernelVars, tableVars, runVars, OneDirWatcher,
              BufferOutlivesRead, ReissueIsActive, PacketsAreCompletions
<1>2. ASSUME NEW d \in DirId, NEW ok \in BOOLEAN, WatchOpens(w, d, ok) PROVE BufferInv'
  <2>1. /\ m_dirWatchers = {} /\ io[d] = "unopened"
        /\ io' = [io EXCEPT ![d] = IF ok THEN "pending" ELSE "idle"]
        /\ m_dirWatchers' = IF ok THEN {d} ELSE {}
        /\ UNCHANGED <<port, m_draining, live, pc>>
    BY <1>2 DEF WatchOpens, IssueRead, runVars
  <2>2. OneDirWatcher'
    BY <2>1 DEF OneDirWatcher
  <2>3. BufferOutlivesRead'
    BY <2>1 DEF BufferOutlivesRead, TypeOK, Completed
  <2>4. ReissueIsActive'
    BY <2>1 DEF ReissueIsActive
  <2>5. PacketsAreCompletions'
    BY <2>1, <1>k, PacketsStay DEF Completed
  <2> QED
    BY <2>2, <2>3, <2>4, <2>5
<1> QED
  BY <1>1, <1>2 DEF WatchFile

\* A step of Run keeps BufferInv.
LEMMA RunBuffer ==
    ASSUME TypeOK, BufferInv, Run \/ WaitFails
    PROVE  BufferInv'
<1>k. KernelOK
  BY DEF TypeOK, KernelOK
<1> USE DEF BufferInv
<1>c. ASSUME NEW D \in SUBSET DirId, Cancel(D),
             m_dirWatchers \cup m_draining \subseteq m_dirWatchers' \cup m_draining'
      PROVE  BufferOutlivesRead'
  <2>1. CASE UNCHANGED <<io, noted, port>>
    BY <1>c, <2>1 DEF BufferOutlivesRead
  <2>2. ASSUME NEW d \in D, io[d] = "pending", io' = [io EXCEPT ![d] = "aborted"]
        PROVE  BufferOutlivesRead'
    BY <1>c, <2>2 DEF BufferOutlivesRead, TypeOK
  <2> QED
    BY <1>c, <2>1, <2>2, CancelAborts
<1>1. CASE RunTop
  <2>1. Emptied \in SUBSET DirId /\ Emptied \subseteq m_dirWatchers
    BY DEF Emptied, TypeOK
  <2>2. /\ Cancel(Emptied)
        /\ m_dirWatchers' = m_dirWatchers \ Emptied
        /\ m_draining' = m_draining \cup Emptied
        /\ pc' = "wait"
    BY <1>1 DEF RunTop, DrainPendingUnwatches
  <2>3. OneDirWatcher'
    BY <2>2 DEF OneDirWatcher
  <2>4. BufferOutlivesRead'
    BY <1>c, <2>1, <2>2
  <2>5. PacketsAreCompletions'
    BY <1>k, <2>1, <2>2, PacketsCancelled
  <2> QED
    BY <2>2, <2>3, <2>4, <2>5 DEF ReissueIsActive
<1>2. CASE RunShutsDown
  <2>1. m_dirWatchers \in SUBSET DirId
    BY DEF TypeOK
  <2>2. /\ Cancel(m_dirWatchers)
        /\ m_dirWatchers' = {}
        /\ m_draining' = m_draining \cup m_dirWatchers
        /\ pc' # "reissue"
    BY <1>2 DEF RunShutsDown
  <2>4. BufferOutlivesRead'
    BY <1>c, <2>1, <2>2
  <2>5. PacketsAreCompletions'
    BY <1>k, <2>1, <2>2, PacketsCancelled
  <2> QED
    BY <2>2, <2>4, <2>5 DEF ReissueIsActive, OneDirWatcher
<1>3. CASE RunWakes
  <2>1. TakePacket(WakePacket) /\ pc' # "reissue" /\ UNCHANGED <<io, m_dirWatchers, m_draining>>
    BY <1>3 DEF RunWakes, EndOfLoop, tableVars
  <2>2. PacketsAreCompletions'
    BY <1>k, <2>1, PacketTaken
  <2> QED
    BY <2>1, <2>2 DEF ReissueIsActive, OneDirWatcher, BufferOutlivesRead
<1>4. CASE RunTimesOut \/ WaitFails
  <2>1. pc' # "reissue" /\ UNCHANGED <<port, io, m_dirWatchers, m_draining>>
    BY <1>4 DEF RunTimesOut, WaitFails, EndOfLoop, tableVars, kernelVars
  <2> QED
    BY <2>1 DEF ReissueIsActive, OneDirWatcher, BufferOutlivesRead, PacketsAreCompletions
<1>5. ASSUME NEW d \in DirId, RunDrains(d) \/ RunLogsError(d) PROVE BufferInv'
  <2>1. /\ TakePacket(d) /\ io' = [io EXCEPT ![d] = "idle"] /\ pc' = "top"
        /\ UNCHANGED m_dirWatchers
        /\ m_draining' \in {m_draining, m_draining \ {d}}
    BY <1>5 DEF RunDrains, RunLogsError, tableVars
  <2>2. PacketsAreCompletions'
    BY <1>k, <2>1, PacketTaken
  <2>3. BufferOutlivesRead'
    BY <2>1 DEF BufferOutlivesRead, TypeOK, Completed
  <2> QED
    BY <2>1, <2>2, <2>3 DEF ReissueIsActive, OneDirWatcher
<1>6. ASSUME NEW d \in DirId, RunCollects(d) PROVE BufferInv'
  <2>1. /\ TakePacket(d) /\ io' = [io EXCEPT ![d] = "idle"] /\ live' = {d}
        /\ d \in m_dirWatchers
        /\ UNCHANGED <<m_dirWatchers, m_draining>>
    BY <1>6 DEF RunCollects, tableVars
  <2>2. PacketsAreCompletions'
    BY <1>k, <2>1, PacketTaken
  <2>3. BufferOutlivesRead'
    BY <2>1 DEF BufferOutlivesRead, TypeOK, Completed
  <2> QED
    BY <2>1, <2>2, <2>3 DEF ReissueIsActive, OneDirWatcher, TypeOK
<1>7. ASSUME NEW d \in DirId, NEW ok \in BOOLEAN, Reissue(d, ok) PROVE BufferInv'
  <2>1. /\ io[d] = "idle" /\ d \in m_dirWatchers
        /\ io' = [io EXCEPT ![d] = IF ok THEN "pending" ELSE "idle"]
        /\ m_dirWatchers' = IF ok THEN m_dirWatchers ELSE m_dirWatchers \ {d}
        /\ UNCHANGED <<port, m_draining>>
        /\ pc' # "reissue"
    BY <1>7 DEF Reissue, IssueRead, EndOfLoop, ReissueIsActive
  <2>2. PacketsAreCompletions'
    BY <1>k, <2>1, PacketsStay DEF Completed
  <2>3. BufferOutlivesRead'
    BY <2>1 DEF BufferOutlivesRead, TypeOK, Completed
  <2> QED
    BY <2>1, <2>2, <2>3 DEF ReissueIsActive, OneDirWatcher
<1>8. ASSUME NEW w \in WatchId, Callback(w) PROVE BufferInv'
  BY <1>8 DEF Callback, kernelVars, tableVars, ReissueIsActive, OneDirWatcher,
              BufferOutlivesRead, PacketsAreCompletions
<1> QED
  BY <1>1, <1>2, <1>3, <1>4, <1>5, <1>6, <1>7, <1>8 DEF Run

\* Every step keeps BufferInv.
LEMMA NextBuffer ==
    ASSUME TypeOK, BufferInv, [Next]_vars
    PROVE  BufferInv'
<1>k. KernelOK
  BY DEF TypeOK, KernelOK
<1> USE DEF BufferInv
<1>1. ASSUME NEW d \in DirId, NEW r \in Completed, io[d] = "pending",
             io' = [io EXCEPT ![d] = r], port' = Append(port, d),
             UNCHANGED <<tableVars, runVars>>
      PROVE  BufferInv'
  <2>1. PacketsAreCompletions'
    BY <1>1, <1>k, PacketQueued
  <2>2. BufferOutlivesRead'
    BY <1>1 DEF BufferOutlivesRead, TypeOK, tableVars
  <2>3. ReissueIsActive'
    BY <1>1 DEF ReissueIsActive, tableVars, runVars
  <2>4. OneDirWatcher'
    BY <1>1 DEF OneDirWatcher, tableVars
  <2> QED
    BY <2>1, <2>2, <2>3, <2>4
<1>2. CASE \E d \in DirId, result \in {"hit", "miss"} : ReadCompletes(d, result)
  BY <1>1, <1>2 DEF ReadCompletes, Completed
<1>3. CASE \E d \in DirId : ReadFails(d)
  BY <1>1, <1>3 DEF ReadFails, Completed
<1>4. ASSUME NEW w \in WatchId, WatchFile(w) PROVE BufferInv'
  BY <1>4, WatchFileBuffer
<1>5. CASE (\E w \in WatchId : UnwatchWakes(w)) \/ WakeToEnd
  <2>1. /\ port' = Append(port, WakePacket)
        /\ UNCHANGED <<io, m_dirWatchers, m_draining, pc, live>>
    BY <1>5 DEF UnwatchWakes, WakeToEnd, tableVars, runVars
  <2>2. PacketsAreCompletions'
    BY <1>k, <2>1, PacketQueued
  <2> QED
    BY <2>1, <2>2 DEF ReissueIsActive, OneDirWatcher, BufferOutlivesRead
<1>6. CASE \/ \E name \in {"file", "other"} : Change(name)
           \/ \E w \in WatchId : UnwatchQueues(w)
           \/ DeadlinePasses \/ StoreShutdown \/ Join \/ UNCHANGED vars
  <2>1. UNCHANGED <<io, port, m_dirWatchers, m_draining, pc, live>>
    BY <1>6 DEF Change, UnwatchQueues, DeadlinePasses, StoreShutdown, Join, vars,
                kernelVars, tableVars, runVars
  <2> QED
    BY <2>1 DEF ReissueIsActive, OneDirWatcher, BufferOutlivesRead, PacketsAreCompletions
<1>7. CASE Run \/ WaitFails
  BY <1>7, RunBuffer
<1> QED
  BY <1>2, <1>3, <1>4, <1>5, <1>6, <1>7 DEF Next, Kernel

-----------------------------------------------------------------------------
(* Watches and callbacks.                                                  *)

UserInv == RunInv /\ \A w \in WatchId : TablesAt(w) /\ LateAt(w)

\* FireDirty calls only watches that have a location.
LEMMA EndOfLoopCalls ==
    ASSUME RunInv, pc \in {"wait", "reissue"}, NEW dl, NEW active, EndOfLoop(dl, active)
    PROVE  /\ calling = {} /\ calling' \subseteq m_watchLocations
           /\ calling' # {} => pc' = "call"
           /\ pc' \in {"top", "call"}
BY DEF RunInv, EndOfLoop, HasCallback

\* A step at whose end FireDirty may be called keeps UserInv.
LEMMA FireDirtyUser ==
    ASSUME UserInv, pc \in {"wait", "reissue"}, NEW dl, NEW active, EndOfLoop(dl, active),
           UNCHANGED <<m_watchLocations, m_pendingUnwatches, caller, owner, late>>
    PROVE  UserInv'
<1>1. /\ calling = {} /\ calling' \subseteq m_watchLocations
      /\ calling' # {} => pc' = "call"
      /\ pc' \in {"top", "call"}
  BY EndOfLoopCalls DEF UserInv
<1>2. RunInv'
  BY <1>1 DEF UserInv, RunInv
<1>3. ASSUME NEW w \in WatchId PROVE TablesAt(w)' /\ LateAt(w)'
  BY <1>1 DEF UserInv, TablesAt, LateAt
<1> QED
  BY <1>2, <1>3 DEF UserInv

\* A step of Run keeps UserInv.
LEMMA RunUser ==
    ASSUME TypeOK, UserInv, Run \/ WaitFails
    PROVE  UserInv'
<1>1. CASE RunTop
  <2>1. /\ pc = "top" /\ pc' = "wait"
        /\ m_watchLocations' = m_watchLocations \ m_pendingUnwatches
        /\ m_pendingUnwatches' = {}
        /\ UNCHANGED <<calling, caller, owner, late>>
    BY <1>1 DEF RunTop, DrainPendingUnwatches, Unwatched, userVars, histVars
  <2>2. RunInv'
    BY <2>1 DEF UserInv, RunInv
  <2>3. ASSUME NEW w \in WatchId PROVE TablesAt(w)' /\ LateAt(w)'
    BY <2>1 DEF UserInv, TablesAt, LateAt
  <2> QED
    BY <2>2, <2>3 DEF UserInv
<1>2. CASE RunShutsDown
  <2>1. /\ pc = "top" /\ pc' \in {"wait", "ended"}
        /\ m_watchLocations' = {}
        /\ UNCHANGED <<calling, caller, owner, late>>
    BY <1>2 DEF RunShutsDown, userVars, histVars
  <2>2. RunInv'
    BY <2>1 DEF UserInv, RunInv
  <2>3. ASSUME NEW w \in WatchId PROVE TablesAt(w)' /\ LateAt(w)'
    BY <2>1 DEF UserInv, TablesAt, LateAt
  <2> QED
    BY <2>2, <2>3 DEF UserInv
<1>3. CASE RunWakes \/ RunTimesOut \/ WaitFails
  BY <1>3, FireDirtyUser DEF RunWakes, RunTimesOut, WaitFails, TakePacket, tableVars, userVars, histVars
<1>4. ASSUME NEW d \in DirId, NEW ok \in BOOLEAN, Reissue(d, ok) PROVE UserInv'
  BY <1>4, FireDirtyUser DEF Reissue, userVars
<1>5. ASSUME NEW d \in DirId, RunDrains(d) \/ RunLogsError(d) \/ RunCollects(d) PROVE UserInv'
  <2>1. /\ pc = "wait" /\ pc' \in {"top", "reissue"}
        /\ UNCHANGED <<m_watchLocations, m_pendingUnwatches, calling, caller, owner, late>>
    BY <1>5 DEF RunDrains, RunLogsError, RunCollects, TakePacket, tableVars, userVars, histVars
  <2>2. RunInv'
    BY <2>1 DEF UserInv, RunInv
  <2>3. ASSUME NEW w \in WatchId PROVE TablesAt(w)' /\ LateAt(w)'
    BY <2>1 DEF UserInv, TablesAt, LateAt
  <2> QED
    BY <2>2, <2>3 DEF UserInv
<1>6. ASSUME NEW w \in WatchId, Callback(w) PROVE UserInv'
  <2>1. /\ pc = "call" /\ w \in calling /\ calling' = calling \ {w}
        /\ pc' = IF calling' = {} THEN "top" ELSE "call"
        /\ late' = [late EXCEPT ![w] = IF caller[w] = "done" THEN @ + 1 ELSE @]
        /\ UNCHANGED <<m_watchLocations, m_pendingUnwatches, caller, owner>>
    BY <1>6 DEF Callback, tableVars, userVars
  <2>2. RunInv'
    BY <2>1 DEF UserInv, RunInv
  <2>3. ASSUME NEW v \in WatchId PROVE TablesAt(v)'
    BY <2>1 DEF UserInv, TablesAt
  <2>4. LateAt(w)'
    <3>1. late[w] = 0
      BY <2>1 DEF UserInv, LateAt
    <3>2. late'[w] = IF caller[w] = "done" THEN 1 ELSE 0
      BY <2>1, <3>1 DEF TypeOK
    <3> QED
      BY <2>1, <3>2 DEF LateAt
  <2>5. ASSUME NEW v \in WatchId, v # w PROVE LateAt(v)'
    <3>1. late'[v] = late[v]
      BY <2>1, <2>5 DEF TypeOK
    <3> QED
      BY <2>1, <3>1 DEF UserInv, LateAt
  <2> QED
    BY <2>2, <2>3, <2>4, <2>5 DEF UserInv
<1> QED
  BY <1>1, <1>2, <1>3, <1>4, <1>5, <1>6 DEF Run

\* Every step keeps UserInv.
LEMMA NextUser ==
    ASSUME TypeOK, UserInv, [Next]_vars
    PROVE  UserInv'
<1>1. ASSUME NEW w \in WatchId, WatchFile(w) PROVE UserInv'
  <2>1. /\ caller[w] = "new"
        /\ \/ /\ caller' = [caller EXCEPT ![w] = "watching"]
              /\ m_watchLocations' = m_watchLocations \cup {w}
           \/ /\ caller' = [caller EXCEPT ![w] = "failed"]
              /\ UNCHANGED m_watchLocations
        /\ UNCHANGED <<m_pendingUnwatches, pc, calling, owner, late>>
    BY <1>1 DEF WatchFile, WatchShares, WatchOpens, WatchFails, Calls, tableVars, runVars
  <2>2. RunInv'
    BY <2>1 DEF UserInv, RunInv
  <2>3. TablesAt(w)' /\ LateAt(w)'
    BY <2>1 DEF UserInv, TablesAt, LateAt, TypeOK
  <2>4. ASSUME NEW v \in WatchId, v # w PROVE TablesAt(v)' /\ LateAt(v)'
    BY <2>1, <2>4 DEF UserInv, TablesAt, LateAt, TypeOK
  <2> QED
    BY <2>2, <2>3, <2>4 DEF UserInv
<1>2. ASSUME NEW w \in WatchId, UnwatchQueues(w) PROVE UserInv'
  <2>1. /\ caller[w] = "watching" /\ owner = "alive"
        /\ caller' = [caller EXCEPT ![w] = "unwatching"]
        /\ m_pendingUnwatches' = m_pendingUnwatches \cup {w}
        /\ UNCHANGED <<m_watchLocations, pc, calling, owner, late>>
    BY <1>2 DEF UnwatchQueues, runVars
  <2>2. RunInv'
    BY <2>1 DEF UserInv, RunInv
  <2>3. TablesAt(w)' /\ LateAt(w)'
    BY <2>1 DEF UserInv, TablesAt, LateAt, TypeOK
  <2>4. ASSUME NEW v \in WatchId, v # w PROVE TablesAt(v)' /\ LateAt(v)'
    BY <2>1, <2>4 DEF UserInv, TablesAt, LateAt, TypeOK
  <2> QED
    BY <2>2, <2>3, <2>4 DEF UserInv
<1>3. ASSUME NEW w \in WatchId, UnwatchWakes(w) PROVE UserInv'
  <2>1. /\ caller[w] = "unwatching"
        /\ caller' = [caller EXCEPT ![w] = "done"]
        /\ UNCHANGED <<m_pendingUnwatches, m_watchLocations, pc, calling, owner, late>>
    BY <1>3 DEF UnwatchWakes, tableVars, runVars, histVars
  <2>2. RunInv'
    BY <2>1 DEF UserInv, RunInv
  <2>3. TablesAt(w)' /\ LateAt(w)'
    BY <2>1 DEF UserInv, TablesAt, LateAt, TypeOK
  <2>4. ASSUME NEW v \in WatchId, v # w PROVE TablesAt(v)' /\ LateAt(v)'
    BY <2>1, <2>4 DEF UserInv, TablesAt, LateAt, TypeOK
  <2> QED
    BY <2>2, <2>3, <2>4 DEF UserInv
<1>4. CASE Run \/ WaitFails
  BY <1>4, RunUser
<1>5. CASE \/ StoreShutdown \/ WakeToEnd \/ Join \/ DeadlinePasses \/ UNCHANGED vars
           \/ \E name \in {"file", "other"} : Change(name)
           \/ \E d \in DirId, result \in {"hit", "miss"} : ReadCompletes(d, result)
           \/ \E d \in DirId : ReadFails(d)
  <2>1. /\ UNCHANGED <<m_watchLocations, m_pendingUnwatches, pc, calling, caller, late>>
        /\ owner' = "gone" => pc = "ended"
        /\ owner' # "alive" => owner # "alive" \/ \A w \in WatchId : caller[w] # "unwatching"
    BY <1>5 DEF UserInv, RunInv, StoreShutdown, WakeToEnd, Join, DeadlinePasses, vars, Change,
                ReadCompletes, ReadFails, tableVars, runVars, userVars, histVars
  <2>2. RunInv'
    BY <2>1 DEF UserInv, RunInv
  <2>3. ASSUME NEW w \in WatchId PROVE TablesAt(w)' /\ LateAt(w)'
    BY <2>1 DEF UserInv, TablesAt, LateAt
  <2> QED
    BY <2>2, <2>3 DEF UserInv
<1> QED
  BY <1>1, <1>2, <1>3, <1>4, <1>5 DEF Next, Kernel

-----------------------------------------------------------------------------
(* The invariant.                                                          *)

\* IInv holds when Create() has started the thread.
LEMMA InitInv == Init => IInv
<1> SUFFICES ASSUME Init PROVE IInv
  OBVIOUS
<1> USE WinAssumption DEF Init
<1>1. BufferInv
  BY DEF BufferInv, OneDirWatcher, BufferOutlivesRead, ReissueIsActive, PacketsAreCompletions, Completed
<1>2. TypeOK
  <2>1. Cardinality(m_dirWatchers) <= 1
    BY OneDirCardinality
  <2>2. port \in Seq(DirId \cup {WakePacket})
    BY EmptySeq
  <2>3. MaxChanges \in Nat /\ MaxFailures \in Nat
    BY WinAssumption
  <2>4. /\ io \in [DirId -> {"unopened", "idle", "pending"} \cup Completed]
        /\ noted \in [DirId -> {"nothing", "other", "file"}]
        /\ entries \in [DirId -> SUBSET WatchId]
        /\ caller \in [WatchId -> {"new", "watching", "unwatching", "done", "failed"}]
    OBVIOUS
  <2>5. /\ version \in 0..MaxChanges
        /\ seen \in [WatchId -> 0..MaxChanges]
        /\ late \in [WatchId -> Nat]
        /\ refused \in 0..MaxFailures
        /\ errors \in 0..MaxFailures
    BY <2>3
  <2>6. /\ m_dirWatchers \subseteq DirId
        /\ m_draining \subseteq DirId
        /\ m_watchLocations \subseteq WatchId
        /\ m_pendingUnwatches \subseteq WatchId
        /\ live \subseteq DirId
        /\ dirty \subseteq WatchId
        /\ calling \subseteq WatchId
    OBVIOUS
  <2>7. /\ m_shutdown \in BOOLEAN
        /\ pc \in {"top", "wait", "reissue", "call", "ended"}
        /\ deadline \in {"none", "set", "passed"}
        /\ shuttingDown \in BOOLEAN
        /\ owner \in {"alive", "waking", "joining", "gone"}
    OBVIOUS
  <2> HIDE DEF Init
  <2> QED
    BY <2>1, <2>2, <2>4, <2>5, <2>6, <2>7 DEF TypeOK
<1>3. RunInv
  BY DEF RunInv
<1>4. \A w \in WatchId : TablesAt(w) /\ LateAt(w)
  BY DEF TablesAt, LateAt
<1> QED
  BY <1>1, <1>2, <1>3, <1>4 DEF IInv

\* Every step keeps IInv.
LEMMA NextInv == IInv /\ [Next]_vars => IInv'
<1> SUFFICES ASSUME IInv, [Next]_vars PROVE IInv'
  OBVIOUS
<1>1. TypeOK /\ BufferInv /\ UserInv
  BY DEF IInv, UserInv
<1>2. BufferInv'
  BY <1>1, NextBuffer
<1>3. UserInv'
  BY <1>1, NextUser
<1>4. TypeOK'
  BY <1>1, <1>2, NextType DEF BufferInv
<1> QED
  BY <1>2, <1>3, <1>4 DEF IInv, UserInv

\* Every reachable state of the watcher is well typed; in particular there is at
\* most one watcher of the directory in m_dirWatchers, however WatchFile, Run and
\* the destructor interleave.
THEOREM TypeCorrect == Spec => []TypeOK
<1>1. IInv => TypeOK
  BY DEF IInv
<1> QED
  BY <1>1, InitInv, NextInv, PTL DEF Spec

\* The comment on m_draining: a directory watcher is held by m_dirWatchers or
\* m_draining as long as the kernel may write to its buffer, or its completion is
\* on the port.
THEOREM BufferIsHeld == Spec => []BufferOutlivesRead
<1>1. IInv => BufferOutlivesRead
  BY DEF IInv, BufferInv
<1> QED
  BY <1>1, InitInv, NextInv, PTL DEF Spec

\* A packet of the port is a wake or the completion of a watcher that Run finds
\* in m_dirWatchers or m_draining: the pointer in its key is never stale.
PacketIsFound ==
    \A i \in 1..Len(port) : port[i] # WakePacket => port[i] \in m_dirWatchers \cup m_draining

\* Run never gets a packet of a WinDirWatcher that has been freed.
THEOREM NoStalePacket == Spec => []PacketIsFound
<1>1. ASSUME IInv PROVE PacketIsFound
  <2>1. ASSUME NEW i \in 1..Len(port), port[i] # WakePacket
        PROVE  port[i] \in m_dirWatchers \cup m_draining
    <3>1. port[i] \in DirId \cup {WakePacket}
      BY <1>1, ElementOfSeq DEF IInv, TypeOK
    <3> QED
      BY <1>1, <2>1, <3>1 DEF IInv, BufferInv, PacketsAreCompletions, BufferOutlivesRead
  <2> QED
    BY <2>1 DEF PacketIsFound
<1> QED
  BY <1>1, InitInv, NextInv, PTL DEF Spec

-----------------------------------------------------------------------------
(* The refinement of FileWatch.                                            *)

\* The states of the users, one by one.
LEMMA UserStatesAre ==
    ASSUME TypeOK
    PROVE  /\ UserStates \in [WatchId -> {"none", "watching", "leaving", "left", "failed"}]
           /\ \A w \in WatchId :
                 /\ caller[w] = "new" <=> UserStates[w] = "none"
                 /\ caller[w] = "watching" <=> UserStates[w] = "watching"
                 /\ caller[w] = "unwatching" <=> UserStates[w] = "leaving"
                 /\ caller[w] = "done" <=> UserStates[w] = "left"
                 /\ caller[w] = "failed" <=> UserStates[w] = "failed"
BY DEF UserStates, TypeOK

\* When one user moves, so does its state.
LEMMA UserMoves ==
    ASSUME TypeOK, TypeOK', NEW w \in WatchId,
           NEW s \in {"watching", "unwatching", "done", "failed"},
           NEW t, t = CASE s = "watching" -> "watching" [] s = "unwatching" -> "leaving"
                        [] s = "done" -> "left" [] s = "failed" -> "failed",
           caller' = [caller EXCEPT ![w] = s]
    PROVE  UserStates' = [UserStates EXCEPT ![w] = t]
<1>1. UserStates'[w] = t
  <2>1. caller'[w] = s
    BY DEF TypeOK
  <2> QED
    BY <2>1 DEF UserStates
<1>2. \A v \in WatchId : v # w => UserStates'[v] = UserStates[v]
  BY DEF UserStates, TypeOK
<1>3. UserStates' = [v \in WatchId |-> UserStates'[v]] /\ UserStates = [v \in WatchId |-> UserStates[v]]
  BY DEF UserStates
<1> QED
  BY <1>1, <1>2, <1>3

\* The initial states are FileWatch's.
LEMMA InitRefines == Init => Watcher!Init
BY DEF Init, Watcher!Init, UserStates, Alive

\* Every step is one of FileWatch's, or a stutter.
LEMMA StepRefines ==
    ASSUME IInv, IInv', [Next]_vars
    PROVE  [Watcher!Next]_(Watcher!vars)
<1>t. TypeOK /\ TypeOK'
  BY DEF IInv
<1>u. RunInv /\ \A w \in WatchId : TablesAt(w) /\ LateAt(w)
  BY DEF IInv
<1>s. ASSUME UNCHANGED <<version, caller, seen, late, owner>>
      PROVE  UNCHANGED Watcher!vars
  BY <1>s DEF UserStates, Alive, Watcher!vars
<1>1. ASSUME NEW name \in {"file", "other"}, Change(name) PROVE [Watcher!Next]_(Watcher!vars)
  <2>1. UNCHANGED <<UserStates, Alive, seen, late>> /\ Alive
    BY <1>1 DEF UserStates, Alive, Change, userVars, histVars
  <2>2. version' = version \/ version' = version + 1
    BY <1>1 DEF Change
  <2>3. CASE version' = version
    BY <2>1, <2>3 DEF Watcher!vars
  <2>4. CASE version' = version + 1
    BY <2>1, <2>4 DEF Watcher!Next, Watcher!Change
  <2> QED
    BY <2>2, <2>3, <2>4
<1>2. ASSUME NEW w \in WatchId, WatchFile(w) PROVE Watcher!WatchFile(w)
  <2>1. /\ caller[w] = "new" /\ owner = "alive"
        /\ \/ /\ caller' = [caller EXCEPT ![w] = "watching"]
              /\ seen' = [seen EXCEPT ![w] = version]
           \/ /\ caller' = [caller EXCEPT ![w] = "failed"]
              /\ UNCHANGED seen
        /\ UNCHANGED <<version, owner, late>>
    BY <1>2 DEF WatchFile, WatchShares, WatchOpens, WatchFails, Calls
  <2>2. UserStates[w] = "none"
    BY <1>t, <2>1, UserStatesAre
  <2>3. Alive /\ UNCHANGED Alive
    BY <2>1 DEF Alive
  <2>4. CASE caller' = [caller EXCEPT ![w] = "watching"] /\ seen' = [seen EXCEPT ![w] = version]
    <3>1. UserStates' = [UserStates EXCEPT ![w] = "watching"]
      BY <1>t, <2>4, UserMoves
    <3> QED
      BY <2>1, <2>2, <2>3, <2>4, <3>1 DEF Watcher!WatchFile
  <2>5. CASE caller' = [caller EXCEPT ![w] = "failed"] /\ UNCHANGED seen
    <3>1. UserStates' = [UserStates EXCEPT ![w] = "failed"]
      BY <1>t, <2>5, UserMoves
    <3> QED
      BY <2>1, <2>2, <2>3, <2>5, <3>1 DEF Watcher!WatchFile
  <2> QED
    BY <2>1, <2>4, <2>5
<1>3. ASSUME NEW w \in WatchId, UnwatchQueues(w) PROVE Watcher!Unwatch(w)
  <2>1. UserStates[w] = "watching"
    BY <1>t, <1>3, UserStatesAre DEF UnwatchQueues
  <2>2. UserStates' = [UserStates EXCEPT ![w] = "leaving"]
    BY <1>t, <1>3, UserMoves DEF UnwatchQueues
  <2>3. Alive /\ UNCHANGED <<version, late, Alive>> /\ seen' = [seen EXCEPT ![w] = 0]
    BY <1>3 DEF UnwatchQueues, Alive
  <2> QED
    BY <2>1, <2>2, <2>3 DEF Watcher!Unwatch
<1>4. ASSUME NEW w \in WatchId, UnwatchWakes(w) PROVE Watcher!UnwatchReturns(w)
  <2>1. UserStates[w] = "leaving"
    BY <1>t, <1>4, UserStatesAre DEF UnwatchWakes
  <2>2. UserStates' = [UserStates EXCEPT ![w] = "left"]
    BY <1>t, <1>4, UserMoves DEF UnwatchWakes
  <2>3. Alive /\ UNCHANGED <<version, seen, late, Alive>>
    BY <1>4, <1>u DEF UnwatchWakes, Alive, TablesAt, histVars
  <2> QED
    BY <2>1, <2>2, <2>3 DEF Watcher!UnwatchReturns
<1>5. ASSUME NEW w \in WatchId, Callback(w) PROVE Watcher!Callback(w) \/ Watcher!LateCallback(w)
  <2>1. Alive /\ UNCHANGED <<version, UserStates, Alive>>
    BY <1>5, <1>u DEF Callback, Alive, UserStates, RunInv, userVars
  <2>2. caller[w] \in {"watching", "unwatching", "done"} /\ w \in calling
    BY <1>5, <1>u DEF Callback, TablesAt
  <2>3. CASE caller[w] = "done"
    <3>1. UserStates[w] = "left"
      BY <1>t, <2>3, UserStatesAre
    <3>2. late[w] = 0
      BY <1>u, <2>2 DEF LateAt
    <3>3. late' = [late EXCEPT ![w] = 1]
      BY <1>5, <2>3, <3>2 DEF Callback
    <3>4. UNCHANGED seen
      BY <1>5, <1>t, <2>3 DEF Callback, TypeOK
    <3> QED
      BY <2>1, <3>1, <3>2, <3>3, <3>4 DEF Watcher!LateCallback
  <2>4. CASE caller[w] \in {"watching", "unwatching"}
    <3>1. /\ UserStates[w] \in {"watching", "leaving"}
          /\ caller[w] = "watching" <=> UserStates[w] = "watching"
      BY <1>t, <2>4, UserStatesAre
    <3>2. seen' = [seen EXCEPT ![w] = IF UserStates[w] = "watching" THEN version ELSE @]
      BY <1>5, <3>1 DEF Callback
    <3>3. UNCHANGED late
      BY <1>5, <1>t, <2>4 DEF Callback, TypeOK
    <3> QED
      BY <2>1, <3>1, <3>2, <3>3 DEF Watcher!Callback
  <2> QED
    BY <2>2, <2>3, <2>4
<1>6. CASE Join
  <2>1. \A w \in WatchId : UserStates[w] # "leaving"
    BY <1>6, <1>t, <1>u, UserStatesAre DEF Join, TablesAt
  <2>2. Alive /\ Alive' = FALSE /\ UNCHANGED <<version, UserStates, seen, late>>
    BY <1>6 DEF Join, Alive, UserStates, histVars
  <2>3. Watcher!Destroy
    BY <2>1, <2>2 DEF Watcher!Destroy
  <2> QED
    BY <2>3 DEF Watcher!Next
<1>7. CASE StoreShutdown \/ WakeToEnd
  <2>1. UNCHANGED <<version, UserStates, seen, late, Alive>>
    BY <1>7 DEF StoreShutdown, WakeToEnd, Alive, UserStates, histVars
  <2> QED
    BY <2>1 DEF Watcher!vars
<1>8. CASE \/ DeadlinePasses \/ UNCHANGED vars
           \/ \E d \in DirId, result \in {"hit", "miss"} : ReadCompletes(d, result)
           \/ \E d \in DirId : ReadFails(d)
  <2>1. UNCHANGED <<version, caller, seen, late, owner>>
    BY <1>8 DEF DeadlinePasses, vars, ReadCompletes, ReadFails, userVars, histVars
  <2> QED
    BY <1>s, <2>1
<1>9. CASE \/ RunTop \/ RunShutsDown \/ RunWakes \/ RunTimesOut \/ WaitFails
           \/ \E d \in DirId : RunDrains(d) \/ RunCollects(d)
           \/ \E d \in DirId : RunLogsError(d)
           \/ \E d \in DirId, ok \in BOOLEAN : Reissue(d, ok)
  <2>1. UNCHANGED <<version, caller, seen, late, owner>>
    BY <1>9 DEF RunTop, RunShutsDown, RunWakes, RunTimesOut, WaitFails, RunDrains, RunCollects,
                RunLogsError, Reissue, userVars, histVars
  <2> QED
    BY <1>s, <2>1
<1> QED
  BY <1>1, <1>2, <1>3, <1>4, <1>5, <1>6, <1>7, <1>8, <1>9 DEF Next, Kernel, Run, Watcher!Next

\* WinFileWatcher keeps what IFileWatcher promises: at most one callback comes
\* after Unwatch has returned and none after the destructor has, whatever the
\* kernel completes, cancels or refuses in between.
THEOREM ImplementsIFileWatcher == Spec => ImplementsFileWatch
<1>1. Init /\ [][Next]_vars => []IInv
  BY InitInv, NextInv, PTL
<1>2. Init /\ [][Next]_vars => Watcher!Init /\ [][Watcher!Next]_(Watcher!vars)
  BY <1>1, InitRefines, StepRefines, PTL
<1> QED
  BY <1>2 DEF Spec, ImplementsFileWatch, Watcher!Spec
=============================================================================
