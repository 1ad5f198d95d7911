---------------------------- MODULE ServerProofs ----------------------------
(***************************************************************************)
(* Proofs about Server, for every set of connection ids, every number of   *)
(* workers and either kind of build.                                       *)
(***************************************************************************)
EXTENDS Server, AsioConnectionProofs

-----------------------------------------------------------------------------
(* Types.                                                                  *)

\* OnDisconnect appends an erase to the server's strand, or nothing.
LEMMA OnDisconnectType ==
    ASSUME posted \in Seq(ServerHandler), NEW c \in ConnId, OnDisconnect(c)
    PROVE  posted' \in Seq(ServerHandler)
<1>1. Erase(c) \in ServerHandler
  BY DEF Erase, ServerHandler
<1> QED
  BY <1>1, AppendProperties DEF OnDisconnect

\* Taking the head off the server's strand leaves a strand of handlers.
LEMMA TakePostedType ==
    ASSUME posted \in Seq(ServerHandler), NEW op, TakePosted(op)
    PROVE  posted' \in Seq(ServerHandler)
BY HeadTailProperties DEF TakePosted

\* A step of the server's own keeps the state well typed.
LEMMA ServerStepType ==
    ASSUME TypeOK, ServerStep \/ Environment
    PROVE  TypeOK'
<1> USE DEF TypeOK
<1>c. ASSUME UNCHANGED connVars PROVE ConnTypeOK'
  BY <1>c DEF connVars, socketVars, writeVars, ConnTypeOK
<1> USE DEF tableVars, loopVars, signalVars, runVars, AccepterPc, SignalerPc, Signal
<1>1. CASE ServeForever
  <2>1. <<[op |-> "HandleSignals"], [op |-> "AcceptConnections"]>> \in Seq(ServerHandler)
    <3>1. [op |-> "HandleSignals"] \in ServerHandler /\ [op |-> "AcceptConnections"] \in ServerHandler
      BY DEF ServerHandler
    <3> QED
      BY <3>1
  <2> QED
    BY <1>1, <1>c, <2>1 DEF ServeForever
<1>2. CASE Return
  BY <1>2, <1>c DEF Return
<1>3. CASE HandleSignalsStart
  BY <1>3, <1>c, TakePostedType DEF HandleSignalsStart
<1>4. CASE AcceptConnectionsStart
  BY <1>4, <1>c, TakePostedType DEF AcceptConnectionsStart
<1>5. CASE RunErase
  BY <1>5, <1>c, TakePostedType DEF RunErase
<1>6. CASE AcceptLoopConnects
  <2>1. m_nextConnId \in ConnId /\ ServerObserver \in Observer
    BY <1>6, ServerAssumption DEF AcceptLoopConnects
  <2>2. ConnTypeOK'
    BY <1>6, <2>1, LifeType DEF AcceptLoopConnects
  <2> QED
    BY <1>6, <2>1, <2>2 DEF AcceptLoopConnects
<1>7. CASE AcceptLoopBreaks
  BY <1>7, <1>c DEF AcceptLoopBreaks
<1>8. ASSUME NEW s \in Signal, SignalArrives(s)
      PROVE  TypeOK'
  BY <1>8, <1>c DEF SignalArrives
<1>9. CASE SignalLoopReloads
  BY <1>9, <1>c DEF SignalLoopReloads
<1>10. CASE SignalLoopDrains
  BY <1>10, <1>c DEF SignalLoopDrains
<1>11. CASE CloseLoopEnds
  BY <1>11, <1>c DEF CloseLoopEnds
<1>12. CASE ClientArrives
  BY <1>12, <1>c DEF ClientArrives
<1>13. CASE AcceptFails
  BY <1>13, <1>c DEF AcceptFails
<1>14. ASSUME NEW s \in Signal, Raise(s)
       PROVE  TypeOK'
  BY <1>14, <1>c, ServerAssumption DEF Raise
<1> QED
  BY <1>1, <1>2, <1>3, <1>4, <1>5, <1>6, <1>7, <1>8, <1>9, <1>10, <1>11, <1>12,
     <1>13, <1>14 DEF ServerStep, Environment

\* A step of a connection keeps the state well typed.
LEMMA ConnStepType ==
    ASSUME TypeOK, NEW c \in ConnId, ConnStep(c)
    PROVE  TypeOK'
<1> USE DEF TypeOK, tableVars, loopVars, signalVars, runVars, serverVars
<1>1. CASE ConnHandler(c)
  BY <1>1, RunsHandlerType, OnDisconnectType DEF ConnHandler
<1>2. CASE ConnReader(c)
  BY <1>2, ReaderType, OnDisconnectType DEF ConnReader
<1>3. CASE ConnWriter(c)
  BY <1>3, ResumesWriterType, OnDisconnectType DEF ConnWriter
<1>4. CASE ConnIo(c)
  BY <1>4, KernelStepType DEF ConnIo
<1>5. CASE Release(c)
  BY <1>5, LifeType DEF Release
<1>6. CASE CloseBusy(c)
  BY <1>6, LifeType DEF CloseBusy
<1>7. CASE CloseIdle(c)
  <2>1. ConnTypeOK'
    BY <1>7, LifeType DEF CloseIdle
  <2> QED
    BY <1>7, <2>1 DEF CloseIdle
<1> QED
  BY <1>1, <1>2, <1>3, <1>4, <1>5, <1>6, <1>7 DEF ConnStep

\* The initial state of Server is well typed.
LEMMA InitType == Init => TypeOK
<1> SUFFICES ASSUME Init PROVE TypeOK
  OBVIOUS
<1>1. ConnTypeOK
  BY ConnInitType DEF Init
<1>2. reloads \in 0..MaxReloads /\ m_nextConnId \in Nat
  BY ServerAssumption DEF Init
<1>3. posted \in Seq(ServerHandler)
  BY DEF Init
<1>4. m_connections \subseteq ConnId /\ toClose \subseteq ConnId /\ signals \subseteq Signal
  BY DEF Init
<1> QED
  BY <1>1, <1>2, <1>3, <1>4 DEF Init, TypeOK, AccepterPc, SignalerPc

\* Every step of Server, a stuttering one included, keeps the state well typed.
LEMMA NextType == TypeOK /\ [Next]_vars => TypeOK'
<1> SUFFICES ASSUME TypeOK, [Next]_vars PROVE TypeOK'
  OBVIOUS
<1>1. CASE ServerStep \/ Environment
  BY <1>1, ServerStepType
<1>2. ASSUME NEW c \in ConnId, ConnStep(c) PROVE TypeOK'
  BY <1>2, ConnStepType
<1>3. ASSUME UNCHANGED vars PROVE TypeOK'
  BY <1>3 DEF vars, connVars, socketVars, writeVars, serverVars, tableVars, loopVars,
              signalVars, runVars, TypeOK, ConnTypeOK
<1> QED
  BY <1>1, <1>2, <1>3 DEF Next, Terminated

\* Server and its connections never leave their types, whatever the number of
\* clients, workers and signals.
THEOREM TypeCorrect == Spec => []TypeOK
BY InitType, NextType, PTL DEF Spec

-----------------------------------------------------------------------------
(* The inductive invariant: why the table and the sockets stay in step.    *)

AddServer == [op |-> "AddObserver", observer |-> ServerObserver]

USE DEF Observes

\* AddObserver runs before anything of the connection can close it.
Observed ==
    \A c \in ConnId : socket[c] = "open" =>
        \/ Observes(c, ServerObserver)
        \/ /\ strand[c] # <<>>
           /\ Head(strand[c]) = AddServer
           /\ reader[c] = "unstarted"
           /\ writer[c] = "unstarted"

\* The server never stops observing.
NeverRemoved ==
    \A c \in ConnId : \A i \in 1..Len(strand[c]) : strand[c][i].op # "RemoveObserver"

\* The read loop of an open connection runs, or is about to start.
ReaderAlive ==
    \A c \in ConnId : socket[c] = "open" =>
        /\ reader[c] # "done"
        /\ reader[c] = "unstarted" =>
               \E i \in 1..Len(strand[c]) : strand[c][i].op = "RunReadLoop"

\* Nothing of a connection exists before it is accepted.
NotYetAccepted ==
    \A c \in ConnId : socket[c] = "none" =>
        strand[c] = <<>> /\ reader[c] = "unstarted" /\ writer[c] = "unstarted"

\* The table, and what HandleSignals takes from it, holds accepted connections.
TrackedIsAccepted ==
    \A c \in m_connections \cup toClose : socket[c] # "none"

\* An erase is posted for closed connections only.
EraseMeansClosed ==
    \A c \in ConnId : \A i \in 1..Len(posted) :
        posted[i] = Erase(c) => socket[c] \in {"closed", "destroyed"}

ConnInv  == Observed /\ NeverRemoved /\ ReaderAlive /\ NotYetAccepted
TableInv == OpenIsTracked /\ TrackedIsAccepted /\ EraseMeansClosed /\ ClosedIsErased

\* Nothing is posted before ServeForever.
NothingPostedYet == main = "init" => posted = <<>>

IInv == TypeOK /\ ConnInv /\ TableInv /\ NothingPostedYet

\* The conjuncts of ConnInv that speak of connection c.
ConnInvAt(c) ==
    /\ socket[c] = "open" =>
           \/ Observes(c, ServerObserver)
           \/ /\ strand[c] # <<>>
              /\ Head(strand[c]) = AddServer
              /\ reader[c] = "unstarted"
              /\ writer[c] = "unstarted"
    /\ \A i \in 1..Len(strand[c]) : strand[c][i].op # "RemoveObserver"
    /\ socket[c] = "open" =>
           /\ reader[c] # "done"
           /\ reader[c] = "unstarted" =>
                  \E i \in 1..Len(strand[c]) : strand[c][i].op = "RunReadLoop"
    /\ socket[c] = "none" =>
           strand[c] = <<>> /\ reader[c] = "unstarted" /\ writer[c] = "unstarted"

\* ConnInv speaks of one connection at a time.
LEMMA ConnInvPointwise == ConnInv <=> \A c \in ConnId : ConnInvAt(c)
BY DEF ConnInv, ConnInvAt, Observed, NeverRemoved, ReaderAlive, NotYetAccepted

\* What a step leaves alone: every connection but c.
OthersUnchanged(c) ==
    \A d \in ConnId \ {c} :
        /\ socket'[d] = socket[d]
        /\ strand'[d] = strand[d]
        /\ observers'[d] = observers[d]
        /\ reader'[d] = reader[d]
        /\ writer'[d] = writer[d]

\* A step that disturbs c only keeps ConnInv if it keeps c's part of it.
LEMMA ConnInvLocal ==
    ASSUME NEW c \in ConnId, ConnInv, OthersUnchanged(c), ConnInvAt(c)'
    PROVE  ConnInv'
<1>1. \A d \in ConnId : ConnInvAt(d)
  BY ConnInvPointwise
<1>2. ASSUME NEW d \in ConnId \ {c} PROVE ConnInvAt(d)'
  BY <1>1, <1>2 DEF OthersUnchanged, ConnInvAt, AddServer
<1>3. \A d \in ConnId : ConnInvAt(d)'
  BY <1>2
<1> QED
  BY <1>3 DEF ConnInv, ConnInvAt, Observed, NeverRemoved, ReaderAlive, NotYetAccepted

\* How a step may change c's socket: not at all, or close it while the server
\* observes it.
StaysOrCloses(c) ==
    \/ socket'[c] = socket[c]
    \/ socket[c] = "open" /\ socket'[c] = "closed" /\ Observes(c, ServerObserver)

\* A handler of c's strand keeps ConnInv and may close c only if the server
\* observes it: AddServer is ahead of every handler that could.
LEMMA RunsHandlerInv ==
    ASSUME TypeOK, ConnInv, NEW c \in ConnId, RunsHandler(c)
    PROVE  ConnInvAt(c)' /\ OthersUnchanged(c) /\ StaysOrCloses(c)
<1> USE DEF TypeOK
<1>0. ConnInvAt(c)
  BY ConnInvPointwise
<1>s. strand[c] \in Seq(Handler) /\ strand[c] # <<>> /\ strand'[c] = Tail(strand[c])
  BY DEF RunsHandler, RunAddObserver, RunRemoveObserver, RunReadLoopStart,
         RunWriteLoopStart, RunClose, TakeHandler, ConnTypeOK
<1>t. /\ \A i \in 1..Len(strand[c]) : i # 1 =>
             i - 1 \in 1..Len(strand'[c]) /\ strand'[c][i - 1] = strand[c][i]
      /\ \A i \in 1..Len(strand'[c]) :
             i + 1 \in 1..Len(strand[c]) /\ strand'[c][i] = strand[c][i + 1]
      /\ Head(strand[c]) = strand[c][1]
      /\ 1 \in 1..Len(strand[c])
  BY <1>s, TailIndex
<1>n. socket[c] # "none"
  BY <1>0, <1>s DEF ConnInvAt
<1>r. \A i \in 1..Len(strand'[c]) : strand'[c][i].op # "RemoveObserver"
  BY <1>0, <1>t DEF ConnInvAt
<1>k. (\E i \in 1..Len(strand[c]) : strand[c][i].op = "RunReadLoop")
        /\ Head(strand[c]).op # "RunReadLoop" =>
      \E i \in 1..Len(strand'[c]) : strand'[c][i].op = "RunReadLoop"
  BY <1>t
<1>1. CASE RunAddObserver(c)
  <2>1. OthersUnchanged(c) /\ socket'[c] = socket[c] /\ reader'[c] = reader[c] /\ writer'[c] = writer[c]
    BY <1>1 DEF RunAddObserver, TakeHandler, OthersUnchanged, writeVars, ConnTypeOK
  <2>2. /\ observers'[c] = [observers[c] EXCEPT ![Head(strand[c]).observer] = @ + 1]
        /\ Head(strand[c]).op = "AddObserver"
    BY <1>1 DEF RunAddObserver, AddObserver, TakeHandler, ConnTypeOK
  <2>3. observers[c] \in [Observer -> Nat] /\ ServerObserver \in Observer
    BY ServerAssumption DEF ConnTypeOK
  <2>4. socket[c] = "open" => Observes(c, ServerObserver)'
    BY <1>0, <2>2, <2>3 DEF ConnInvAt, AddServer
  <2> QED
    BY <1>0, <1>n, <1>r, <1>k, <2>1, <2>2, <2>4 DEF ConnInvAt, StaysOrCloses
<1>2. CASE RunRemoveObserver(c)
  BY <1>0, <1>2, <1>t DEF RunRemoveObserver, TakeHandler, ConnInvAt
<1>3. CASE RunReadLoopStart(c)
  <2>1. OthersUnchanged(c) /\ socket'[c] = socket[c] /\ observers'[c] = observers[c] /\ writer'[c] = writer[c]
    BY <1>3 DEF RunReadLoopStart, TakeHandler, StartRead, OthersUnchanged, writeVars, ConnTypeOK
  <2>2. reader'[c] \in {"reading", "error"} /\ Head(strand[c]).op = "RunReadLoop"
    BY <1>3 DEF RunReadLoopStart, TakeHandler, StartRead, ConnTypeOK
  <2>3. socket[c] = "open" => Observes(c, ServerObserver)
    BY <1>0, <2>2 DEF ConnInvAt, AddServer
  <2> QED
    BY <1>n, <1>r, <2>1, <2>2, <2>3 DEF ConnInvAt, StaysOrCloses
<1>4. CASE RunWriteLoopStart(c)
  <2>1. /\ OthersUnchanged(c) /\ socket'[c] = socket[c] /\ observers'[c] = observers[c]
        /\ reader'[c] = reader[c]
    BY <1>4 DEF RunWriteLoopStart, TakeHandler, StartReceive, OthersUnchanged, ConnTypeOK
  <2>2. Head(strand[c]).op = "RunWriteLoop"
    BY <1>4 DEF RunWriteLoopStart, TakeHandler
  <2>3. socket[c] = "open" => Observes(c, ServerObserver)
    BY <1>0, <2>2 DEF ConnInvAt, AddServer
  <2> QED
    BY <1>0, <1>n, <1>r, <1>k, <2>1, <2>2, <2>3 DEF ConnInvAt, StaysOrCloses
<1>5. CASE RunClose(c)
  <2>1. Head(strand[c]).op = "Close" /\ UNCHANGED observers /\ CloseUnderLock(c, reader[c], writer[c])
    BY <1>5 DEF RunClose, TakeHandler
  <2>2. socket[c] = "open" => Observes(c, ServerObserver)
    BY <1>0, <2>1 DEF ConnInvAt, AddServer
  <2>3. /\ socket'[c] = IF socket[c] = "open" THEN "closed" ELSE socket[c]
        /\ \A d \in ConnId \ {c} :
               socket'[d] = socket[d] /\ reader'[d] = reader[d] /\ writer'[d] = writer[d]
    BY <2>1, CloseUnderLockEffect
  <2>4. OthersUnchanged(c)
    BY <1>5, <2>1, <2>3 DEF RunClose, TakeHandler, OthersUnchanged, ConnTypeOK
  <2> QED
    BY <1>n, <1>r, <2>2, <2>3, <2>4 DEF ConnInvAt, StaysOrCloses
<1> QED
  BY <1>1, <1>2, <1>3, <1>4, <1>5 DEF RunsHandler

\* The resumed loops and the kernel's completions: a loop that has started
\* finds the server observing.
LEMMA LoopsInv ==
    ASSUME TypeOK, ConnInv, NEW c \in ConnId,
           ReadLoopNotifies(c) \/ ReadLoopFails(c) \/ ResumesWriter(c) \/ KernelStep(c)
    PROVE  ConnInvAt(c)' /\ OthersUnchanged(c) /\ StaysOrCloses(c)
<1> USE DEF TypeOK
<1>0. ConnInvAt(c)
  BY ConnInvPointwise
<1>1. UNCHANGED <<strand, observers>>
  BY DEF ReadLoopNotifies, ReadLoopFails, ResumesWriter, KernelStep, ReadCompletes,
         WriteLoopWrites, WriteLoopReceives, WriteLoopFails, WriteSucceeds, WriteFails,
         socketVars
<1>2. reader[c] # "unstarted" \/ writer[c] # "unstarted"
  BY DEF ReadLoopNotifies, ReadLoopFails, ResumesWriter, KernelStep, ReadCompletes,
         WriteLoopWrites, WriteLoopReceives, WriteLoopFails, WriteSucceeds, WriteFails,
         ReadFailed, WriteFailed
<1>3. socket[c] = "open" => Observes(c, ServerObserver)
  BY <1>0, <1>2 DEF ConnInvAt
<1>n. socket[c] # "none"
  BY <1>0, <1>2 DEF ConnInvAt
<1>4. CASE ReadLoopFails(c) \/ WriteLoopFails(c)
  <2>1. PICK r, w : CloseUnderLock(c, r, w)
    BY <1>4 DEF ReadLoopFails, WriteLoopFails
  <2>2. /\ socket'[c] = IF socket[c] = "open" THEN "closed" ELSE socket[c]
        /\ \A d \in ConnId \ {c} :
               socket'[d] = socket[d] /\ reader'[d] = reader[d] /\ writer'[d] = writer[d]
    BY <2>1, CloseUnderLockEffect
  <2> QED
    BY <1>0, <1>1, <1>3, <1>n, <2>2 DEF ConnInvAt, OthersUnchanged, StaysOrCloses
<1>5. CASE ReadLoopNotifies(c) \/ \E ec \in {"data", "eof", "error"} : ReadCompletes(c, ec)
  <2>1. UNCHANGED <<socket, writer>> /\ reader'[c] \in {"reading", "data", "eof", "error"}
    BY <1>5 DEF ReadLoopNotifies, ReadCompletes, StartRead, writeVars, ConnTypeOK
  <2>2. \A d \in ConnId \ {c} : reader'[d] = reader[d]
    BY <1>5 DEF ReadLoopNotifies, ReadCompletes, StartRead, ConnTypeOK
  <2> QED
    BY <1>0, <1>1, <1>3, <1>n, <2>1, <2>2 DEF ConnInvAt, OthersUnchanged, StaysOrCloses
<1>6. CASE WriteLoopWrites(c) \/ WriteLoopReceives(c) \/ WriteSucceeds(c) \/ WriteFails(c)
  <2>1. UNCHANGED <<socket, reader>>
    BY <1>6 DEF WriteLoopWrites, WriteLoopReceives, WriteSucceeds, WriteFails, socketVars
  <2>2. \A d \in ConnId \ {c} : writer'[d] = writer[d]
    BY <1>6 DEF WriteLoopWrites, WriteLoopReceives, WriteSucceeds, WriteFails, StartReceive,
                ConnTypeOK
  <2> QED
    BY <1>0, <1>1, <1>3, <1>n, <2>1, <2>2 DEF ConnInvAt, OthersUnchanged, StaysOrCloses
<1> QED
  BY <1>4, <1>5, <1>6 DEF ResumesWriter, KernelStep

\* A connection starts with AddServer at the head of its strand.
LEMMA ConnectInv ==
    ASSUME TypeOK, ConnInv, NEW c \in ConnId, Connect(c, ServerObserver)
    PROVE  ConnInvAt(c)' /\ OthersUnchanged(c)
<1> USE DEF TypeOK
<1>0. ConnInvAt(c)
  BY ConnInvPointwise
<1>1. OthersUnchanged(c) /\ reader'[c] = reader[c] /\ writer'[c] = writer[c]
  BY DEF Connect, OthersUnchanged, writeVars, ConnTypeOK
<1>3. strand'[c] = <<AddServer, [op |-> "RunReadLoop"], [op |-> "RunWriteLoop"]>>
  BY DEF Connect, ConnectHandlers, AddServer, ConnTypeOK
<1>4. /\ strand'[c] # <<>>
      /\ Head(strand'[c]) = AddServer
      /\ 2 \in 1..Len(strand'[c]) /\ strand'[c][2].op = "RunReadLoop"
      /\ \A i \in 1..Len(strand'[c]) : strand'[c][i].op # "RemoveObserver"
  BY <1>3 DEF AddServer
<1> QED
  BY <1>0, <1>1, <1>4 DEF ConnInvAt, Connect, ConnTypeOK

\* conn->Close() from HandleSignals, queued or run at once, and the destructor.
LEMMA LifeInv ==
    ASSUME TypeOK, ConnInv, NEW c \in ConnId, socket[c] # "none",
           PostClose(c) \/ CloseInline(c) \/ Destroy(c)
    PROVE  /\ ConnInvAt(c)' /\ OthersUnchanged(c)
           /\ Destroy(c) \/ StaysOrCloses(c)
<1> USE DEF TypeOK
<1>0. ConnInvAt(c)
  BY ConnInvPointwise
<1>1. CASE PostClose(c)
  <2>1. OthersUnchanged(c) /\ UNCHANGED <<socket, observers, reader, writer>>
    BY <1>1 DEF PostClose, OthersUnchanged, writeVars, ConnTypeOK
  <2>2. strand[c] \in Seq(Handler) /\ CloseHandler \in Handler
    BY DEF ConnTypeOK, CloseHandler, Handler
  <2>3. strand'[c] = Append(strand[c], CloseHandler)
    BY <1>1 DEF PostClose, ConnTypeOK
  <2>4. /\ \A i \in 1..Len(strand[c]) : i \in 1..Len(strand'[c]) /\ strand'[c][i] = strand[c][i]
        /\ Len(strand[c]) + 1 \in 1..Len(strand'[c])
        /\ strand'[c][Len(strand[c]) + 1] = CloseHandler
        /\ \A i \in 1..Len(strand'[c]) : i \in 1..Len(strand[c]) \/ i = Len(strand[c]) + 1
    BY <2>2, <2>3, AppendIndex
  <2>5. strand[c] # <<>> => strand'[c] # <<>> /\ Head(strand'[c]) = Head(strand[c])
    BY <2>2, <2>3, <2>4
  <2>6. \A i \in 1..Len(strand'[c]) : strand'[c][i].op # "RemoveObserver"
    BY <1>0, <2>4 DEF ConnInvAt, CloseHandler
  <2>7. (\E i \in 1..Len(strand[c]) : strand[c][i].op = "RunReadLoop") =>
        \E i \in 1..Len(strand'[c]) : strand'[c][i].op = "RunReadLoop"
    BY <2>4
  <2> QED
    BY <1>0, <2>1, <2>5, <2>6, <2>7 DEF ConnInvAt, StaysOrCloses, AddServer
<1>2. CASE CloseInline(c)
  <2>1. CloseUnderLock(c, reader[c], writer[c]) /\ UNCHANGED <<strand, observers>> /\ strand[c] = <<>>
    BY <1>2 DEF CloseInline
  <2>2. /\ socket'[c] = IF socket[c] = "open" THEN "closed" ELSE socket[c]
        /\ \A d \in ConnId \ {c} :
               socket'[d] = socket[d] /\ reader'[d] = reader[d] /\ writer'[d] = writer[d]
    BY <2>1, CloseUnderLockEffect
  <2>3. OthersUnchanged(c)
    BY <2>1, <2>2 DEF OthersUnchanged
  <2> QED
    BY <1>0, <2>1, <2>2, <2>3 DEF ConnInvAt, StaysOrCloses
<1>3. CASE Destroy(c)
  <2>1. OthersUnchanged(c) /\ UNCHANGED strand /\ socket'[c] = "destroyed"
    BY <1>3 DEF Destroy, OthersUnchanged, writeVars, ConnTypeOK
  <2> QED
    BY <1>0, <1>3, <2>1 DEF ConnInvAt
<1> QED
  BY <1>1, <1>2, <1>3

\* A step on c's strand that may close c, with the server's OnDisconnect: the
\* table stays in step, because the erase is posted when the socket closes.
LEMMA DisconnectInv ==
    ASSUME TypeOK, TableInv, NEW c \in ConnId, OthersUnchanged(c), StaysOrCloses(c),
           OnDisconnect(c), UNCHANGED <<m_connections, toClose>>
    PROVE  TableInv'
<1>1. CASE socket'[c] = socket[c]
  <2>1. \A d \in ConnId : socket'[d] = socket[d]
    BY <1>1 DEF OthersUnchanged
  <2>2. UNCHANGED posted
    BY <1>1 DEF OnDisconnect, Disconnects
  <2> QED
    BY <2>1, <2>2 DEF TypeOK, TableInv, OpenIsTracked, TrackedIsAccepted, EraseMeansClosed,
                      ClosedIsErased, Erase
<1>2. CASE socket[c] = "open" /\ socket'[c] = "closed" /\ Observes(c, ServerObserver)
  <2>1. posted' = Append(posted, Erase(c))
    BY <1>2 DEF OnDisconnect, Disconnects
  <2>2. posted \in Seq(ServerHandler) /\ Erase(c) \in ServerHandler
    BY DEF TypeOK, Erase, ServerHandler
  <2>3. /\ \A i \in 1..Len(posted) : i \in 1..Len(posted') /\ posted'[i] = posted[i]
        /\ Len(posted) + 1 \in 1..Len(posted')
        /\ posted'[Len(posted) + 1] = Erase(c)
        /\ \A i \in 1..Len(posted') : i \in 1..Len(posted) \/ i = Len(posted) + 1
    BY <2>1, <2>2, AppendIndex
  <2>4. \A i \in 1..Len(posted) : posted[i] # Erase(c)
    BY <1>2 DEF TableInv, EraseMeansClosed
  <2>5. \A d \in ConnId : Erase(d) = Erase(c) => d = c
    BY DEF Erase
  <2>6. \A d \in ConnId : socket'[d] # socket[d] => d = c
    BY DEF OthersUnchanged
  <2>7. OpenIsTracked' /\ TrackedIsAccepted'
    BY <1>2, <2>6 DEF TypeOK, TableInv, OpenIsTracked, TrackedIsAccepted
  <2>8. EraseMeansClosed'
    BY <1>2, <2>3, <2>5, <2>6 DEF TableInv, EraseMeansClosed, Erase
  <2>9. ASSUME NEW d \in ConnId, socket'[d] = "closed", d \in m_connections'
        PROVE  \E i \in 1..Len(posted') : posted'[i] = Erase(d)
    <3>1. CASE d = c
      BY <2>3, <3>1
    <3>2. CASE d # c
      <4>1. PICK i \in 1..Len(posted) : posted[i] = Erase(d)
        BY <2>6, <2>9, <3>2 DEF TableInv, ClosedIsErased
      <4> QED
        BY <2>3, <4>1
    <3> QED
      BY <3>1, <3>2
  <2>10. ASSUME NEW d \in ConnId, NEW i \in 1..Len(posted'), NEW j \in 1..Len(posted'),
                posted'[i] = Erase(d), posted'[j] = Erase(d)
         PROVE  i = j
    <3>1. CASE d = c
      BY <2>3, <2>4, <2>10, <3>1
    <3>2. CASE d # c
      <4>1. i \in 1..Len(posted) /\ j \in 1..Len(posted)
        BY <2>3, <2>5, <2>10, <3>2
      <4> QED
        BY <2>3, <2>10, <4>1 DEF TableInv, ClosedIsErased
    <3> QED
      BY <3>1, <3>2
  <2>11. ClosedIsErased'
    BY <2>9, <2>10 DEF ClosedIsErased, Erase
  <2> QED
    BY <2>7, <2>8, <2>11 DEF TableInv
<1> QED
  BY <1>1, <1>2 DEF StaysOrCloses

\* A connection's step keeps the inductive invariant.
LEMMA ConnStepInv ==
    ASSUME IInv, NEW c \in ConnId, ConnStep(c)
    PROVE  ConnInv' /\ TableInv'
<1> USE DEF IInv
<1>1. CASE ConnHandler(c) \/ ConnReader(c) \/ ConnWriter(c)
  <2>1. ConnInvAt(c)' /\ OthersUnchanged(c) /\ StaysOrCloses(c)
    BY <1>1, RunsHandlerInv, LoopsInv DEF ConnHandler, ConnReader, ConnWriter
  <2>2. OnDisconnect(c) /\ UNCHANGED <<m_connections, toClose>>
    BY <1>1 DEF ConnHandler, ConnReader, ConnWriter, tableVars, loopVars
  <2> QED
    BY <2>1, <2>2, ConnInvLocal, DisconnectInv
<1>2. CASE ConnIo(c)
  <2>1. ConnInvAt(c)' /\ OthersUnchanged(c) /\ UNCHANGED <<socket, m_connections, toClose, posted>>
    <3>1. UNCHANGED socket
      BY <1>2 DEF ConnIo, KernelStep, ReadCompletes, WriteSucceeds, WriteFails, socketVars
    <3> QED
      BY <1>2, <3>1, LoopsInv DEF ConnIo, serverVars, tableVars, loopVars, runVars
  <2> QED
    BY <2>1, ConnInvLocal DEF TableInv, OpenIsTracked, TrackedIsAccepted, EraseMeansClosed,
                              ClosedIsErased
<1>3. CASE Release(c)
  <2>1. Destroy(c) /\ c \notin m_connections /\ UNCHANGED <<m_connections, toClose, posted>>
    BY <1>3 DEF Release, serverVars, tableVars, loopVars, runVars
  <2>2. socket[c] \in {"open", "closed"} /\ socket'[c] = "destroyed"
    BY <2>1 DEF Destroy, TypeOK, ConnTypeOK
  <2>3. ConnInvAt(c)' /\ OthersUnchanged(c)
    BY <2>1, <2>2, LifeInv
  <2>4. \A d \in ConnId : socket'[d] # socket[d] => d = c
    BY <2>3 DEF OthersUnchanged
  <2>5. TableInv'
    <3>1. OpenIsTracked' /\ TrackedIsAccepted'
      BY <2>1, <2>2, <2>4 DEF TypeOK, TableInv, OpenIsTracked, TrackedIsAccepted
    <3>2. EraseMeansClosed'
      BY <2>1, <2>2, <2>4 DEF TableInv, EraseMeansClosed, Erase
    <3>3. ClosedIsErased'
      BY <2>1, <2>2, <2>4 DEF TableInv, ClosedIsErased, Erase
    <3> QED
      BY <3>1, <3>2, <3>3 DEF TableInv
  <2> QED
    BY <2>3, <2>5, ConnInvLocal
<1>4. CASE CloseBusy(c)
  <2>1. /\ PostClose(c) /\ c \in toClose /\ toClose' = toClose \ {c}
        /\ UNCHANGED <<m_connections, posted, socket>>
    BY <1>4 DEF CloseBusy, PostClose, tableVars, runVars
  <2>2. socket[c] # "none"
    BY <2>1 DEF TableInv, TrackedIsAccepted
  <2>3. ConnInvAt(c)' /\ OthersUnchanged(c)
    BY <2>1, <2>2, LifeInv
  <2> QED
    BY <2>1, <2>3, ConnInvLocal DEF TableInv, OpenIsTracked, TrackedIsAccepted,
                                    EraseMeansClosed, ClosedIsErased
<1>5. CASE CloseIdle(c)
  <2>1. /\ CloseInline(c) /\ c \in toClose /\ toClose' = toClose \ {c}
        /\ UNCHANGED posted /\ m_connections' \subseteq m_connections
        /\ \A d \in m_connections : d # c => d \in m_connections'
    BY <1>5 DEF CloseIdle
  <2>2. socket[c] # "none"
    BY <2>1 DEF TableInv, TrackedIsAccepted
  <2>3. ConnInvAt(c)' /\ OthersUnchanged(c) /\ (Destroy(c) \/ StaysOrCloses(c))
    BY <2>1, <2>2, LifeInv
  <2>4. socket'[c] = IF socket[c] = "open" THEN "closed" ELSE socket[c]
    BY <2>1, CloseUnderLockEffect DEF CloseInline, TypeOK
  <2>5. CASE socket[c] # "open"
    <3>1. \A d \in ConnId : socket'[d] = socket[d]
      BY <2>3, <2>4, <2>5 DEF OthersUnchanged
    <3>2. UNCHANGED m_connections
      BY <1>5, <2>5 DEF CloseIdle, Disconnects
    <3> QED
      BY <2>1, <2>3, <3>1, <3>2, ConnInvLocal
         DEF TypeOK, TableInv, OpenIsTracked, TrackedIsAccepted, EraseMeansClosed, ClosedIsErased
  <2>6. CASE socket[c] = "open"
    <3>1. Observes(c, ServerObserver)
      BY <2>3, <2>4, <2>6 DEF StaysOrCloses, Destroy, TypeOK, ConnTypeOK
    <3>2. m_connections' = m_connections \ {c}
      BY <1>5, <2>4, <2>6, <3>1 DEF CloseIdle, Disconnects
    <3>3. \A d \in ConnId : socket'[d] # socket[d] => d = c
      BY <2>3 DEF OthersUnchanged
    <3>4. OpenIsTracked' /\ TrackedIsAccepted'
      BY <2>1, <2>4, <2>6, <3>2, <3>3 DEF TypeOK, TableInv, OpenIsTracked, TrackedIsAccepted
    <3>5. EraseMeansClosed'
      BY <2>1, <2>4, <2>6, <3>3 DEF TableInv, EraseMeansClosed, Erase
    <3>6. ClosedIsErased'
      BY <2>1, <3>2, <3>3 DEF TableInv, ClosedIsErased, Erase
    <3> QED
      BY <2>3, <3>4, <3>5, <3>6, ConnInvLocal DEF TableInv
  <2> QED
    BY <2>5, <2>6
<1> QED
  BY <1>1, <1>2, <1>3, <1>4, <1>5 DEF ConnStep

\* The erase at the head of the server's strand, and the other handlers there:
\* what remains posted still matches the table.
LEMMA TakePostedInv ==
    ASSUME IInv, NEW op, TakePosted(op), UNCHANGED <<connVars, toClose>>,
           m_connections' = IF op = "erase"
                              THEN m_connections \ {Head(posted).connId} ELSE m_connections
    PROVE  ConnInv' /\ TableInv'
<1> USE DEF IInv
<1>1. UNCHANGED <<socket, strand, observers, reader, writer>>
  BY DEF connVars, socketVars, writeVars
<1>2. ConnInv'
  BY <1>1 DEF ConnInv, Observed, NeverRemoved, ReaderAlive, NotYetAccepted
<1>3. posted \in Seq(ServerHandler) /\ posted # <<>> /\ posted' = Tail(posted) /\ Head(posted).op = op
  BY DEF TypeOK, TakePosted
<1>4. /\ \A i \in 1..Len(posted) : i # 1 =>
             i - 1 \in 1..Len(posted') /\ posted'[i - 1] = posted[i]
      /\ \A i \in 1..Len(posted') : i + 1 \in 1..Len(posted) /\ posted'[i] = posted[i + 1]
      /\ Head(posted) = posted[1]
      /\ 1 \in 1..Len(posted)
  BY <1>3, TailIndex
<1>5. \A d \in ConnId : posted[1] = Erase(d) =>
          op = "erase" /\ m_connections' = m_connections \ {d} /\ socket[d] # "open"
  BY <1>3, <1>4 DEF Erase, TableInv, EraseMeansClosed
<1>6. op = "erase" => \E d \in ConnId : posted[1] = Erase(d)
  <2>1. ASSUME op = "erase" PROVE \E d \in ConnId : posted[1] = Erase(d)
    <3>1. posted[1] \in [op : {"erase"}, connId : ConnId]
      BY <1>3, <1>4, <2>1 DEF ServerHandler
    <3>2. posted[1].connId \in ConnId /\ posted[1] = Erase(posted[1].connId)
      BY <3>1 DEF Erase
    <3> QED
      BY <3>2
  <2> QED
    BY <2>1
<1>7. OpenIsTracked'
  BY <1>1, <1>5, <1>6 DEF TableInv, OpenIsTracked
<1>8. TrackedIsAccepted'
  BY <1>1 DEF TableInv, TrackedIsAccepted
<1>9. EraseMeansClosed'
  BY <1>1, <1>4 DEF TableInv, EraseMeansClosed, Erase
<1>10. ClosedIsErased'
  <2>1. ASSUME NEW d \in ConnId, socket'[d] = "closed", d \in m_connections'
        PROVE  \E i \in 1..Len(posted') : posted'[i] = Erase(d)
    <3>1. PICK i \in 1..Len(posted) : posted[i] = Erase(d)
      BY <1>1, <2>1 DEF TableInv, ClosedIsErased
    <3>2. i # 1
      BY <1>5, <2>1, <3>1
    <3> QED
      BY <1>4, <3>1, <3>2
  <2>2. ASSUME NEW d \in ConnId, NEW i \in 1..Len(posted'), NEW j \in 1..Len(posted'),
               posted'[i] = Erase(d), posted'[j] = Erase(d)
        PROVE  i = j
    <3>1. /\ i + 1 \in 1..Len(posted) /\ posted[i + 1] = Erase(d)
          /\ j + 1 \in 1..Len(posted) /\ posted[j + 1] = Erase(d)
      BY <1>4, <2>2
    <3>2. i + 1 = j + 1
      BY <3>1 DEF TableInv, ClosedIsErased
    <3> QED
      BY <3>2
  <2> QED
    BY <2>1, <2>2 DEF ClosedIsErased, Erase
<1> QED
  BY <1>2, <1>7, <1>8, <1>9, <1>10 DEF TableInv

\* The server's own steps: most leave the table, the sockets and the posted
\* handlers alone; the others start the loops, run a posted handler or enter an
\* accepted connection in the table.
LEMMA ServerStepInv ==
    ASSUME IInv, ServerStep \/ Environment
    PROVE  ConnInv' /\ TableInv'
<1> USE DEF IInv
<1>1. ASSUME UNCHANGED <<connVars, m_connections, posted>>, toClose' \in {toClose, m_connections}
      PROVE  ConnInv' /\ TableInv'
  <2>1. UNCHANGED <<socket, strand, observers, reader, writer>>
    BY <1>1 DEF connVars, socketVars, writeVars
  <2>2. ConnInv'
    BY <2>1 DEF ConnInv, Observed, NeverRemoved, ReaderAlive, NotYetAccepted
  <2>3. TableInv'
    BY <1>1, <2>1 DEF TableInv, OpenIsTracked, TrackedIsAccepted, EraseMeansClosed, ClosedIsErased
  <2> QED
    BY <2>2, <2>3
<1>2. CASE ServeForever
  <2>1. UNCHANGED <<socket, strand, observers, reader, writer, m_connections, toClose>>
    BY <1>2 DEF ServeForever, connVars, socketVars, writeVars, tableVars, loopVars
  <2>2. posted' = <<[op |-> "HandleSignals"], [op |-> "AcceptConnections"]>> /\ posted = <<>>
    BY <1>2 DEF ServeForever, NothingPostedYet
  <2>3. \A d \in ConnId : \A i \in 1..Len(posted') : posted'[i] # Erase(d)
    BY <2>2 DEF Erase
  <2>4. \A d \in ConnId : d \in m_connections => socket[d] # "closed"
    BY <2>2 DEF TableInv, ClosedIsErased
  <2>5. ConnInv'
    BY <2>1 DEF ConnInv, Observed, NeverRemoved, ReaderAlive, NotYetAccepted
  <2>6. EraseMeansClosed' /\ ClosedIsErased'
    BY <2>1, <2>3, <2>4 DEF EraseMeansClosed, ClosedIsErased, Erase
  <2> QED
    BY <2>1, <2>5, <2>6 DEF TableInv, OpenIsTracked, TrackedIsAccepted
<1>3. CASE HandleSignalsStart
  BY <1>3, TakePostedInv DEF HandleSignalsStart, tableVars
<1>4. CASE AcceptConnectionsStart
  BY <1>4, TakePostedInv DEF AcceptConnectionsStart, tableVars
<1>5. CASE RunErase
  BY <1>5, TakePostedInv DEF RunErase, loopVars
<1>6. CASE AcceptLoopConnects
  <2>1. PICK c \in ConnId : /\ Connect(c, ServerObserver)
                             /\ m_connections' = m_connections \cup {c}
                             /\ UNCHANGED <<toClose, posted>>
    BY <1>6 DEF AcceptLoopConnects, runVars
  <2>2. socket[c] = "none" /\ socket'[c] = "open"
    BY <2>1 DEF Connect, TypeOK, ConnTypeOK
  <2>3. ConnInvAt(c)' /\ OthersUnchanged(c)
    BY <2>1, ConnectInv
  <2>4. \A d \in ConnId : socket'[d] # socket[d] => d = c
    BY <2>3 DEF OthersUnchanged
  <2>5. ConnInv'
    BY <2>1, <2>3, ConnInvLocal
  <2>6. OpenIsTracked' /\ TrackedIsAccepted'
    BY <2>1, <2>2, <2>4 DEF TypeOK, TableInv, OpenIsTracked, TrackedIsAccepted
  <2>7. EraseMeansClosed'
    BY <2>1, <2>2, <2>4 DEF TableInv, EraseMeansClosed, Erase
  <2>8. ClosedIsErased'
    <3>1. ASSUME NEW d \in ConnId, socket'[d] = "closed", d \in m_connections'
          PROVE  \E i \in 1..Len(posted') : posted'[i] = Erase(d)
      BY <2>1, <2>2, <2>4, <3>1 DEF TableInv, ClosedIsErased
    <3>2. \A d \in ConnId : \A i, j \in 1..Len(posted') :
              posted'[i] = Erase(d) /\ posted'[j] = Erase(d) => i = j
      BY <2>1 DEF TableInv, ClosedIsErased
    <3> QED
      BY <3>1, <3>2 DEF ClosedIsErased, Erase
  <2> QED
    BY <2>5, <2>6, <2>7, <2>8 DEF TableInv
<1>7. CASE \/ Return \/ AcceptLoopBreaks \/ SignalLoopReloads \/ CloseLoopEnds
           \/ ClientArrives \/ AcceptFails
           \/ \E s \in Signal : SignalArrives(s) \/ Raise(s)
  BY <1>1, <1>7 DEF Return, AcceptLoopBreaks, SignalLoopReloads, CloseLoopEnds, ClientArrives,
                    AcceptFails, SignalArrives, Raise, tableVars, loopVars, runVars
<1>8. CASE SignalLoopDrains
  BY <1>1, <1>8 DEF SignalLoopDrains, tableVars, runVars
<1> QED
  BY <1>2, <1>3, <1>4, <1>5, <1>6, <1>7, <1>8 DEF ServerStep, Environment

\* Until ServeForever runs nothing happens, so nothing is posted.
LEMMA StartInv ==
    ASSUME NothingPostedYet, [Next]_vars
    PROVE  NothingPostedYet'
<1>1. CASE ServeForever
  BY <1>1 DEF ServeForever, NothingPostedYet
<1>2. CASE UNCHANGED vars
  BY <1>2 DEF vars, serverVars, runVars, NothingPostedYet
<1>3. ASSUME Next, ~ServeForever, ~UNCHANGED vars
      PROVE  main = "serving" /\ main' # "init"
  <2>1. ASSUME NEW c \in ConnId, ConnStep(c) PROVE main = "serving" /\ main' # "init"
    BY <2>1 DEF ConnStep, ConnHandler, ConnReader, ConnWriter, ConnIo, Release, CloseBusy,
                CloseIdle, WorkerFree, serverVars, runVars
  <2>2. CASE ServerStep \/ Environment
    BY <1>3, <2>2 DEF ServerStep, Environment, Return, HandleSignalsStart,
       AcceptConnectionsStart, RunErase, TakePosted, AcceptLoopConnects, AcceptLoopBreaks,
       SignalArrives, SignalLoopReloads, SignalLoopDrains, CloseLoopEnds, ClientArrives,
       AcceptFails, Raise, ServerStrandFree, runVars
  <2> QED
    BY <1>3, <2>1, <2>2 DEF Next, Terminated
<1> QED
  BY <1>1, <1>2, <1>3 DEF NothingPostedYet

\* The inductive invariant holds at the start,
LEMMA InitInv == Init => IInv
<1> SUFFICES ASSUME Init PROVE IInv
  OBVIOUS
<1>1. \A c \in ConnId : /\ socket[c] = "none" /\ strand[c] = <<>>
                        /\ reader[c] = "unstarted" /\ writer[c] = "unstarted"
  BY DEF Init, ConnInit
<1>2. posted = <<>> /\ m_connections = {} /\ toClose = {}
  BY DEF Init
<1>3. ConnInv
  BY <1>1 DEF ConnInv, Observed, NeverRemoved, ReaderAlive, NotYetAccepted
<1>4. TableInv
  BY <1>1, <1>2 DEF TableInv, OpenIsTracked, TrackedIsAccepted, EraseMeansClosed, ClosedIsErased
<1> QED
  BY <1>2, <1>3, <1>4, InitType DEF IInv, NothingPostedYet

\* and every step keeps it.
LEMMA NextInv == IInv /\ [Next]_vars => IInv'
<1> SUFFICES ASSUME IInv, [Next]_vars PROVE IInv'
  OBVIOUS
<1>1. TypeOK' /\ NothingPostedYet'
  BY NextType, StartInv DEF IInv
<1>2. ConnInv' /\ TableInv'
  <2>1. CASE ServerStep \/ Environment
    BY <2>1, ServerStepInv
  <2>2. ASSUME NEW c \in ConnId, ConnStep(c) PROVE ConnInv' /\ TableInv'
    BY <2>2, ConnStepInv
  <2>3. CASE UNCHANGED vars
    <3>1. UNCHANGED <<socket, strand, observers, reader, writer, m_connections, toClose, posted>>
      BY <2>3 DEF vars, connVars, socketVars, writeVars, serverVars, tableVars, loopVars, runVars
    <3> QED
      BY <3>1 DEF IInv, ConnInv, Observed, NeverRemoved, ReaderAlive, NotYetAccepted, TableInv,
                  OpenIsTracked, TrackedIsAccepted, EraseMeansClosed, ClosedIsErased
  <2> QED
    BY <2>1, <2>2, <2>3 DEF Next, Terminated
<1> QED
  BY <1>1, <1>2 DEF IInv

\* Every open connection is in m_connections, where HandleSignals will find it.
THEOREM TableCorrect == Spec => []OpenIsTracked
<1>1. IInv => OpenIsTracked
  BY DEF IInv, TableInv
<1> QED
  BY <1>1, InitInv, NextInv, PTL DEF Spec

\* Every closed connection that is still in m_connections has an erase on its
\* way, and exactly one: OnDisconnect's dispatch neither misses nor repeats it.
THEOREM EraseOnce == Spec => []ClosedIsErased
<1>1. IInv => ClosedIsErased
  BY DEF IInv, TableInv
<1> QED
  BY <1>1, InitInv, NextInv, PTL DEF Spec

\* The read loop of an open connection is alive or waiting in the strand, and
\* holds a shared_ptr.
LEMMA OpenHoldsItself == IInv => NeverDestroyedOpen
<1> SUFFICES ASSUME IInv, NEW c \in ConnId, socket[c] = "open"
             PROVE  HoldsItself(c)
  BY DEF NeverDestroyedOpen
<1>1. ConnInvAt(c)
  BY ConnInvPointwise DEF IInv
<1>2. CASE reader[c] = "unstarted"
  <2>1. PICK i \in 1..Len(strand[c]) : strand[c][i].op = "RunReadLoop"
    BY <1>1, <1>2 DEF ConnInvAt
  <2>2. strand[c] # <<>>
    BY <2>1
  <2> QED
    BY <2>2 DEF HoldsItself
<1>3. CASE reader[c] # "unstarted"
  BY <1>1, <1>3 DEF ConnInvAt, HoldsItself
<1> QED
  BY <1>2, <1>3

\* ~AsioConnection never finds an open socket.
THEOREM DestructorSafe == Spec => []NeverDestroyedOpen
BY OpenHoldsItself, InitInv, NextInv, PTL DEF Spec

-----------------------------------------------------------------------------
(* The drain: why HandleSignals misses nobody and ServeForever returns to  *)
(* an empty table.                                                         *)

HasClose(c) == \E i \in 1..Len(strand[c]) : strand[c][i] = CloseHandler

\* HandleSignals is spawned by ServeForever, once.
SpawnedOnce ==
    /\ main = "init" => signaler = "unstarted"
    /\ main # "init" /\ signaler = "unstarted" =>
           \E i \in 1..Len(posted) : posted[i].op = "HandleSignals"
    /\ \A i \in 1..Len(posted) : posted[i].op = "HandleSignals" =>
           /\ signaler = "unstarted"
           /\ \A j \in 1..Len(posted) : posted[j].op = "HandleSignals" => i = j

\* m_draining says where HandleSignals is.
DrainingIsThePhase == m_draining <=> signaler \in {"closing", "done", "failed"}

\* In the loop over m_connections, and after it, an open connection is still to
\* be visited or has its Close.
DrainReaches ==
    \A c \in ConnId : socket[c] = "open" =>
        /\ signaler = "closing" => c \in toClose \/ HasClose(c)
        /\ signaler = "done" => HasClose(c)

\* A connection is destroyed after it has left the table.
DestroyedIsGone == \A c \in ConnId : socket[c] = "destroyed" => c \notin m_connections

DrainInv == SpawnedOnce /\ DrainingIsThePhase /\ DrainReaches /\ DestroyedIsGone /\ ReturnIsClean


\* The erase that OnDisconnect posts spawns nothing.
LEMMA DisconnectSpawn ==
    ASSUME TypeOK, SpawnedOnce, NEW c \in ConnId, OnDisconnect(c), UNCHANGED <<main, signaler>>
    PROVE  SpawnedOnce'
<1>1. CASE UNCHANGED posted
  BY <1>1 DEF SpawnedOnce
<1>2. CASE posted' = Append(posted, Erase(c))
  <2>1. posted \in Seq(ServerHandler) /\ Erase(c) \in ServerHandler /\ Erase(c).op = "erase"
    BY DEF TypeOK, Erase, ServerHandler
  <2>2. /\ \A i \in 1..Len(posted) : i \in 1..Len(posted') /\ posted'[i] = posted[i]
        /\ posted'[Len(posted) + 1] = Erase(c)
        /\ \A i \in 1..Len(posted') : i \in 1..Len(posted) \/ i = Len(posted) + 1
    BY <1>2, <2>1, AppendIndex
  <2> QED
    BY <2>1, <2>2 DEF SpawnedOnce
<1> QED
  BY <1>1, <1>2 DEF OnDisconnect

\* A Close that waits in c's strand stays there until it closes c.
LEMMA CloseWaits ==
    ASSUME TypeOK, NEW c \in ConnId, HasClose(c), socket'[c] = "open",
           \/ RunsHandler(c)
           \/ ReadLoopNotifies(c) \/ ReadLoopFails(c) \/ ResumesWriter(c) \/ KernelStep(c)
           \/ PostClose(c)
    PROVE  HasClose(c)'
<1> USE DEF TypeOK
<1>1. CASE RunsHandler(c)
  <2>1. strand[c] \in Seq(Handler) /\ strand[c] # <<>> /\ strand'[c] = Tail(strand[c])
    BY <1>1 DEF RunsHandler, RunAddObserver, RunRemoveObserver, RunReadLoopStart,
                RunWriteLoopStart, RunClose, TakeHandler, ConnTypeOK
  <2>2. /\ \A i \in 1..Len(strand[c]) : i # 1 =>
               i - 1 \in 1..Len(strand'[c]) /\ strand'[c][i - 1] = strand[c][i]
        /\ Head(strand[c]) = strand[c][1]
    BY <2>1, TailIndex
  <2>3. Head(strand[c]) # CloseHandler
    <3>1. ASSUME Head(strand[c]) = CloseHandler PROVE FALSE
      <4>1. Head(strand[c]).op = "Close"
        BY <3>1 DEF CloseHandler
      <4>2. RunClose(c)
        BY <1>1, <4>1 DEF RunsHandler, RunAddObserver, RunRemoveObserver, RunReadLoopStart,
                          RunWriteLoopStart, TakeHandler
      <4>3. socket'[c] = IF socket[c] = "open" THEN "closed" ELSE socket[c]
        BY <4>2, CloseUnderLockEffect DEF RunClose
      <4> QED
        BY <4>3
    <3> QED
      BY <3>1
  <2> QED
    BY <2>2, <2>3 DEF HasClose, CloseHandler
<1>2. CASE ReadLoopNotifies(c) \/ ReadLoopFails(c) \/ ResumesWriter(c) \/ KernelStep(c)
  <2>1. UNCHANGED strand
    BY <1>2 DEF ReadLoopNotifies, ReadLoopFails, ResumesWriter, KernelStep, ReadCompletes,
                WriteLoopWrites, WriteLoopReceives, WriteLoopFails, WriteSucceeds, WriteFails,
                socketVars
  <2> QED
    BY <2>1 DEF HasClose, CloseHandler
<1>3. CASE PostClose(c)
  <2>1. strand[c] \in Seq(Handler) /\ CloseHandler \in Handler
    BY DEF ConnTypeOK, CloseHandler, Handler
  <2>2. strand'[c] = Append(strand[c], CloseHandler)
    BY <1>3 DEF PostClose, ConnTypeOK
  <2>3. \A i \in 1..Len(strand[c]) : i \in 1..Len(strand'[c]) /\ strand'[c][i] = strand[c][i]
    BY <2>1, <2>2, AppendIndex
  <2> QED
    BY <2>3 DEF HasClose, CloseHandler
<1> QED
  BY <1>1, <1>2, <1>3

\* A step of a connection leaves the drain in step.
LEMMA ConnStepDrain ==
    ASSUME IInv, DrainInv, NEW c \in ConnId, ConnStep(c)
    PROVE  DrainInv'
<1> USE DEF DrainInv
<1>m. main = "serving" /\ main' \in {"serving", "aborted"}
  BY DEF ConnStep, ConnHandler, ConnReader, ConnWriter, ConnIo, Release, CloseBusy, CloseIdle,
         WorkerFree, serverVars, runVars
<1>u. UNCHANGED <<m_draining, signaler>>
  BY DEF ConnStep, ConnHandler, ConnReader, ConnWriter, ConnIo, Release, CloseBusy, CloseIdle,
         serverVars, loopVars
<1>r. DrainingIsThePhase' /\ ReturnIsClean'
  BY <1>m, <1>u DEF DrainingIsThePhase, ReturnIsClean
<1>1. CASE ConnHandler(c) \/ ConnReader(c) \/ ConnWriter(c) \/ ConnIo(c)
  <2>1. OthersUnchanged(c) /\ StaysOrCloses(c)
    BY <1>1, RunsHandlerInv, LoopsInv DEF ConnHandler, ConnReader, ConnWriter, ConnIo, IInv
  <2>2. UNCHANGED <<m_connections, toClose, main>>
    BY <1>1 DEF ConnHandler, ConnReader, ConnWriter, ConnIo, serverVars, tableVars, loopVars, runVars
  <2>3. SpawnedOnce'
    <3>1. CASE ConnIo(c)
      BY <3>1 DEF ConnIo, serverVars, loopVars, runVars, SpawnedOnce
    <3>2. CASE ConnHandler(c) \/ ConnReader(c) \/ ConnWriter(c)
      BY <1>u, <2>2, <3>2, DisconnectSpawn DEF ConnHandler, ConnReader, ConnWriter, IInv
    <3> QED
      BY <1>1, <3>1, <3>2
  <2>4. socket'[c] = "open" /\ HasClose(c) => HasClose(c)'
    BY <1>1, CloseWaits DEF ConnHandler, ConnReader, ConnWriter, ConnIo, IInv
  <2>5. \A d \in ConnId \ {c} : HasClose(d) => HasClose(d)'
    BY <2>1 DEF OthersUnchanged, HasClose, CloseHandler
  <2>6. socket'[c] = "open" => socket[c] = "open"
    BY <2>1 DEF StaysOrCloses
  <2>7. DrainReaches'
    BY <1>u, <2>1, <2>2, <2>4, <2>5, <2>6 DEF DrainReaches, OthersUnchanged
  <2>8. DestroyedIsGone'
    BY <2>1, <2>2 DEF DestroyedIsGone, OthersUnchanged, StaysOrCloses
  <2> QED
    BY <1>r, <2>3, <2>7, <2>8
<1>2. CASE Release(c)
  <2>1. /\ c \notin m_connections /\ UNCHANGED <<m_connections, toClose, posted, main, strand>>
        /\ socket'[c] = "destroyed" /\ \A d \in ConnId \ {c} : socket'[d] = socket[d]
    BY <1>2 DEF Release, Destroy, serverVars, tableVars, loopVars, runVars, IInv, TypeOK, ConnTypeOK
  <2>2. SpawnedOnce'
    BY <1>u, <2>1 DEF SpawnedOnce
  <2>3. DrainReaches' /\ DestroyedIsGone'
    BY <1>u, <2>1 DEF DrainReaches, HasClose, CloseHandler, DestroyedIsGone
  <2> QED
    BY <1>r, <2>2, <2>3
<1>3. CASE CloseBusy(c)
  <2>1. PostClose(c) /\ toClose' = toClose \ {c} /\ UNCHANGED <<m_connections, posted, main, socket>>
    BY <1>3 DEF CloseBusy, PostClose, tableVars, runVars
  <2>2. SpawnedOnce'
    BY <1>u, <2>1 DEF SpawnedOnce
  <2>3. strand[c] \in Seq(Handler) /\ CloseHandler \in Handler
    BY DEF IInv, TypeOK, ConnTypeOK, CloseHandler, Handler
  <2>4. strand'[c] = Append(strand[c], CloseHandler) /\ \A d \in ConnId \ {c} : strand'[d] = strand[d]
    BY <2>1 DEF PostClose, IInv, TypeOK, ConnTypeOK
  <2>5. HasClose(c)'
    <3>1. /\ Len(strand[c]) + 1 \in 1..Len(strand'[c])
          /\ strand'[c][Len(strand[c]) + 1] = CloseHandler
      BY <2>3, <2>4, AppendIndex
    <3> QED
      BY <3>1 DEF HasClose, CloseHandler
  <2>6. \A d \in ConnId \ {c} : HasClose(d) => HasClose(d)'
    BY <2>4 DEF HasClose, CloseHandler
  <2>7. DrainReaches' /\ DestroyedIsGone'
    BY <1>u, <2>1, <2>5, <2>6 DEF DrainReaches, DestroyedIsGone
  <2> QED
    BY <1>r, <2>2, <2>7
<1>4. CASE CloseIdle(c)
  <2>1. /\ CloseInline(c) /\ toClose' = toClose \ {c} /\ UNCHANGED <<posted, strand>>
        /\ m_connections' \subseteq m_connections /\ signaler = "closing"
    BY <1>4 DEF CloseIdle, CloseInline
  <2>2. /\ socket'[c] = IF socket[c] = "open" THEN "closed" ELSE socket[c]
        /\ \A d \in ConnId \ {c} : socket'[d] = socket[d]
    BY <2>1, CloseUnderLockEffect DEF CloseInline, IInv, TypeOK
  <2>3. SpawnedOnce'
    BY <1>m, <1>u, <2>1 DEF SpawnedOnce
  <2>4. DrainReaches' /\ DestroyedIsGone'
    BY <1>u, <2>1, <2>2 DEF DrainReaches, HasClose, CloseHandler, DestroyedIsGone
  <2> QED
    BY <1>r, <2>3, <2>4
<1> QED
  BY <1>1, <1>2, <1>3, <1>4 DEF ConnStep


\* Taking the head off the server's strand: HandleSignals is there until it is
\* taken, and then no more.
LEMMA TakeSpawned ==
    ASSUME TypeOK, SpawnedOnce, NEW op, TakePosted(op), UNCHANGED main
    PROVE  /\ op = "HandleSignals" => signaler = "unstarted"
           /\ op # "HandleSignals" /\ UNCHANGED signaler => SpawnedOnce'
           /\ op = "HandleSignals" /\ signaler' # "unstarted" => SpawnedOnce'
<1>1. posted \in Seq(ServerHandler) /\ posted # <<>> /\ posted' = Tail(posted) /\ Head(posted).op = op
      /\ main = "serving"
  BY DEF TypeOK, TakePosted, ServerStrandFree
<1>2. /\ \A i \in 1..Len(posted) : i # 1 =>
             i - 1 \in 1..Len(posted') /\ posted'[i - 1] = posted[i]
      /\ \A i \in 1..Len(posted') : i + 1 \in 1..Len(posted) /\ posted'[i] = posted[i + 1]
      /\ Head(posted) = posted[1]
      /\ 1 \in 1..Len(posted)
  BY <1>1, TailIndex
<1>3. op = "HandleSignals" => signaler = "unstarted"
  BY <1>1, <1>2 DEF SpawnedOnce
<1>4. ASSUME op = "HandleSignals", signaler' # "unstarted" PROVE SpawnedOnce'
  <2>1. ASSUME NEW i \in 1..Len(posted') PROVE posted'[i].op # "HandleSignals"
    <3>1. i + 1 # 1 /\ i + 1 \in 1..Len(posted) /\ posted'[i] = posted[i + 1]
      BY <1>2
    <3> QED
      BY <1>1, <1>2, <1>4, <3>1 DEF SpawnedOnce
  <2> QED
    BY <1>1, <1>4, <2>1 DEF SpawnedOnce
<1>5. ASSUME op # "HandleSignals", UNCHANGED signaler PROVE SpawnedOnce'
  <2>1. ASSUME signaler = "unstarted"
        PROVE  \E i \in 1..Len(posted') : posted'[i].op = "HandleSignals"
    <3>1. PICK i \in 1..Len(posted) : posted[i].op = "HandleSignals"
      BY <1>1, <2>1 DEF SpawnedOnce
    <3>2. i # 1
      BY <1>1, <1>2, <1>5, <3>1
    <3> QED
      BY <1>2, <3>1, <3>2
  <2>2. ASSUME NEW i \in 1..Len(posted'), posted'[i].op = "HandleSignals"
        PROVE  /\ signaler = "unstarted"
               /\ \A j \in 1..Len(posted') : posted'[j].op = "HandleSignals" => i = j
    <3>1. signaler = "unstarted"
      BY <1>2, <2>2 DEF SpawnedOnce
    <3>2. ASSUME NEW j \in 1..Len(posted'), posted'[j].op = "HandleSignals" PROVE i = j
      <4>1. i + 1 = j + 1
        BY <1>2, <2>2, <3>2 DEF SpawnedOnce
      <4> QED
        BY <4>1
    <3> QED
      BY <3>1, <3>2
  <2> QED
    BY <1>1, <1>5, <2>1, <2>2 DEF SpawnedOnce
<1> QED
  BY <1>3, <1>4, <1>5

\* ServeForever returns when there is no work left: nothing is then posted, so
\* every closed connection has been erased, and no connection holds itself, so
\* none is open.
LEMMA ReturnDrains ==
    ASSUME IInv, DrainInv, Return
    PROVE  ReturnIsClean'
<1>1. /\ main' = "returned" /\ main = "serving"
      /\ NumWorkers = 0 \/ ~OutstandingWork
      /\ UNCHANGED <<socket, strand, reader, writer, m_connections, m_draining>>
  BY DEF Return, connVars, socketVars, writeVars, tableVars, loopVars
<1>2. ASSUME NumWorkers > 0
      PROVE  /\ m_draining /\ m_connections = {}
             /\ \A c \in ConnId : socket[c] # "open" /\ ~HoldsItself(c)
  <2>1. ~OutstandingWork /\ main = "serving"
    BY <1>1, <1>2 DEF Return
  <2>2. /\ posted = <<>> /\ signaler \in {"unstarted", "done", "failed"}
        /\ \A c \in ConnId : ~HoldsItself(c)
    BY <2>1 DEF OutstandingWork
  <2>3. signaler # "unstarted"
    BY <2>1, <2>2 DEF DrainInv, SpawnedOnce
  <2>4. m_draining
    BY <2>2, <2>3 DEF DrainInv, DrainingIsThePhase
  <2>5. \A c \in ConnId : socket[c] # "open"
    BY <2>2, OpenHoldsItself DEF NeverDestroyedOpen
  <2>6. m_connections = {}
    <3> SUFFICES ASSUME NEW c \in m_connections PROVE FALSE
      OBVIOUS
    <3>1. c \in ConnId /\ socket[c] \in SocketState /\ socket[c] # "none"
      BY DEF IInv, TypeOK, ConnTypeOK, TableInv, TrackedIsAccepted
    <3>2. socket[c] # "closed"
      BY <2>2, <3>1 DEF IInv, TableInv, ClosedIsErased
    <3>3. socket[c] # "destroyed"
      BY <3>1 DEF DrainInv, DestroyedIsGone
    <3> QED
      BY <2>5, <3>1, <3>2, <3>3 DEF SocketState
  <2> QED
    BY <2>2, <2>4, <2>5, <2>6
<1> QED
  BY <1>1, <1>2 DEF ReturnIsClean, HoldsItself

\* A step of the server's own leaves the drain in step.
LEMMA ServerStepDrain ==
    ASSUME IInv, DrainInv, ServerStep \/ Environment
    PROVE  DrainInv'
<1> USE DEF DrainInv
<1>c. ASSUME UNCHANGED connVars PROVE UNCHANGED <<socket, strand, reader, writer>>
  BY <1>c DEF connVars, socketVars, writeVars
<1>t. TypeOK /\ signaler \in SignalerPc
  BY DEF IInv, TypeOK
<1>1. CASE ServeForever
  <2>1. /\ UNCHANGED <<socket, strand, m_connections, toClose, signaler, m_draining>>
        /\ main = "init" /\ main' = "serving"
        /\ posted' = <<[op |-> "HandleSignals"], [op |-> "AcceptConnections"]>>
    BY <1>1, <1>c DEF ServeForever, tableVars, loopVars
  <2>2. SpawnedOnce'
    <3>1. /\ \A i \in 1..Len(posted') : posted'[i].op = "HandleSignals" => i = 1
          /\ 1 \in 1..Len(posted') /\ posted'[1].op = "HandleSignals"
      BY <2>1
    <3> QED
      BY <2>1, <3>1 DEF SpawnedOnce
  <2>3. DrainReaches' /\ DestroyedIsGone' /\ DrainingIsThePhase' /\ ReturnIsClean'
    BY <2>1 DEF DrainReaches, HasClose, CloseHandler, DestroyedIsGone, DrainingIsThePhase, ReturnIsClean
  <2> QED
    BY <2>2, <2>3
<1>2. CASE Return
  <2>1. /\ UNCHANGED <<socket, strand, m_connections, toClose, signaler, m_draining, posted>>
        /\ main = "serving" /\ main' = "returned"
    BY <1>2, <1>c DEF Return, tableVars, loopVars
  <2>2. SpawnedOnce' /\ DrainReaches' /\ DestroyedIsGone' /\ DrainingIsThePhase'
    BY <2>1 DEF SpawnedOnce, DrainReaches, HasClose, CloseHandler, DestroyedIsGone, DrainingIsThePhase
  <2> QED
    BY <1>2, <2>2, ReturnDrains
<1>3. CASE HandleSignalsStart
  <2>1. /\ TakePosted("HandleSignals") /\ main = "serving"
        /\ signaler' = IF m_draining THEN "done" ELSE "waiting"
        /\ UNCHANGED <<socket, strand, m_connections, toClose, m_draining, main>>
    BY <1>3, <1>c DEF HandleSignalsStart, TakePosted, ServerStrandFree, tableVars
  <2>2. signaler = "unstarted" /\ SpawnedOnce'
    BY <1>t, <2>1, TakeSpawned
  <2>3. ~m_draining
    BY <2>2 DEF DrainingIsThePhase
  <2>4. DrainReaches' /\ DestroyedIsGone' /\ DrainingIsThePhase' /\ ReturnIsClean'
    BY <2>1, <2>3 DEF DrainReaches, DestroyedIsGone, DrainingIsThePhase, ReturnIsClean
  <2> QED
    BY <2>2, <2>4
<1>4. CASE AcceptConnectionsStart \/ RunErase
  <2>1. /\ TakePosted("AcceptConnections") \/ TakePosted("erase")
        /\ main = "serving" /\ m_connections' \subseteq m_connections
        /\ UNCHANGED <<socket, strand, toClose, m_draining, signaler, main>>
    BY <1>4, <1>c DEF AcceptConnectionsStart, RunErase, TakePosted, ServerStrandFree, tableVars, loopVars
  <2>2. SpawnedOnce'
    BY <1>t, <2>1, TakeSpawned
  <2>3. DrainReaches' /\ DestroyedIsGone' /\ DrainingIsThePhase' /\ ReturnIsClean'
    BY <2>1 DEF DrainReaches, HasClose, CloseHandler, DestroyedIsGone, DrainingIsThePhase, ReturnIsClean
  <2> QED
    BY <2>2, <2>3
<1>5. CASE AcceptLoopConnects
  <2>1. PICK c \in ConnId : /\ Connect(c, ServerObserver)
                             /\ m_connections' = m_connections \cup {c}
                             /\ ~m_draining /\ main = "serving"
                             /\ UNCHANGED <<toClose, posted, main, signaler, m_draining>>
    BY <1>5 DEF AcceptLoopConnects, ServerStrandFree, runVars
  <2>2. socket' = [socket EXCEPT ![c] = "open"] /\ socket \in [ConnId -> SocketState]
    BY <2>1 DEF Connect, IInv, TypeOK, ConnTypeOK
  <2>3. signaler \notin {"closing", "done"}
    BY <2>1 DEF DrainingIsThePhase
  <2>4. SpawnedOnce' /\ DrainReaches' /\ DrainingIsThePhase' /\ ReturnIsClean'
    BY <2>1, <2>3 DEF SpawnedOnce, DrainReaches, DrainingIsThePhase, ReturnIsClean
  <2>5. DestroyedIsGone'
    BY <2>1, <2>2 DEF DestroyedIsGone
  <2> QED
    BY <2>4, <2>5
<1>6. ASSUME UNCHANGED <<socket, strand, m_connections, toClose, m_draining, posted, main>>,
             main = "serving", signaler # "unstarted", signaler' # "unstarted",
             {signaler, signaler'} \cap {"closing", "done", "failed"} = {}
      PROVE  DrainInv'
  <2>1. DrainReaches' /\ DestroyedIsGone' /\ DrainingIsThePhase' /\ ReturnIsClean'
    BY <1>6 DEF DrainReaches, HasClose, CloseHandler, DestroyedIsGone, DrainingIsThePhase, ReturnIsClean
  <2>2. SpawnedOnce'
    BY <1>6 DEF SpawnedOnce
  <2> QED
    BY <2>1, <2>2
<1>7. CASE AcceptLoopBreaks \/ ClientArrives \/ AcceptFails \/ \E s \in Signal : Raise(s)
  <2>1. /\ UNCHANGED <<socket, strand, m_connections, toClose, m_draining, posted, main, signaler>>
        /\ main = "serving"
    BY <1>7, <1>c DEF AcceptLoopBreaks, ClientArrives, AcceptFails, Raise, ServerStrandFree,
                      tableVars, runVars, loopVars
  <2>2. DrainReaches' /\ DestroyedIsGone' /\ DrainingIsThePhase' /\ ReturnIsClean'
    BY <2>1 DEF DrainReaches, HasClose, CloseHandler, DestroyedIsGone, DrainingIsThePhase, ReturnIsClean
  <2>3. SpawnedOnce'
    BY <2>1 DEF SpawnedOnce
  <2> QED
    BY <2>2, <2>3
<1>8. ASSUME NEW s \in Signal, SignalArrives(s) PROVE DrainInv'
  BY <1>c, <1>6, <1>8 DEF SignalArrives, Signal, tableVars, runVars
<1>9. CASE SignalLoopReloads
  <2>1. ~m_draining
    BY <1>9 DEF SignalLoopReloads, DrainingIsThePhase
  <2> QED
    BY <1>c, <1>6, <1>9, <2>1 DEF SignalLoopReloads, ServerStrandFree, tableVars, runVars
<1>10. CASE SignalLoopDrains
  <2>1. /\ UNCHANGED <<socket, strand, m_connections, posted, main>> /\ main = "serving"
        /\ m_draining' /\ signaler = "terminal"
        /\ \/ signaler' = "closing" /\ toClose' = m_connections
           \/ signaler' = "failed" /\ UNCHANGED toClose
    BY <1>10, <1>c DEF SignalLoopDrains, ServerStrandFree, tableVars, runVars
  <2>2. SpawnedOnce' /\ DrainingIsThePhase' /\ DestroyedIsGone' /\ ReturnIsClean'
    BY <2>1 DEF SpawnedOnce, DrainingIsThePhase, DestroyedIsGone, ReturnIsClean
  <2>3. DrainReaches'
    BY <2>1 DEF DrainReaches, IInv, TableInv, OpenIsTracked
  <2> QED
    BY <2>2, <2>3
<1>11. CASE CloseLoopEnds
  <2>1. /\ UNCHANGED <<socket, strand, m_connections, posted, main, m_draining>> /\ main = "serving"
        /\ signaler = "closing" /\ signaler' = "done" /\ toClose = {}
    BY <1>11, <1>c DEF CloseLoopEnds, tableVars, runVars
  <2>2. SpawnedOnce' /\ DrainingIsThePhase' /\ DestroyedIsGone' /\ ReturnIsClean'
    BY <2>1 DEF SpawnedOnce, DrainingIsThePhase, DestroyedIsGone, ReturnIsClean
  <2>3. DrainReaches'
    BY <2>1 DEF DrainReaches, HasClose, CloseHandler
  <2> QED
    BY <2>2, <2>3
<1> QED
  BY <1>1, <1>2, <1>3, <1>4, <1>5, <1>7, <1>8, <1>9, <1>10, <1>11 DEF ServerStep, Environment

\* The drain is in step at the start,
LEMMA InitDrain == Init => DrainInv
<1> SUFFICES ASSUME Init PROVE DrainInv
  OBVIOUS
<1>1. posted = <<>> /\ m_connections = {} /\ main = "init" /\ signaler = "unstarted" /\ ~m_draining
  BY DEF Init
<1>2. \A c \in ConnId : socket[c] = "none"
  BY DEF Init, ConnInit
<1> QED
  BY <1>1, <1>2 DEF DrainInv, SpawnedOnce, DrainingIsThePhase, DrainReaches, DestroyedIsGone,
                    ReturnIsClean

\* and every step leaves it so.
LEMMA NextDrain == IInv /\ DrainInv /\ [Next]_vars => DrainInv'
<1> SUFFICES ASSUME IInv, DrainInv, [Next]_vars PROVE DrainInv'
  OBVIOUS
<1>1. CASE ServerStep \/ Environment
  BY <1>1, ServerStepDrain
<1>2. ASSUME NEW c \in ConnId, ConnStep(c) PROVE DrainInv'
  BY <1>2, ConnStepDrain
<1>3. CASE UNCHANGED vars
  <2>1. UNCHANGED <<socket, strand, reader, writer, m_connections, toClose, posted, main, signaler, m_draining>>
    BY <1>3 DEF vars, connVars, socketVars, writeVars, serverVars, tableVars, loopVars, runVars
  <2>2. SpawnedOnce' /\ DrainingIsThePhase' /\ DestroyedIsGone'
    BY <2>1 DEF DrainInv, SpawnedOnce, DrainingIsThePhase, DestroyedIsGone
  <2>3. DrainReaches' /\ ReturnIsClean'
    BY <2>1 DEF DrainInv, DrainReaches, HasClose, CloseHandler, ReturnIsClean, HoldsItself
  <2> QED
    BY <2>2, <2>3 DEF DrainInv
<1> QED
  BY <1>1, <1>2, <1>3 DEF Next, Terminated

\* HandleSignals misses nobody, whoever connects, closes or is slow meanwhile:
\* when its loop has ended, every open connection has a Close in its strand.
THEOREM DrainComplete == Spec => []DrainReachesEveryone
<1>1. DrainInv => DrainReachesEveryone
  BY DEF DrainInv, DrainReaches, HasClose, DrainReachesEveryone
<1> QED
  BY <1>1, InitInv, NextInv, InitDrain, NextDrain, PTL DEF Spec

\* Whatever the number of workers and clients, ServeForever leaves no open
\* socket, no entry in the table and no handler behind.
THEOREM ReturnsClean == Spec => []ReturnIsClean
<1>1. DrainInv => ReturnIsClean
  BY DEF DrainInv
<1> QED
  BY <1>1, InitInv, NextInv, InitDrain, NextDrain, PTL DEF Spec


-----------------------------------------------------------------------------
(* The server implements ServerLifecycle, its fairness apart.              *)

\* The refinement mapping of Lifecycle.
Phase ==
    CASE main = "returned" -> "stopped"
      [] signaler = "failed" /\ main # "returned" -> "abandoned"
      [] m_draining /\ signaler # "failed" /\ main # "returned" -> "draining"
      [] ~m_draining /\ main = "init" -> "idle"
      [] OTHER -> "serving"

Live == {c \in ConnId : socket[c] = "open"}

Used == {c \in ConnId : socket[c] # "none"}

\* The actions of ServerLifecycle under the mapping.
LEMMA LifecycleActions ==
    /\ Phase = "idle" /\ Phase' = "serving" /\ UNCHANGED <<Live, Used>> => Lifecycle!Next
    /\ Phase = "serving" /\ Phase' \in {"draining", "abandoned"} /\ UNCHANGED <<Live, Used>>
         => Lifecycle!Next
    /\ Phase \in {"draining", "abandoned"} /\ Live = {} /\ Phase' = "stopped"
         /\ UNCHANGED <<Live, Used>> => Lifecycle!Next
    /\ \A c \in ConnId :
         /\ Phase = "serving" /\ c \notin Used /\ Live' = Live \cup {c} /\ Used' = Used \cup {c}
              /\ UNCHANGED Phase => Lifecycle!Next
         /\ c \in Live /\ Live' = Live \ {c} /\ UNCHANGED <<Phase, Used>> => Lifecycle!Next
    /\ UNCHANGED <<Phase, Live, Used>> => UNCHANGED Lifecycle!vars
<1>1. Phase = "idle" /\ Phase' = "serving" /\ UNCHANGED <<Live, Used>> => Lifecycle!Start
  BY Zenon DEF Phase, Live, Used, Lifecycle!Start
<1>2. Phase = "serving" /\ Phase' \in {"draining", "abandoned"} /\ UNCHANGED <<Live, Used>>
        => Lifecycle!Drain
  BY Zenon DEF Phase, Live, Used, Lifecycle!Drain
<1>3. Phase \in {"draining", "abandoned"} /\ Live = {} /\ Phase' = "stopped"
        /\ UNCHANGED <<Live, Used>> => Lifecycle!Stop
  BY Zenon DEF Phase, Live, Used, Lifecycle!Stop
<1>4. \A c \in ConnId :
        Phase = "serving" /\ c \notin Used /\ Live' = Live \cup {c} /\ Used' = Used \cup {c}
          /\ UNCHANGED Phase => Lifecycle!Accept(c)
  BY Zenon DEF Phase, Live, Used, Lifecycle!Accept
<1>5. \A c \in ConnId :
        c \in Live /\ Live' = Live \ {c} /\ UNCHANGED <<Phase, Used>> => Lifecycle!Drop(c)
  BY Zenon DEF Phase, Live, Used, Lifecycle!Drop
<1>6. UNCHANGED <<Phase, Live, Used>> => UNCHANGED Lifecycle!vars
  BY Zenon DEF Phase, Live, Used, Lifecycle!vars
<1> QED
  BY <1>1, <1>2, <1>3, <1>4, <1>5, <1>6, Zenon DEF Lifecycle!Next

\* Which phase it is.
LEMMA PhaseIs ==
    /\ main = "returned" => Phase = "stopped"
    /\ main # "returned" /\ signaler = "failed" /\ m_draining => Phase = "abandoned"
    /\ main # "returned" /\ signaler # "failed" /\ m_draining => Phase = "draining"
    /\ main = "init" /\ signaler # "failed" /\ ~m_draining => Phase = "idle"
    /\ main \notin {"init", "returned"} /\ signaler # "failed" /\ ~m_draining => Phase = "serving"
<1>1. main = "returned" => Phase = "stopped"
  BY DEF Phase
<1>2. main # "returned" /\ signaler = "failed" /\ m_draining => Phase = "abandoned"
  BY DEF Phase
<1>3. main # "returned" /\ signaler # "failed" /\ m_draining => Phase = "draining"
  BY DEF Phase
<1>4. main = "init" /\ signaler # "failed" /\ ~m_draining => Phase = "idle"
  BY DEF Phase
<1>5. main \notin {"init", "returned"} /\ signaler # "failed" /\ ~m_draining => Phase = "serving"
  BY DEF Phase
<1> QED
  BY <1>1, <1>2, <1>3, <1>4, <1>5

\* The same of the phase after a step.
LEMMA PhaseNext ==
    /\ main' = "returned" => Phase' = "stopped"
    /\ main' # "returned" /\ signaler' = "failed" /\ m_draining' => Phase' = "abandoned"
    /\ main' # "returned" /\ signaler' # "failed" /\ m_draining' => Phase' = "draining"
    /\ main' \notin {"init", "returned"} /\ signaler' # "failed" /\ ~m_draining' => Phase' = "serving"
<1>1. main' = "returned" => Phase' = "stopped"
  BY DEF Phase
<1>2. main' # "returned" /\ signaler' = "failed" /\ m_draining' => Phase' = "abandoned"
  BY DEF Phase
<1>3. main' # "returned" /\ signaler' # "failed" /\ m_draining' => Phase' = "draining"
  BY DEF Phase
<1>4. main' \notin {"init", "returned"} /\ signaler' # "failed" /\ ~m_draining' => Phase' = "serving"
  BY DEF Phase
<1> QED
  BY <1>1, <1>2, <1>3, <1>4

\* A step of a connection is a Drop of its client, or none of the callers'
\* business.
LEMMA ConnStepRefines ==
    ASSUME IInv, DrainInv, NEW c \in ConnId, ConnStep(c)
    PROVE  Lifecycle!Next \/ UNCHANGED Lifecycle!vars
<1>1. UNCHANGED Phase
  <2>1. /\ main = "serving" /\ UNCHANGED <<signaler, m_draining>>
        /\ main' = main \/ (main' = "aborted" /\ signaler = "closing")
    <3>1. CASE ConnHandler(c) \/ ConnReader(c) \/ ConnWriter(c)
      BY <3>1 DEF ConnHandler, ConnReader, ConnWriter, WorkerFree, loopVars
    <3>2. CASE ConnIo(c) \/ Release(c) \/ CloseBusy(c)
      BY <3>2 DEF ConnIo, Release, CloseBusy, serverVars, runVars, loopVars
    <3>3. CASE CloseIdle(c)
      BY <3>3 DEF CloseIdle
    <3> QED
      BY <3>1, <3>2, <3>3 DEF ConnStep
  <2>2. m_draining <=> signaler \in {"closing", "done", "failed"}
    BY DEF DrainInv, DrainingIsThePhase
  <2>3. CASE signaler = "failed"
    BY <2>1, <2>2, <2>3, PhaseIs, PhaseNext
  <2>4. CASE signaler # "failed" /\ m_draining
    BY <2>1, <2>4, PhaseIs, PhaseNext
  <2>5. CASE signaler # "failed" /\ ~m_draining
    BY <2>1, <2>2, <2>5, PhaseIs, PhaseNext
  <2> QED
    BY <2>3, <2>4, <2>5
<1>2. /\ \A d \in ConnId \ {c} : socket'[d] = socket[d]
      /\ (socket[c] # "none" /\ socket'[c] # "none") \/ socket'[c] = socket[c]
      /\ socket'[c] = "open" => socket[c] = "open"
  <2>1. CASE ConnHandler(c) \/ ConnReader(c) \/ ConnWriter(c) \/ ConnIo(c)
    <3>1. OthersUnchanged(c) /\ StaysOrCloses(c)
      BY <2>1, RunsHandlerInv, LoopsInv DEF ConnHandler, ConnReader, ConnWriter, ConnIo, IInv
    <3> QED
      BY <3>1 DEF OthersUnchanged, StaysOrCloses
  <2>2. CASE Release(c)
    BY <2>2 DEF Release, Destroy, IInv, TypeOK, ConnTypeOK
  <2>3. CASE CloseBusy(c)
    BY <2>3 DEF CloseBusy, PostClose
  <2>4. CASE CloseIdle(c)
    <3>1. /\ socket'[c] = IF socket[c] = "open" THEN "closed" ELSE socket[c]
          /\ \A d \in ConnId \ {c} : socket'[d] = socket[d]
      BY <2>4, CloseUnderLockEffect DEF CloseIdle, CloseInline, IInv, TypeOK
    <3> QED
      BY <3>1
  <2> QED
    BY <2>1, <2>2, <2>3, <2>4 DEF ConnStep
<1>3. UNCHANGED Used
  BY <1>2 DEF Used
<1>4. CASE socket[c] = "open" /\ socket'[c] # "open"
  <2>1. c \in Live /\ Live' = Live \ {c}
    BY <1>2, <1>4 DEF Live
  <2> QED
    BY <1>1, <1>3, <2>1, LifecycleActions
<1>5. CASE ~(socket[c] = "open" /\ socket'[c] # "open")
  <2>1. UNCHANGED Live
    BY <1>2, <1>5 DEF Live
  <2> QED
    BY <1>1, <1>3, <2>1, LifecycleActions
<1> QED
  BY <1>4, <1>5

\* A step of the server's own: ServeForever starts, AcceptLoopConnects accepts,
\* SignalLoopDrains drains, Return stops, and the others are not seen.
LEMMA ServerStepRefines ==
    ASSUME NumWorkers > 0, IInv, DrainInv, ServerStep \/ Environment
    PROVE  Lifecycle!Next \/ UNCHANGED Lifecycle!vars
<1>d. m_draining <=> signaler \in {"closing", "done", "failed"}
  BY DEF DrainInv, DrainingIsThePhase
<1>c. ASSUME UNCHANGED connVars PROVE UNCHANGED <<Live, Used>>
  BY <1>c DEF connVars, socketVars, Live, Used
<1>1. CASE ServeForever
  <2>1. UNCHANGED <<Live, Used>>
    BY <1>1, <1>c DEF ServeForever
  <2>2. main = "init" /\ main' = "serving" /\ UNCHANGED <<signaler, m_draining>> /\ signaler = "unstarted"
    BY <1>1 DEF ServeForever, loopVars, DrainInv, SpawnedOnce
  <2>3. Phase = "idle" /\ Phase' = "serving"
    BY <1>d, <2>2, PhaseIs, PhaseNext
  <2> QED
    BY <2>1, <2>3, LifecycleActions
<1>2. CASE Return
  <2>1. UNCHANGED <<Live, Used>> /\ main = "serving" /\ main' = "returned" /\ UNCHANGED m_draining
    BY <1>2, <1>c DEF Return, loopVars
  <2>2. ReturnIsClean' /\ UNCHANGED socket
    BY <1>2, ReturnDrains DEF Return, connVars, socketVars
  <2>3. m_draining /\ Live = {}
    BY <2>1, <2>2 DEF ReturnIsClean, Live
  <2>4. Phase \in {"draining", "abandoned"} /\ Phase' = "stopped"
    BY <2>1, <2>3, PhaseIs, PhaseNext
  <2> QED
    BY <2>1, <2>3, <2>4, LifecycleActions
<1>3. CASE AcceptLoopConnects
  <2>1. PICK c \in ConnId : /\ Connect(c, ServerObserver)
                             /\ ~m_draining /\ main = "serving"
                             /\ UNCHANGED <<main, signaler, m_draining>>
    BY <1>3 DEF AcceptLoopConnects, ServerStrandFree, runVars
  <2>2. /\ socket[c] = "none" /\ socket'[c] = "open"
        /\ \A d \in ConnId \ {c} : socket'[d] = socket[d]
    BY <2>1 DEF Connect, IInv, TypeOK, ConnTypeOK
  <2>3. c \notin Used /\ Live' = Live \cup {c} /\ Used' = Used \cup {c}
    BY <2>2 DEF Live, Used
  <2>4. Phase = "serving" /\ UNCHANGED Phase
    BY <1>d, <2>1, PhaseIs, PhaseNext
  <2> QED
    BY <2>3, <2>4, LifecycleActions
<1>4. CASE SignalLoopDrains
  <2>1. /\ UNCHANGED <<Live, Used, main>> /\ main = "serving" /\ signaler = "terminal"
        /\ m_draining' /\ signaler' \in {"closing", "failed"}
    BY <1>4, <1>c DEF SignalLoopDrains, ServerStrandFree, runVars
  <2>2. Phase = "serving" /\ Phase' \in {"draining", "abandoned"}
    BY <1>d, <2>1, PhaseIs, PhaseNext
  <2> QED
    BY <2>1, <2>2, LifecycleActions
<1>5. ASSUME UNCHANGED <<connVars, main, m_draining>>, main = "serving",
             signaler = "failed" <=> signaler' = "failed"
      PROVE  UNCHANGED Lifecycle!vars
  <2>1. UNCHANGED Phase
    <3>1. CASE signaler = "failed"
      BY <1>5, <1>d, <3>1, PhaseIs, PhaseNext
    <3>2. CASE signaler # "failed" /\ m_draining
      BY <1>5, <3>2, PhaseIs, PhaseNext
    <3>3. CASE signaler # "failed" /\ ~m_draining
      BY <1>5, <3>3, PhaseIs, PhaseNext
    <3> QED
      BY <3>1, <3>2, <3>3
  <2> QED
    BY <1>5, <1>c, <2>1, LifecycleActions
<1>6. CASE HandleSignalsStart
  <2>1. signaler = "unstarted"
    <3>1. TakePosted("HandleSignals") /\ UNCHANGED main
      BY <1>6 DEF HandleSignalsStart
    <3> QED
      BY <3>1, TakeSpawned DEF DrainInv, IInv
  <2> QED
    BY <1>5, <1>6, <2>1 DEF HandleSignalsStart, TakePosted, ServerStrandFree
<1>7. CASE AcceptConnectionsStart \/ RunErase
  BY <1>5, <1>7 DEF AcceptConnectionsStart, RunErase, TakePosted, ServerStrandFree, loopVars
<1>8. CASE AcceptLoopBreaks \/ ClientArrives \/ AcceptFails \/ \E s \in Signal : Raise(s)
  BY <1>5, <1>8 DEF AcceptLoopBreaks, ClientArrives, AcceptFails, Raise, ServerStrandFree, runVars,
                    loopVars
<1>9. ASSUME NEW s \in Signal, SignalArrives(s) PROVE UNCHANGED Lifecycle!vars
  BY <1>5, <1>9 DEF SignalArrives, Signal, runVars
<1>10. CASE SignalLoopReloads \/ CloseLoopEnds
  BY <1>5, <1>10 DEF SignalLoopReloads, CloseLoopEnds, ServerStrandFree, runVars
<1> QED
  BY <1>1, <1>2, <1>3, <1>4, <1>6, <1>7, <1>8, <1>9, <1>10 DEF ServerStep, Environment

\* Every step is a step of ServerLifecycle or a stutter.
LEMMA StepRefines ==
    ASSUME NumWorkers > 0
    PROVE  IInv /\ DrainInv /\ [Next]_vars => [Lifecycle!Next]_(Lifecycle!vars)
<1> SUFFICES ASSUME IInv, DrainInv, [Next]_vars PROVE Lifecycle!Next \/ UNCHANGED Lifecycle!vars
  OBVIOUS
<1>1. CASE ServerStep \/ Environment
  BY <1>1, ServerStepRefines
<1>2. ASSUME NEW c \in ConnId, ConnStep(c) PROVE Lifecycle!Next \/ UNCHANGED Lifecycle!vars
  BY <1>2, ConnStepRefines
<1>3. CASE UNCHANGED vars
  <2>1. UNCHANGED <<Phase, Live, Used>>
    BY <1>3 DEF vars, connVars, socketVars, serverVars, loopVars, runVars, Phase, Live, Used
  <2> QED
    BY <2>1, LifecycleActions
<1> QED
  BY <1>1, <1>2, <1>3 DEF Next, Terminated

\* The initial state is one of ServerLifecycle's.
LEMMA InitRefines == Init => Lifecycle!Init
<1> SUFFICES ASSUME Init PROVE Lifecycle!Init
  OBVIOUS
<1>1. Phase = "idle"
  BY PhaseIs DEF Init
<1>2. \A c \in ConnId : socket[c] = "none"
  BY DEF Init, ConnInit
<1>3. Live = {} /\ Used = {}
  BY <1>2 DEF Live, Used
<1> QED
  BY <1>1, <1>3, Zenon DEF Lifecycle!Init, Phase, Live, Used

\* With at least one worker the server keeps the safety part of
\* ServerLifecycle's promise: each id is used for one client, nobody is accepted
\* after a terminal signal, and it stops only when nobody is connected.  Without
\* a worker ServeForever returns at once and never drains.
THEOREM ImplementsLifecycleSafety ==
    ASSUME NumWorkers > 0
    PROVE  Spec => Lifecycle!Spec
<1>1. Init /\ [][Next]_vars => [](IInv /\ DrainInv)
  BY InitInv, NextInv, InitDrain, NextDrain, PTL
<1>2. Init /\ [][Next]_vars => Lifecycle!Init /\ [][Lifecycle!Next]_(Lifecycle!vars)
  BY <1>1, InitRefines, StepRefines, PTL
<1> QED
  BY <1>2 DEF Spec, Lifecycle!Spec
=============================================================================
