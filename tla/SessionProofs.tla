---------------------------- MODULE SessionProofs ----------------------------
(***************************************************************************)
(* Proofs about SessionConnection, for every set of connections, observers *)
(* and responses, every capacity of the write queue and every number of    *)
(* calls.                                                                  *)
(***************************************************************************)
EXTENDS SessionConnection, AsioConnectionProofs

-----------------------------------------------------------------------------
(* The inductive invariant.                                                *)

AddSession == [op |-> "AddObserver", observer |-> SessionObserver]

\* Nothing of a connection exists before Attach.
AbsentAt(c) ==
    socket[c] = "none" =>
        /\ strand[c] = <<>> /\ reader[c] = "unstarted" /\ writer[c] = "unstarted"
        /\ ~owned[c] /\ ~m_session[c] /\ ~m_connection[c]
        /\ calls[c] = <<>>
        /\ \A o \in Observer : observers[c][o] = 0 /\ added[c][o] = 0 /\ disconnects[c][o] = 0

\* AddObserver of the adapter runs before anything can close the connection,
\* and nobody takes the adapter out again.
AdaptedAt(c) ==
    /\ socket[c] = "open" =>
           \/ Observes(c, SessionObserver)
           \/ /\ strand[c] # <<>>
              /\ Head(strand[c]) = AddSession
              /\ reader[c] = "unstarted" /\ writer[c] = "unstarted"
    /\ \A i \in 1..Len(strand[c]) :
           strand[c][i].op = "RemoveObserver" => strand[c][i].observer # SessionObserver

\* The session is attached until the socket closes, and closed with it.
SessionAt(c) ==
    /\ socket[c] = "open" =>
           /\ m_session[c] /\ m_connection[c]
           /\ \A i \in 1..Len(calls[c]) : calls[c][i] # "Close"
    /\ socket[c] \in {"closed", "destroyed"} =>
           /\ ~m_session[c] /\ ~m_connection[c]
           /\ calls[c] # <<>> /\ calls[c][Len(calls[c])] = "Close"
           /\ \A i \in 1..Len(calls[c]) : calls[c][i] = "Close" => i = Len(calls[c])

\* Until the close an observer is in the vector as often as it was added since
\* it was last removed or freed; at the close it is told that often.
CountedAt(c) ==
    \A o \in Observer :
        /\ socket[c] = "open" => disconnects[c][o] = 0 /\ added[c][o] = observers[c][o]
        /\ socket[c] \in {"closed", "destroyed"} => disconnects[c][o] = added[c][o]

AdapterInvAt(c) == AbsentAt(c) /\ AdaptedAt(c) /\ SessionAt(c) /\ CountedAt(c)

IInv == TypeOK /\ \A c \in ConnId : QueueInvAt(c) /\ AdapterInvAt(c)

-----------------------------------------------------------------------------
(* Types.                                                                  *)

\* OnDisconnect, of every observer, keeps the adapter's state well typed.
LEMMA OnDisconnectType ==
    ASSUME TypeOK, NEW c \in ConnId, OnDisconnect(c)
    PROVE  /\ m_session' \in [ConnId -> BOOLEAN]
           /\ m_connection' \in [ConnId -> BOOLEAN]
           /\ calls' \in [ConnId -> Seq({"AcceptMessage", "Close"})]
           /\ disconnects' \in [ConnId -> [Observer -> Nat]]
<1> USE DEF TypeOK
<1>1. CASE ~Disconnects(c)
  BY <1>1 DEF OnDisconnect, sessionVars
<1>2. CASE Disconnects(c)
  <2>1. Append(calls[c], "Close") \in Seq({"AcceptMessage", "Close"})
    BY AppendProperties
  <2>2. calls' \in [ConnId -> Seq({"AcceptMessage", "Close"})]
    BY <1>2, <2>1 DEF OnDisconnect
  <2>3. [o \in Observer |-> disconnects[c][o] + observers[c][o]] \in [Observer -> Nat]
    BY DEF ConnTypeOK
  <2>4. disconnects' \in [ConnId -> [Observer -> Nat]]
    BY <1>2, <2>3 DEF OnDisconnect
  <2>5. m_session' \in [ConnId -> BOOLEAN] /\ m_connection' \in [ConnId -> BOOLEAN]
    BY <1>2 DEF OnDisconnect, Observes
  <2> QED
    BY <2>2, <2>4, <2>5
<1> QED
  BY <1>1, <1>2

\* The calls of the holder keep the state well typed.
LEMMA HolderType ==
    ASSUME TypeOK, NEW c \in ConnId, Holder(c)
    PROVE  TypeOK'
<1> USE DEF TypeOK, sessionVars
<1>1. CASE Attach(c)
  <2>1. ConnTypeOK'
    BY <1>1, LifeType, SessionAssumption DEF Attach
  <2> QED
    BY <1>1, <2>1 DEF Attach
<1>2. ASSUME NEW m \in Message, HolderDelivers(c, m) PROVE TypeOK'
  <2>1. ConnTypeOK'
    BY <1>2, CallType DEF HolderDelivers, Deliver
  <2> QED
    BY <1>2, <2>1 DEF HolderDelivers, Deliver, DeliverResult
<1>3. CASE HolderCloses(c)
  <2>1. ConnTypeOK'
    BY <1>3, LifeType DEF HolderCloses
  <2> QED
    BY <1>3, <2>1, SessionAssumption DEF HolderCloses, Spend
<1>4. ASSUME NEW o \in Observer, NEW op \in {"AddObserver", "RemoveObserver"}, HolderObserves(c, op, o)
      PROVE  TypeOK'
  <2>1. ConnTypeOK'
    BY <1>4, CallType DEF HolderObserves
  <2> QED
    BY <1>4, <2>1, SessionAssumption DEF HolderObserves, Spend
<1>5. ASSUME NEW o \in Observer, HolderFreesObserver(c, o) PROVE TypeOK'
  <2>1. ConnTypeOK'
    BY <1>5, CallType DEF HolderFreesObserver
  <2> QED
    BY <1>5, <2>1 DEF HolderFreesObserver
<1>6. CASE HolderLetsGo(c)
  <2>1. ConnTypeOK'
    BY <1>6 DEF HolderLetsGo, connVars, socketVars, writeVars, ConnTypeOK
  <2> QED
    BY <1>6, <2>1 DEF HolderLetsGo
<1> QED
  BY <1>1, <1>2, <1>3, <1>4, <1>5, <1>6 DEF Holder

\* The steps of the strand, the kernel, the session and the destructor keep
\* the state well typed.
LEMMA StrandType ==
    ASSUME TypeOK, NEW c \in ConnId,
           \/ \E m \in Message : OnMessageEmitted(c, m)
           \/ StrandHandler(c) \/ ReaderResumes(c) \/ Writer(c) \/ Kernel(c) \/ Release(c)
    PROVE  TypeOK'
<1> USE DEF TypeOK, sessionVars, holderVars
<1>1. ASSUME NEW m \in Message, OnMessageEmitted(c, m) PROVE TypeOK'
  <2>1. ConnTypeOK'
    BY <1>1, CallType DEF OnMessageEmitted, Deliver
  <2> QED
    BY <1>1, <2>1 DEF OnMessageEmitted, Deliver, DeliverResult
<1>2. CASE StrandHandler(c)
  <2>1. ConnTypeOK'
    BY <1>2, RunsHandlerType DEF StrandHandler
  <2>2. added' \in [ConnId -> [Observer -> Nat]]
    <3>1. strand[c] # <<>> /\ strand[c] \in Seq(Handler)
      BY <1>2 DEF StrandHandler, RunsHandler, RunAddObserver, RunRemoveObserver,
                  RunReadLoopStart, RunWriteLoopStart, RunClose, TakeHandler, ConnTypeOK
    <3>2. Head(strand[c]) \in Handler
      BY <3>1, HeadTailProperties
    <3>3. Head(strand[c]).op \in {"AddObserver", "RemoveObserver"} =>
              Head(strand[c]).observer \in Observer
      BY <3>2 DEF Handler
    <3> QED
      BY <1>2, <3>3 DEF StrandHandler, CountsAdded
  <2> QED
    BY <1>2, <2>1, <2>2, OnDisconnectType DEF StrandHandler
<1>3. CASE ReaderFails(c)
  BY <1>3, ReaderType, OnDisconnectType DEF ReaderFails
<1>4. ASSUME NEW n \in 0..MaxPerRead, ReaderNotifies(c, n) PROVE TypeOK'
  <2>1. ConnTypeOK'
    BY <1>4, ReaderType DEF ReaderNotifies
  <2>2. n \in Nat
    BY SessionAssumption
  <2>3. [i \in 1..n |-> "AcceptMessage"] \in Seq({"AcceptMessage", "Close"})
    BY <2>2
  <2>4. calls[c] \o [i \in 1..n |-> "AcceptMessage"] \in Seq({"AcceptMessage", "Close"})
    BY <2>3, ConcatProperties
  <2> QED
    BY <1>4, <2>1, <2>4 DEF ReaderNotifies, OnMessage
<1>5. CASE Writer(c)
  BY <1>5, ResumesWriterType, OnDisconnectType DEF Writer
<1>6. CASE Kernel(c)
  BY <1>6, KernelStepType DEF Kernel
<1>7. CASE Release(c)
  BY <1>7, LifeType DEF Release
<1> QED
  BY <1>1, <1>2, <1>3, <1>4, <1>5, <1>6, <1>7 DEF ReaderResumes

\* The initial state is well typed.
LEMMA InitType == Init => TypeOK
<1> SUFFICES ASSUME Init PROVE TypeOK
  OBVIOUS
<1>1. ConnTypeOK
  BY ConnInitType DEF Init
<1>2. budget \in [ConnId -> 0..MaxCalls]
  BY SessionAssumption DEF Init
<1>3. calls \in [ConnId -> Seq({"AcceptMessage", "Close"})]
  BY DEF Init
<1> QED
  BY <1>1, <1>2, <1>3 DEF Init, TypeOK

\* Every step keeps the state well typed.
LEMMA NextType == TypeOK /\ [Next]_vars => TypeOK'
<1> SUFFICES ASSUME TypeOK, [Next]_vars PROVE TypeOK'
  OBVIOUS
<1>1. ASSUME NEW c \in ConnId, Holder(c) PROVE TypeOK'
  BY <1>1, HolderType
<1>2. ASSUME NEW c \in ConnId,
             \/ \E m \in Message : OnMessageEmitted(c, m)
             \/ StrandHandler(c) \/ ReaderResumes(c) \/ Writer(c) \/ Kernel(c) \/ Release(c)
      PROVE  TypeOK'
  BY <1>2, StrandType
<1>3. CASE UNCHANGED vars
  BY <1>3 DEF vars, connVars, socketVars, writeVars, sessionVars, holderVars, TypeOK, ConnTypeOK
<1> QED
  BY <1>1, <1>2, <1>3 DEF Next

\* The adapter, its session and the holder's calls never leave their types,
\* whatever the capacity and the number of calls.
THEOREM TypeCorrect == Spec => []TypeOK
BY InitType, NextType, PTL DEF Spec

-----------------------------------------------------------------------------
(* A step of a connection, and the rest.                                   *)

\* What a step of c leaves alone: every other connection.
OthersUnchanged(c) ==
    \A d \in ConnId \ {c} :
        /\ socket'[d] = socket[d] /\ strand'[d] = strand[d] /\ observers'[d] = observers[d]
        /\ reader'[d] = reader[d] /\ writer'[d] = writer[d] /\ inflight'[d] = inflight[d]
        /\ channel'[d] = channel[d] /\ buffer'[d] = buffer[d] /\ sent'[d] = sent[d]
        /\ written'[d] = written[d] /\ m_session'[d] = m_session[d]
        /\ m_connection'[d] = m_connection[d] /\ calls'[d] = calls[d] /\ added'[d] = added[d]
        /\ disconnects'[d] = disconnects[d] /\ owned'[d] = owned[d] /\ result'[d] = result[d]

\* A connection that a step leaves alone keeps its invariant.
LEMMA OthersInv ==
    ASSUME NEW c \in ConnId, OthersUnchanged(c), NEW d \in ConnId \ {c},
           QueueInvAt(d), AdapterInvAt(d)
    PROVE  QueueInvAt(d)' /\ AdapterInvAt(d)'
<1>1. QueueInvAt(d)'
  BY DEF OthersUnchanged, QueueInvAt, ConservedAt, HoldsAt, OpenAt, SpawnedOnceAt
<1>2. AbsentAt(d)' /\ AdaptedAt(d)'
  BY DEF OthersUnchanged, AdapterInvAt, AbsentAt, AdaptedAt, AddSession, Observes
<1>3. SessionAt(d)' /\ CountedAt(d)'
  BY DEF OthersUnchanged, AdapterInvAt, SessionAt, CountedAt
<1> QED
  BY <1>1, <1>2, <1>3 DEF AdapterInvAt

\* CloseUnderLock with the observers' OnDisconnect is about one connection.
LEMMA CloseOthers ==
    ASSUME TypeOK, NEW c \in ConnId, NEW r, NEW w, CloseUnderLock(c, r, w), OnDisconnect(c)
    PROVE  \A d \in ConnId \ {c} :
               /\ socket'[d] = socket[d] /\ reader'[d] = reader[d] /\ writer'[d] = writer[d]
               /\ channel'[d] = channel[d] /\ m_session'[d] = m_session[d]
               /\ m_connection'[d] = m_connection[d] /\ calls'[d] = calls[d]
               /\ disconnects'[d] = disconnects[d]
<1>1. \A d \in ConnId \ {c} :
          /\ socket'[d] = socket[d] /\ reader'[d] = reader[d] /\ writer'[d] = writer[d]
          /\ channel'[d] = channel[d]
  BY DEF CloseUnderLock, TypeOK, ConnTypeOK
<1>2. \A d \in ConnId \ {c} :
          /\ m_session'[d] = m_session[d] /\ m_connection'[d] = m_connection[d]
          /\ calls'[d] = calls[d] /\ disconnects'[d] = disconnects[d]
  BY DEF OnDisconnect, sessionVars, TypeOK
<1> QED
  BY <1>1, <1>2

\* Every step is a step of one connection.
LEMMA StepOthers ==
    ASSUME TypeOK, NEW c \in ConnId,
           \/ Holder(c)
           \/ \E m \in Message : OnMessageEmitted(c, m)
           \/ StrandHandler(c) \/ ReaderResumes(c) \/ Writer(c) \/ Kernel(c) \/ Release(c)
    PROVE  OthersUnchanged(c)
<1> USE DEF OthersUnchanged, TypeOK, ConnTypeOK
<1>1. CASE Attach(c)
  BY <1>1 DEF Attach, Connect, writeVars
<1>2. ASSUME NEW m \in Message, Deliver(c, m) PROVE OthersUnchanged(c)
  BY <1>2 DEF Deliver, DeliverResponse, TrySend, socketVars, sessionVars
<1>3. CASE HolderCloses(c) \/ HolderLetsGo(c)
  BY <1>3 DEF HolderCloses, HolderLetsGo, PostClose, connVars, socketVars, writeVars, sessionVars
<1>4. ASSUME NEW o \in Observer, NEW op \in {"AddObserver", "RemoveObserver"},
             HolderObserves(c, op, o) \/ HolderFreesObserver(c, o)
      PROVE  OthersUnchanged(c)
  BY <1>4 DEF HolderObserves, HolderFreesObserver, PostObserver, ObserverExpires, writeVars,
              sessionVars
<1>5. CASE StrandHandler(c)
  <2>1. \A d \in ConnId \ {c} : added'[d] = added[d]
    BY <1>5 DEF StrandHandler, CountsAdded
  <2>2. CASE RunClose(c)
    BY <1>5, <2>1, <2>2, CloseOthers DEF StrandHandler, RunClose, TakeHandler
  <2>3. CASE ~RunClose(c)
    <3>1. UNCHANGED socket
      BY <1>5, <2>3 DEF StrandHandler, RunsHandler, RunAddObserver, RunRemoveObserver,
                        RunReadLoopStart, RunWriteLoopStart
    <3>2. UNCHANGED sessionVars
      BY <1>5, <3>1 DEF StrandHandler, OnDisconnect, Disconnects
    <3>3. \A d \in ConnId \ {c} : strand'[d] = strand[d]
      BY <1>5 DEF StrandHandler, RunsHandler, RunAddObserver, RunRemoveObserver,
                  RunReadLoopStart, RunWriteLoopStart, RunClose, TakeHandler
    <3>4. CASE RunAddObserver(c) \/ RunRemoveObserver(c)
      BY <1>5, <2>1, <3>2, <3>3, <3>4 DEF StrandHandler, RunAddObserver, RunRemoveObserver,
                                          writeVars, sessionVars
    <3>5. CASE RunReadLoopStart(c) \/ RunWriteLoopStart(c)
      BY <1>5, <2>1, <3>2, <3>3, <3>5 DEF StrandHandler, RunReadLoopStart, RunWriteLoopStart,
                                          StartRead, StartReceive, writeVars, sessionVars
    <3> QED
      BY <1>5, <2>3, <3>4, <3>5 DEF StrandHandler, RunsHandler
  <2> QED
    BY <2>2, <2>3
<1>6. CASE ReaderFails(c)
  BY <1>6, CloseOthers DEF ReaderFails, ReadLoopFails, holderVars
<1>7. ASSUME NEW n \in 0..MaxPerRead, ReaderNotifies(c, n) PROVE OthersUnchanged(c)
  BY <1>7 DEF ReaderNotifies, ReadLoopNotifies, StartRead, OnMessage, writeVars, holderVars
<1>8. CASE Writer(c)
  <2>1. CASE WriteLoopFails(c)
    BY <1>8, <2>1, CloseOthers DEF Writer, WriteLoopFails, holderVars
  <2>2. CASE WriteLoopWrites(c) \/ WriteLoopReceives(c)
    <3>1. UNCHANGED socketVars
      BY <2>2 DEF WriteLoopWrites, WriteLoopReceives
    <3>2. UNCHANGED sessionVars
      BY <1>8, <3>1 DEF Writer, OnDisconnect, Disconnects, socketVars
    <3> QED
      BY <1>8, <2>2, <3>1, <3>2 DEF Writer, WriteLoopWrites, WriteLoopReceives, StartReceive,
                                    socketVars, sessionVars, holderVars
  <2> QED
    BY <1>8, <2>1, <2>2 DEF Writer, ResumesWriter
<1>9. CASE Kernel(c)
  BY <1>9 DEF Kernel, KernelStep, ReadCompletes, WriteSucceeds, WriteFails, socketVars, writeVars,
              sessionVars, holderVars
<1>10. CASE Release(c)
  BY <1>10 DEF Release, Destroy, writeVars, sessionVars, holderVars
<1> QED
  BY <1>1, <1>2, <1>3, <1>4, <1>5, <1>6, <1>7, <1>8, <1>9, <1>10
     DEF Holder, HolderDelivers, OnMessageEmitted, ReaderResumes

\* Every step keeps the invariant of its connection's write queue.
LEMMA StepQueue ==
    ASSUME TypeOK, NEW c \in ConnId, QueueInvAt(c), AdapterInvAt(c),
           \/ Holder(c)
           \/ \E m \in Message : OnMessageEmitted(c, m)
           \/ StrandHandler(c) \/ ReaderResumes(c) \/ Writer(c) \/ Kernel(c) \/ Release(c)
    PROVE  QueueInvAt(c)'
<1> USE DEF TypeOK
<1>1. CASE Attach(c)
  <2>1. writer[c] = "unstarted"
    BY <1>1 DEF Attach, Connect, AdapterInvAt, AbsentAt
  <2> QED
    BY <1>1, <2>1, LifeQueue, SessionAssumption DEF Attach
<1>2. ASSUME NEW m \in Message, Deliver(c, m) PROVE QueueInvAt(c)'
  BY <1>2, DeliverQueue DEF Deliver
<1>3. CASE HolderCloses(c)
  BY <1>3, LifeQueue DEF HolderCloses
<1>4. CASE HolderLetsGo(c)
  BY <1>4 DEF HolderLetsGo, connVars, socketVars, writeVars, QueueInvAt, ConservedAt, HoldsAt,
              OpenAt, SpawnedOnceAt
<1>5. ASSUME NEW o \in Observer, \/ HolderObserves(c, "AddObserver", o)
                                 \/ HolderObserves(c, "RemoveObserver", o)
                                 \/ HolderFreesObserver(c, o)
      PROVE  QueueInvAt(c)'
  BY <1>5, LifeQueue DEF HolderObserves, HolderFreesObserver
<1>6. CASE StrandHandler(c)
  BY <1>6, RunsHandlerQueue DEF StrandHandler
<1>7. CASE ReaderResumes(c) \/ Writer(c) \/ Kernel(c)
  BY <1>7, LoopsQueue DEF ReaderResumes, ReaderFails, ReaderNotifies, Writer, Kernel
<1>8. CASE Release(c)
  BY <1>8, LifeQueue DEF Release
<1> QED
  BY <1>1, <1>2, <1>3, <1>4, <1>5, <1>6, <1>7, <1>8 DEF Holder, HolderDelivers, OnMessageEmitted


-----------------------------------------------------------------------------
(* The adapter.                                                            *)

\* A step that touches neither the socket, the strand, the observers nor the
\* session, and starts no loop.
LEMMA QuietAdapter ==
    ASSUME NEW c \in ConnId, AdapterInvAt(c), socket[c] # "none",
           socket'[c] = socket[c], strand'[c] = strand[c], observers'[c] = observers[c],
           m_session'[c] = m_session[c], m_connection'[c] = m_connection[c],
           calls'[c] = calls[c], disconnects'[c] = disconnects[c], added'[c] = added[c],
           reader[c] = "unstarted" => reader'[c] = "unstarted",
           writer[c] = "unstarted" => writer'[c] = "unstarted"
    PROVE  AdapterInvAt(c)'
<1>1. AbsentAt(c)' /\ AdaptedAt(c)'
  BY DEF AdapterInvAt, AbsentAt, AdaptedAt, AddSession, Observes
<1>2. SessionAt(c)' /\ CountedAt(c)'
  BY DEF AdapterInvAt, SessionAt, CountedAt
<1> QED
  BY <1>1, <1>2 DEF AdapterInvAt

\* CloseUnderLock with the adapter among the observers: it closes the session
\* and lets go of both, and everybody is told as often as they were added.
LEMMA CloseAdapter ==
    ASSUME TypeOK, NEW c \in ConnId, AdapterInvAt(c), socket[c] # "none",
           NEW r, NEW w, CloseUnderLock(c, r, w), OnDisconnect(c),
           socket[c] = "open" => Observes(c, SessionObserver),
           observers'[c] = observers[c], added'[c] = added[c],
           \A i \in 1..Len(strand'[c]) :
               strand'[c][i].op = "RemoveObserver" => strand'[c][i].observer # SessionObserver
    PROVE  AdapterInvAt(c)'
<1> USE DEF AdapterInvAt
<1>1. CASE socket[c] # "open"
  <2>1. UNCHANGED <<socket, sessionVars>>
    BY <1>1 DEF CloseUnderLock, OnDisconnect, Disconnects
  <2>2. AbsentAt(c)' /\ AdaptedAt(c)'
    BY <1>1, <2>1 DEF AbsentAt, AdaptedAt
  <2>3. SessionAt(c)' /\ CountedAt(c)'
    BY <1>1, <2>1 DEF SessionAt, CountedAt, sessionVars
  <2> QED
    BY <2>2, <2>3
<1>2. CASE socket[c] = "open"
  <2>1. socket'[c] = "closed" /\ Disconnects(c)
    BY <1>2 DEF CloseUnderLock, Disconnects, TypeOK, ConnTypeOK
  <2>2. m_session[c] /\ m_connection[c] /\ \A i \in 1..Len(calls[c]) : calls[c][i] # "Close"
    BY <1>2 DEF SessionAt
  <2>3. /\ calls'[c] = Append(calls[c], "Close")
        /\ ~m_session'[c] /\ ~m_connection'[c]
    BY <1>2, <2>1, <2>2 DEF OnDisconnect, TypeOK
  <2>4. \A o \in Observer : disconnects'[c][o] = disconnects[c][o] + observers[c][o]
    BY <2>1 DEF OnDisconnect, TypeOK
  <2>5. SessionAt(c)'
    <3>1. calls[c] \in Seq({"AcceptMessage", "Close"})
      BY DEF TypeOK
    <3>2. /\ Len(calls'[c]) = Len(calls[c]) + 1 /\ Len(calls[c]) \in Nat
          /\ calls'[c][Len(calls[c]) + 1] = "Close"
          /\ \A i \in 1..Len(calls[c]) : calls'[c][i] = calls[c][i]
      BY <2>3, <3>1, AppendProperties
    <3>3. calls'[c] # <<>>
      BY <3>2
    <3> QED
      BY <2>1, <2>2, <2>3, <3>2, <3>3 DEF SessionAt
  <2>6. CountedAt(c)'
    BY <1>2, <2>1, <2>4 DEF CountedAt, TypeOK, ConnTypeOK
  <2> QED
    BY <2>1, <2>5, <2>6 DEF AbsentAt, AdaptedAt
<1> QED
  BY <1>1, <1>2

\* Taking the head off a strand adds no RemoveObserver of the adapter.
LEMMA TakeKeepsAdapter ==
    ASSUME TypeOK, NEW c \in ConnId, AdapterInvAt(c), NEW op, TakeHandler(c, op)
    PROVE  /\ \A i \in 1..Len(strand'[c]) :
                  strand'[c][i].op = "RemoveObserver" => strand'[c][i].observer # SessionObserver
           /\ op = "RemoveObserver" => Head(strand[c]).observer # SessionObserver
           /\ op # "AddObserver" /\ socket[c] = "open" => Observes(c, SessionObserver)
           /\ socket[c] # "none"
<1>1. strand[c] \in Seq(Handler) /\ strand[c] # <<>> /\ strand'[c] = Tail(strand[c])
      /\ Head(strand[c]).op = op
  BY DEF TakeHandler, TypeOK, ConnTypeOK
<1>2. /\ \A i \in 1..Len(strand'[c]) :
             i + 1 \in 1..Len(strand[c]) /\ strand'[c][i] = strand[c][i + 1]
      /\ Head(strand[c]) = strand[c][1]
      /\ 1 \in 1..Len(strand[c])
  BY <1>1, TailIndex
<1>3. \A i \in 1..Len(strand[c]) :
          strand[c][i].op = "RemoveObserver" => strand[c][i].observer # SessionObserver
  BY DEF AdapterInvAt, AdaptedAt
<1>4. ASSUME op # "AddObserver", socket[c] = "open" PROVE Observes(c, SessionObserver)
  <2>1. AddSession.op = "AddObserver"
    BY DEF AddSession
  <2> QED
    BY <1>1, <1>4, <2>1 DEF AdapterInvAt, AdaptedAt
<1>5. socket[c] # "none"
  BY <1>1 DEF AdapterInvAt, AbsentAt
<1> QED
  BY <1>1, <1>2, <1>3, <1>4, <1>5


\* The handlers of c's strand.
LEMMA StrandAdapter ==
    ASSUME TypeOK, NEW c \in ConnId, AdapterInvAt(c), StrandHandler(c)
    PROVE  AdapterInvAt(c)'
<1> DEFINE h == Head(strand[c])
<1>1. CASE RunClose(c)
  <2>1. TakeHandler(c, "Close") /\ h.op = "Close"
    BY <1>1 DEF RunClose, TakeHandler
  <2>2. added' = added
    BY <2>1 DEF StrandHandler, CountsAdded
  <2> QED
    BY <1>1, <2>1, <2>2, TakeKeepsAdapter, CloseAdapter DEF RunClose, StrandHandler
<1>2. CASE ~RunClose(c)
  <2>1. UNCHANGED socket
    BY <1>2 DEF StrandHandler, RunsHandler, RunAddObserver, RunRemoveObserver, RunReadLoopStart,
                RunWriteLoopStart
  <2>2. UNCHANGED sessionVars
    BY <2>1 DEF StrandHandler, OnDisconnect, Disconnects
  <2>3. PICK op : TakeHandler(c, op)
    BY DEF StrandHandler, RunsHandler, RunAddObserver, RunRemoveObserver, RunReadLoopStart,
           RunWriteLoopStart, RunClose
  <2>4. /\ \A i \in 1..Len(strand'[c]) :
               strand'[c][i].op = "RemoveObserver" => strand'[c][i].observer # SessionObserver
        /\ h.op = "RemoveObserver" => h.observer # SessionObserver
        /\ h.op # "AddObserver" /\ socket[c] = "open" => Observes(c, SessionObserver)
        /\ socket[c] # "none"
        /\ h.op = op
    BY <2>3, TakeKeepsAdapter DEF TakeHandler
  <2>5. h.op \in {"AddObserver", "RemoveObserver"} => h.observer \in Observer
    <3>1. h \in Handler
      BY <2>3, TakeHandlerType DEF TypeOK, ConnTypeOK
    <3> QED
      BY <3>1 DEF Handler
  <2>6. AbsentAt(c)' /\ SessionAt(c)'
    BY <2>1, <2>2, <2>4 DEF AbsentAt, SessionAt, AdapterInvAt, sessionVars
  <2>7. observers[c] \in [Observer -> Nat] /\ added[c] \in [Observer -> Nat]
    BY DEF TypeOK, ConnTypeOK
  <2>8. CASE RunAddObserver(c)
    <3>1. h.op = "AddObserver" /\ h.observer \in Observer
      BY <2>5, <2>8 DEF RunAddObserver, TakeHandler
    <3>2. observers'[c] = [observers[c] EXCEPT ![h.observer] = @ + 1]
      BY <2>8 DEF RunAddObserver, AddObserver, TypeOK, ConnTypeOK
    <3>3. added'[c] = IF socket[c] # "open" THEN added[c]
                      ELSE [added[c] EXCEPT ![h.observer] = @ + 1]
      BY <3>1 DEF StrandHandler, CountsAdded, TypeOK
    <3> HIDE DEF h
    <3>4. CountedAt(c)'
      BY <2>1, <2>2, <2>7, <3>1, <3>2, <3>3 DEF CountedAt, AdapterInvAt, sessionVars
    <3>5. socket[c] = "open" => Observes(c, SessionObserver)'
      <4>1. h = AddSession => h.observer = SessionObserver
        BY DEF AddSession
      <4> QED
        BY <2>4, <2>7, <3>1, <3>2, <4>1, SessionAssumption DEF AdapterInvAt, AdaptedAt, Observes, h
    <3> QED
      BY <2>1, <2>4, <2>6, <3>4, <3>5 DEF AdaptedAt, AdapterInvAt
  <2>9. CASE RunRemoveObserver(c)
    <3>1. h.op = "RemoveObserver" /\ h.observer \in Observer
      BY <2>5, <2>9 DEF RunRemoveObserver, TakeHandler
    <3>2. observers'[c] = [observers[c] EXCEPT ![h.observer] = 0]
      BY <2>9 DEF RunRemoveObserver, RemoveObserver, TypeOK, ConnTypeOK
    <3>3. added'[c] = IF socket[c] # "open" THEN added[c] ELSE [added[c] EXCEPT ![h.observer] = 0]
      BY <3>1 DEF StrandHandler, CountsAdded, TypeOK
    <3> HIDE DEF h
    <3>4. CountedAt(c)'
      BY <2>1, <2>2, <2>7, <3>1, <3>2, <3>3 DEF CountedAt, AdapterInvAt, sessionVars
    <3>5. socket[c] = "open" => Observes(c, SessionObserver)'
      BY <2>4, <2>7, <3>1, <3>2, SessionAssumption DEF Observes
    <3> QED
      BY <2>1, <2>4, <2>6, <3>4, <3>5 DEF AdaptedAt, AdapterInvAt
  <2>10. CASE RunReadLoopStart(c) \/ RunWriteLoopStart(c)
    <3>1. h.op \in {"RunReadLoop", "RunWriteLoop"} /\ UNCHANGED observers
      BY <2>10 DEF RunReadLoopStart, RunWriteLoopStart, TakeHandler
    <3>2. UNCHANGED added
      BY <3>1 DEF StrandHandler, CountsAdded
    <3>3. CountedAt(c)'
      BY <2>1, <2>2, <3>1, <3>2 DEF CountedAt, AdapterInvAt, sessionVars
    <3> QED
      BY <2>1, <2>4, <2>6, <3>1, <3>3 DEF AdaptedAt, AdapterInvAt, Observes
  <2> QED
    BY <1>2, <2>8, <2>9, <2>10 DEF StrandHandler, RunsHandler
<1> QED
  BY <1>1, <1>2

\* Posting a handler that does not take the adapter out.
LEMMA PostAdapter ==
    ASSUME TypeOK, NEW c \in ConnId, AdapterInvAt(c), socket[c] # "none", NEW h \in Handler,
           h.op = "RemoveObserver" => h.observer # SessionObserver,
           strand' = [strand EXCEPT ![c] = Append(@, h)],
           UNCHANGED <<socket, observers, reader, writer, sessionVars, added>>
    PROVE  AdapterInvAt(c)'
<1>1. strand[c] \in Seq(Handler) /\ strand'[c] = Append(strand[c], h)
  BY DEF TypeOK, ConnTypeOK
<1>2. /\ \A i \in 1..Len(strand[c]) : i \in 1..Len(strand'[c]) /\ strand'[c][i] = strand[c][i]
      /\ strand'[c][Len(strand[c]) + 1] = h
      /\ \A i \in 1..Len(strand'[c]) : i \in 1..Len(strand[c]) \/ i = Len(strand[c]) + 1
  BY <1>1, AppendIndex
<1>3. \A i \in 1..Len(strand'[c]) :
          strand'[c][i].op = "RemoveObserver" => strand'[c][i].observer # SessionObserver
  BY <1>2 DEF AdapterInvAt, AdaptedAt
<1>4. strand'[c] # <<>> /\ (strand[c] # <<>> => Head(strand'[c]) = Head(strand[c]))
  <2>1. strand'[c] \in Seq(Handler) /\ Len(strand'[c]) = Len(strand[c]) + 1 /\ Len(strand[c]) \in Nat
    BY <1>1, AppendProperties
  <2>2. strand'[c] # <<>>
    BY <2>1
  <2>3. ASSUME strand[c] # <<>> PROVE Head(strand'[c]) = Head(strand[c])
    <3>1. 1 \in 1..Len(strand[c]) /\ Head(strand[c]) = strand[c][1]
      BY <1>1, <2>3, TailIndex
    <3>2. Head(strand'[c]) = strand'[c][1]
      BY <2>1, <2>2, TailIndex
    <3> QED
      BY <1>2, <3>1, <3>2
  <2> QED
    BY <2>2, <2>3
<1>5. AdaptedAt(c)'
  BY <1>3, <1>4 DEF AdapterInvAt, AdaptedAt, AddSession, Observes
<1>6. AbsentAt(c)' /\ SessionAt(c)' /\ CountedAt(c)'
  BY DEF AdapterInvAt, AbsentAt, SessionAt, CountedAt, sessionVars
<1> QED
  BY <1>5, <1>6 DEF AdapterInvAt


\* Every step keeps the invariant of its connection's adapter.
LEMMA StepAdapter ==
    ASSUME TypeOK, NEW c \in ConnId, AdapterInvAt(c),
           \/ Holder(c)
           \/ \E m \in Message : OnMessageEmitted(c, m)
           \/ StrandHandler(c) \/ ReaderResumes(c) \/ Writer(c) \/ Kernel(c) \/ Release(c)
    PROVE  AdapterInvAt(c)'
<1>a. /\ socket[c] = "none" => ~owned[c] /\ ~m_connection[c]
      /\ reader[c] # "unstarted" \/ writer[c] # "unstarted" =>
             socket[c] # "none" /\ (socket[c] = "open" => Observes(c, SessionObserver))
  BY DEF AdapterInvAt, AbsentAt, AdaptedAt
<1>1. CASE Attach(c)
  <2>1. /\ socket'[c] = "open" /\ socket[c] = "none"
        /\ strand'[c] = <<AddSession, [op |-> "RunReadLoop"], [op |-> "RunWriteLoop"]>>
        /\ m_session'[c] /\ m_connection'[c]
        /\ UNCHANGED <<observers, reader, writer, calls, added, disconnects>>
    BY <1>1 DEF Attach, Connect, ConnectHandlers, AddSession, writeVars, TypeOK, ConnTypeOK
  <2>2. strand'[c] # <<>> /\ Head(strand'[c]) = AddSession
    BY <2>1
  <2>3. \A i \in 1..Len(strand'[c]) : strand'[c][i].op # "RemoveObserver"
    BY <2>1 DEF AddSession
  <2>4. AdaptedAt(c)'
    BY <2>1, <2>2, <2>3 DEF AdaptedAt, AdapterInvAt, AbsentAt
  <2>5. SessionAt(c)'
    BY <2>1 DEF SessionAt, AdapterInvAt, AbsentAt
  <2>6. CountedAt(c)'
    BY <2>1 DEF CountedAt, AdapterInvAt, AbsentAt
  <2> QED
    BY <2>1, <2>4, <2>5, <2>6 DEF AdapterInvAt, AbsentAt
<1>2. ASSUME NEW m \in Message, Deliver(c, m), socket[c] # "none" PROVE AdapterInvAt(c)'
  <2>1. UNCHANGED <<socketVars, sessionVars, added>>
    BY <1>2 DEF Deliver, DeliverResponse
  <2>2. writer[c] = "unstarted" => writer'[c] = "unstarted"
    BY <1>2 DEF Deliver, DeliverResponse, TrySend
  <2> QED
    BY <1>2, <2>1, <2>2, QuietAdapter DEF socketVars, sessionVars
<1>3. CASE HolderCloses(c)
  <2>1. CloseHandler \in Handler /\ CloseHandler.op # "RemoveObserver"
    BY DEF CloseHandler, Handler
  <2> QED
    BY <1>3, <1>a, <2>1, PostAdapter DEF HolderCloses, Spend, PostClose, writeVars
<1>4. ASSUME NEW o \in Observer \ {SessionObserver}, NEW op \in {"AddObserver", "RemoveObserver"},
             HolderObserves(c, op, o)
      PROVE  AdapterInvAt(c)'
  <2> DEFINE h == [op |-> op, observer |-> o]
  <2>1. h \in Handler /\ h.observer # SessionObserver
    BY DEF Handler
  <2>2. /\ strand' = [strand EXCEPT ![c] = Append(@, h)]
        /\ UNCHANGED <<socket, observers, reader, writer, sessionVars, added>>
    BY <1>4 DEF HolderObserves, PostObserver, writeVars
  <2>3. socket[c] # "none"
    BY <1>4, <1>a DEF HolderObserves, Spend
  <2> HIDE DEF h
  <2> QED
    BY <2>1, <2>2, <2>3, PostAdapter
<1>5. ASSUME NEW o \in Observer \ {SessionObserver}, HolderFreesObserver(c, o)
      PROVE  AdapterInvAt(c)'
  <2>1. /\ Observes(c, o)
        /\ observers'[c] = [observers[c] EXCEPT ![o] = 0]
        /\ added'[c] = [added[c] EXCEPT ![o] = IF socket[c] = "open" THEN 0 ELSE @]
        /\ UNCHANGED <<socket, strand, reader, writer, sessionVars>>
    BY <1>5 DEF HolderFreesObserver, ObserverExpires, RemoveObserver, writeVars, TypeOK, ConnTypeOK
  <2>2. observers[c] \in [Observer -> Nat] /\ added[c] \in [Observer -> Nat]
    BY DEF TypeOK, ConnTypeOK
  <2>3. socket[c] # "none"
    BY <2>1 DEF AdapterInvAt, AbsentAt, Observes
  <2>4. AdaptedAt(c)'
    BY <2>1, <2>2, SessionAssumption DEF AdaptedAt, AdapterInvAt, AddSession, Observes
  <2>5. CountedAt(c)'
    BY <2>1, <2>2 DEF CountedAt, AdapterInvAt, sessionVars
  <2>6. SessionAt(c)' /\ AbsentAt(c)'
    BY <2>1, <2>3 DEF SessionAt, AbsentAt, AdapterInvAt, sessionVars
  <2> QED
    BY <2>4, <2>5, <2>6 DEF AdapterInvAt
<1>6. CASE HolderLetsGo(c)
  BY <1>6, <1>a, QuietAdapter DEF HolderLetsGo, connVars, socketVars, writeVars, sessionVars
<1>7. CASE StrandHandler(c)
  BY <1>7, StrandAdapter
<1>8. CASE ReaderFails(c)
  <2>1. reader[c] # "unstarted"
    BY <1>8 DEF ReaderFails, ReadLoopFails, ReadFailed
  <2>2. CloseUnderLock(c, "done", writer[c]) /\ OnDisconnect(c) /\ UNCHANGED <<strand, observers, added>>
    BY <1>8 DEF ReaderFails, ReadLoopFails, holderVars
  <2> QED
    BY <1>a, <2>1, <2>2, CloseAdapter DEF AdapterInvAt, AdaptedAt
<1>9. ASSUME NEW n \in 0..MaxPerRead, ReaderNotifies(c, n) PROVE AdapterInvAt(c)'
  <2>1. /\ reader[c] = "data" /\ socket[c] # "none"
        /\ UNCHANGED <<socket, strand, observers, writer, m_session, m_connection, disconnects, added>>
    BY <1>9, <1>a DEF ReaderNotifies, ReadLoopNotifies, OnMessage, writeVars, holderVars
  <2>2. CASE socket[c] = "open"
    <3>1. n \in Nat /\ calls[c] \in Seq({"AcceptMessage", "Close"})
      BY SessionAssumption DEF TypeOK
    <3> DEFINE s == [i \in 1..n |-> "AcceptMessage"]
    <3>2. s \in Seq({"AcceptMessage"}) /\ s \in Seq({"AcceptMessage", "Close"}) /\ Len(s) = n
      BY <3>1
    <3>3. \A i \in 1..n : s[i] = "AcceptMessage"
      BY <3>1
    <3>4. calls'[c] = calls[c] \o s \/ calls'[c] = calls[c]
      BY <1>9 DEF ReaderNotifies, OnMessage, TypeOK
    <3> HIDE DEF s
    <3>5. \A i \in 1..Len(calls[c] \o s) : (calls[c] \o s)[i] # "Close"
      <4>1. /\ Len(calls[c] \o s) = Len(calls[c]) + n
            /\ \A i \in 1..(Len(calls[c]) + n) :
                   (calls[c] \o s)[i] = IF i <= Len(calls[c]) THEN calls[c][i]
                                        ELSE s[i - Len(calls[c])]
        BY <3>1, <3>2, ConcatProperties
      <4>2. \A i \in 1..Len(calls[c]) : calls[c][i] # "Close"
        BY <2>2 DEF AdapterInvAt, SessionAt
      <4>3. Len(calls[c]) \in Nat
        BY <3>1
      <4> SUFFICES ASSUME NEW i \in 1..Len(calls[c] \o s) PROVE (calls[c] \o s)[i] # "Close"
        OBVIOUS
      <4>4. CASE i <= Len(calls[c])
        BY <3>1, <4>1, <4>2, <4>3, <4>4
      <4>5. CASE i > Len(calls[c])
        <5>1. i - Len(calls[c]) \in 1..n
          BY <3>1, <4>1, <4>3, <4>5
        <5> QED
          BY <3>1, <3>3, <4>1, <4>3, <4>5, <5>1
      <4> QED
        BY <4>1, <4>3, <4>4, <4>5
    <3>6. SessionAt(c)'
      BY <2>1, <2>2, <3>4, <3>5 DEF SessionAt, AdapterInvAt
    <3>7. AbsentAt(c)' /\ CountedAt(c)' /\ AdaptedAt(c)'
      BY <1>a, <2>1, <2>2 DEF AdapterInvAt, AbsentAt, CountedAt, AdaptedAt, Observes
    <3> QED
      BY <3>6, <3>7 DEF AdapterInvAt
  <2>3. CASE socket[c] # "open"
    <3>1. ~m_session[c]
      BY <2>1, <2>3 DEF AdapterInvAt, SessionAt, TypeOK, ConnTypeOK, SocketState
    <3>2. calls'[c] = calls[c]
      BY <1>9, <3>1 DEF ReaderNotifies, OnMessage, TypeOK
    <3> QED
      BY <2>1, <3>2, QuietAdapter
  <2> QED
    BY <2>2, <2>3
<1>10. CASE Writer(c)
  <2>1. CASE WriteLoopFails(c)
    <3>1. writer[c] # "unstarted"
      BY <2>1 DEF WriteLoopFails, WriteFailed
    <3>2. CloseUnderLock(c, reader[c], "done") /\ OnDisconnect(c) /\ UNCHANGED <<strand, observers, added>>
      BY <1>10, <2>1 DEF Writer, WriteLoopFails, holderVars
    <3> QED
      BY <1>a, <3>1, <3>2, CloseAdapter DEF AdapterInvAt, AdaptedAt
  <2>2. CASE WriteLoopWrites(c) \/ WriteLoopReceives(c)
    <3>1. UNCHANGED socketVars /\ writer[c] # "unstarted"
      BY <2>2 DEF WriteLoopWrites, WriteLoopReceives
    <3>2. UNCHANGED sessionVars
      BY <1>10, <3>1 DEF Writer, OnDisconnect, Disconnects, socketVars
    <3> QED
      BY <1>10, <1>a, <3>1, <3>2, QuietAdapter DEF Writer, socketVars, sessionVars, holderVars
  <2> QED
    BY <1>10, <2>1, <2>2 DEF Writer, ResumesWriter
<1>11. CASE Kernel(c)
  <2>1. /\ UNCHANGED <<socket, strand, observers, sessionVars, added>>
        /\ reader[c] # "unstarted" \/ writer[c] # "unstarted"
        /\ reader[c] = "unstarted" => reader'[c] = "unstarted"
        /\ writer[c] = "unstarted" => writer'[c] = "unstarted"
    BY <1>11 DEF Kernel, KernelStep, ReadCompletes, WriteSucceeds, WriteFails, socketVars, writeVars,
                 holderVars
  <2> QED
    BY <1>a, <2>1, QuietAdapter DEF sessionVars
<1>12. CASE Release(c)
  <2>1. /\ socket[c] \in {"open", "closed"} /\ ~m_connection[c] /\ socket'[c] = "destroyed"
        /\ UNCHANGED <<strand, observers, sessionVars, added>>
    BY <1>12 DEF Release, Destroy, holderVars, TypeOK, ConnTypeOK
  <2>2. socket[c] = "closed"
    BY <2>1 DEF AdapterInvAt, SessionAt
  <2> QED
    BY <2>1, <2>2 DEF AdapterInvAt, AbsentAt, AdaptedAt, SessionAt, CountedAt, sessionVars
<1> QED
  BY <1>a, <1>1, <1>2, <1>3, <1>4, <1>5, <1>6, <1>7, <1>8, <1>9, <1>10, <1>11, <1>12
     DEF Holder, HolderDelivers, OnMessageEmitted, ReaderResumes

-----------------------------------------------------------------------------
(* The theorems.                                                           *)

\* The invariant holds before any connection exists.
LEMMA InitInv == Init => IInv
<1> SUFFICES ASSUME Init PROVE IInv
  OBVIOUS
<1>1. TypeOK
  BY InitType
<1>2. ASSUME NEW c \in ConnId PROVE QueueInvAt(c) /\ AdapterInvAt(c)
  <2>1. /\ socket[c] = "none" /\ strand[c] = <<>> /\ reader[c] = "unstarted"
        /\ writer[c] = "unstarted" /\ inflight[c] = <<>> /\ channel[c] = "open"
        /\ buffer[c] = <<>> /\ sent[c] = <<>> /\ written[c] = <<>>
        /\ \A o \in Observer : observers[c][o] = 0
    BY DEF Init, ConnInit
  <2>2. /\ ~owned[c] /\ ~m_session[c] /\ ~m_connection[c] /\ calls[c] = <<>>
        /\ \A o \in Observer : added[c][o] = 0 /\ disconnects[c][o] = 0
    BY DEF Init
  <2>3. <<>> \o <<>> \o <<>> = <<>> /\ Len(<<>>) = 0
    OBVIOUS
  <2>4. QueueInvAt(c)
    BY <2>1, <2>3, CapacityAssumption DEF QueueInvAt, ConservedAt, HoldsAt, OpenAt, SpawnedOnceAt
  <2>5. AdapterInvAt(c)
    BY <2>1, <2>2 DEF AdapterInvAt, AbsentAt, AdaptedAt, SessionAt, CountedAt
  <2> QED
    BY <2>4, <2>5
<1> QED
  BY <1>1, <1>2 DEF IInv

\* Every step keeps the invariant.
LEMMA NextInv == IInv /\ [Next]_vars => IInv'
<1> SUFFICES ASSUME IInv, [Next]_vars PROVE IInv'
  OBVIOUS
<1>1. TypeOK'
  BY NextType DEF IInv
<1>2. ASSUME NEW c \in ConnId,
             \/ Holder(c)
             \/ \E m \in Message : OnMessageEmitted(c, m)
             \/ StrandHandler(c) \/ ReaderResumes(c) \/ Writer(c) \/ Kernel(c) \/ Release(c)
      PROVE  \A d \in ConnId : QueueInvAt(d)' /\ AdapterInvAt(d)'
  <2>1. OthersUnchanged(c)
    BY <1>2, StepOthers DEF IInv
  <2>2. QueueInvAt(c)' /\ AdapterInvAt(c)'
    BY <1>2, StepQueue, StepAdapter DEF IInv
  <2>3. ASSUME NEW d \in ConnId \ {c} PROVE QueueInvAt(d)' /\ AdapterInvAt(d)'
    BY <2>1, OthersInv DEF IInv
  <2> QED
    BY <2>2, <2>3
<1>3. CASE UNCHANGED vars
  <2>1. ASSUME NEW d \in ConnId PROVE QueueInvAt(d)' /\ AdapterInvAt(d)'
    <3>1. QueueInvAt(d)'
      BY <1>3 DEF IInv, vars, connVars, socketVars, writeVars, QueueInvAt, ConservedAt, HoldsAt,
                  OpenAt, SpawnedOnceAt
    <3>2. AbsentAt(d)' /\ AdaptedAt(d)'
      BY <1>3 DEF IInv, vars, connVars, socketVars, writeVars, sessionVars, holderVars,
                  AdapterInvAt, AbsentAt, AdaptedAt, AddSession, Observes
    <3>3. SessionAt(d)' /\ CountedAt(d)'
      BY <1>3 DEF IInv, vars, connVars, socketVars, sessionVars, holderVars, AdapterInvAt,
                  SessionAt, CountedAt
    <3> QED
      BY <3>1, <3>2, <3>3 DEF AdapterInvAt
  <2> QED
    BY <1>1, <2>1 DEF IInv
<1> QED
  BY <1>1, <1>2, <1>3 DEF Next, IInv

\* The invariant gives the properties of the responses.
LEMMA InvImpliesResponses == IInv => ResponsesConserved /\ NoLostWakeup
BY DEF IInv, QueueInvAt, ConservedAt, OpenAt, ResponsesConserved, NoLostWakeup

\* The invariant gives the properties of the adapter.
LEMMA InvImpliesAdapter == IInv => NothingAfterSessionClose /\ ClosedIsDetached /\ DisconnectedOnce
<1> SUFFICES ASSUME IInv, NEW c \in ConnId
             PROVE  /\ \A i \in 1..Len(calls[c]) : calls[c][i] = "Close" => i = Len(calls[c])
                    /\ socket[c] \in {"closed", "destroyed"} =>
                           /\ ~m_session[c] /\ ~m_connection[c]
                           /\ calls[c] # <<>> /\ calls[c][Len(calls[c])] = "Close"
                    /\ \A o \in Observer : disconnects[c][o] <= added[c][o]
  BY DEF NothingAfterSessionClose, ClosedIsDetached, DisconnectedOnce
<1>1. AdapterInvAt(c) /\ socket[c] \in SocketState
  BY DEF IInv, TypeOK, ConnTypeOK
<1>2. added[c] \in [Observer -> Nat] /\ disconnects[c] \in [Observer -> Nat]
  BY DEF IInv, TypeOK
<1>3. CASE socket[c] = "none"
  BY <1>1, <1>3 DEF AdapterInvAt, AbsentAt
<1>4. CASE socket[c] = "open"
  BY <1>1, <1>2, <1>4 DEF AdapterInvAt, SessionAt, CountedAt
<1>5. CASE socket[c] \in {"closed", "destroyed"}
  BY <1>1, <1>2, <1>5 DEF AdapterInvAt, SessionAt, CountedAt
<1> QED
  BY <1>1, <1>3, <1>4, <1>5 DEF SocketState

\* DeliverResponse and RunWriteLoop neither lose, double nor reorder a
\* response, for every capacity of the queue.
THEOREM ResponsesAreConserved == Spec => []ResponsesConserved
BY InitInv, NextInv, InvImpliesResponses, PTL DEF Spec

\* RunWriteLoop never waits in async_receive while there is a response to
\* write or the channel has been closed.
THEOREM WriteLoopIsWoken == Spec => []NoLostWakeup
BY InitInv, NextInv, InvImpliesResponses, PTL DEF Spec

\* Session::Close is the last call that OnMessage and OnDisconnect make on a
\* session, for any number of messages per read.
THEOREM CloseIsTheLastCall == Spec => []NothingAfterSessionClose
BY InitInv, NextInv, InvImpliesAdapter, PTL DEF Spec

\* A connection never closes without its adapter hearing of it: the session is
\* closed and both pointers are reset.
THEOREM CloseDetaches == Spec => []ClosedIsDetached
BY InitInv, NextInv, InvImpliesAdapter, PTL DEF Spec

\* However Close, failed reads and failed writes race, an observer is told of
\* the disconnect at most as often as it was added.
THEOREM ToldAsOftenAsAdded == Spec => []DisconnectedOnce
BY InitInv, NextInv, InvImpliesAdapter, PTL DEF Spec


-----------------------------------------------------------------------------
(* The write queue and the write loop implement ResponseQueue.             *)

\* A step that accepts, refuses and writes no response and does not close the
\* channel is a stutter of ResponseQueue.
LEMMA QuietRefines ==
    ASSUME UNCHANGED <<sent, written, channel, result>>
    PROVE  UNCHANGED Responses!vars
BY DEF Responses!vars

\* What is waiting is what the write loop holds and what is buffered: enough
\* when the buffer is full, never too much when a response is accepted.
LEMMA WaitingIs ==
    ASSUME TypeOK, NEW c \in ConnId, QueueInvAt(c)
    PROVE  /\ Len(buffer[c]) >= Capacity => Len(sent[c]) - Len(written[c]) >= Capacity
           /\ ~(Len(buffer[c]) >= Capacity) => Len(sent[c]) - Len(written[c]) <= Capacity
           /\ Len(inflight[c]) = 1 =>
                  /\ Len(sent[c]) - Len(written[c]) > 0
                  /\ sent[c][Len(written[c]) + 1] = inflight[c][1]
<1> DEFINE w == written[c]
           i == inflight[c]
           b == buffer[c]
<1>1. w \in Seq(Message) /\ i \in Seq(Message) /\ b \in Seq(Message) /\ sent[c] = (w \o i) \o b
  BY DEF TypeOK, ConnTypeOK, QueueInvAt, ConservedAt
<1> HIDE DEF w, i, b
<1>3. /\ w \o i \in Seq(Message) /\ Len(w \o i) = Len(w) + Len(i)
      /\ Len(w) \in Nat /\ Len(i) \in Nat /\ Len(b) \in Nat
      /\ \A k \in 1..(Len(w) + Len(i)) :
             (w \o i)[k] = IF k <= Len(w) THEN w[k] ELSE i[k - Len(w)]
  BY <1>1, ConcatProperties
<1>4. /\ Len(sent[c]) = Len(w) + Len(i) + Len(b)
      /\ \A k \in 1..(Len(w \o i) + Len(b)) :
             sent[c][k] = IF k <= Len(w \o i) THEN (w \o i)[k] ELSE b[k - Len(w \o i)]
  BY <1>1, <1>3, ConcatProperties
<1>5. ASSUME Len(i) > 0 PROVE sent[c][Len(w) + 1] = i[1]
  <2>1. Len(w) + 1 \in 1..(Len(w) + Len(i)) /\ Len(w) + 1 \in 1..(Len(w \o i) + Len(b))
    BY <1>3, <1>5
  <2>2. sent[c][Len(w) + 1] = (w \o i)[Len(w) + 1]
    BY <1>3, <1>4, <2>1
  <2>3. (w \o i)[Len(w) + 1] = i[(Len(w) + 1) - Len(w)] /\ (Len(w) + 1) - Len(w) = 1
    BY <1>3, <2>1
  <2> QED
    BY <2>2, <2>3
<1>6. Len(i) <= 1 /\ Len(b) <= Capacity
  BY DEF QueueInvAt, HoldsAt, i, b
<1> DEFINE ls == Len(sent[c])
           lw == Len(w)
           li == Len(i)
           lb == Len(b)
<1>7. lw \in Nat /\ li \in Nat /\ lb \in Nat /\ ls = lw + li + lb /\ li <= 1
  BY <1>3, <1>4, <1>6
<1>8. ASSUME li = 1 PROVE sent[c][lw + 1] = i[1]
  BY <1>5, <1>8
<1> HIDE DEF ls, lw, li, lb
<1>9. /\ lb >= Capacity => ls - lw >= Capacity
      /\ ~(lb >= Capacity) => ls - lw <= Capacity
      /\ li = 1 => ls - lw > 0
  BY <1>7, CapacityAssumption
<1> QED
  BY <1>8, <1>9, Zenon DEF w, i, b, ls, lw, li, lb

\* DeliverResponse accepts or refuses, as ResponseQueue allows.
LEMMA DeliverRefines ==
    ASSUME TypeOK, NEW c \in ConnId, QueueInvAt(c), NEW m \in Message, Deliver(c, m)
    PROVE  Responses!Next
<1>w. /\ Len(buffer[c]) >= Capacity => Len(sent[c]) - Len(written[c]) >= Capacity
      /\ ~(Len(buffer[c]) >= Capacity) => Len(sent[c]) - Len(written[c]) <= Capacity
  BY WaitingIs
<1>u. UNCHANGED <<channel, written>>
  BY DEF Deliver, DeliverResponse
<1>1. CASE TrySendFails(c)
  <2>1. UNCHANGED sent /\ result' = [result EXCEPT ![c] = "Backpressure"]
    BY <1>1 DEF Deliver, DeliverResponse, DeliverResult, TrySendSetsEc
  <2>2. ~(channel[c] = "open") \/ Len(sent[c]) - Len(written[c]) >= Capacity
    <3>1. channel[c] = "closed" \/ Len(buffer[c]) >= Capacity
      BY <1>1 DEF TrySendFails
    <3> QED
      BY <1>w, <3>1, Zenon
  <2>3. [d \in ConnId |-> result'[d] \in {"Backpressure", "Closed"}] =
          [[d \in ConnId |-> result[d] \in {"Backpressure", "Closed"}] EXCEPT ![c] = TRUE]
    BY <2>1 DEF TypeOK
  <2>4. Responses!Refuse(c)
    BY <1>u, <2>1, <2>2, <2>3 DEF Responses!Refuse, Responses!Waiting
  <2> QED
    BY <2>4 DEF Responses!Next
<1>2. CASE ~TrySendFails(c)
  <2>1. sent' = [sent EXCEPT ![c] = Append(@, m)] /\ result' = [result EXCEPT ![c] = "Sent"]
    BY <1>2 DEF Deliver, DeliverResponse, DeliverResult
  <2>2. channel[c] = "open"
    BY <1>2 DEF TrySendFails, TypeOK, ConnTypeOK
  <2>3. Len(sent[c]) - Len(written[c]) <= Capacity
    <3>1. CASE writer[c] = "receiving"
      <4>1. buffer[c] = <<>>
        BY <3>1 DEF QueueInvAt, OpenAt
      <4>2. ~(Len(buffer[c]) >= Capacity)
        BY <4>1, CapacityAssumption
      <4> QED
        BY <1>w, <4>2, Zenon
    <3>2. CASE writer[c] # "receiving"
      BY <1>2, <1>w, <3>2, Zenon DEF TrySendFails
    <3> QED
      BY <3>1, <3>2
  <2>4. [d \in ConnId |-> result'[d] \in {"Backpressure", "Closed"}] =
          [[d \in ConnId |-> result[d] \in {"Backpressure", "Closed"}] EXCEPT ![c] = FALSE]
    <3> DEFINE P(d) == result[d] \in {"Backpressure", "Closed"}
               Q(d) == result'[d] \in {"Backpressure", "Closed"}
    <3>1. result'[c] = "Sent" /\ \A d \in ConnId : d # c => result'[d] = result[d]
      BY <2>1 DEF TypeOK
    <3>2. Q(c) = FALSE
      BY <3>1
    <3>3. \A d \in ConnId : d # c => Q(d) = P(d)
      BY <3>1
    <3> HIDE DEF P, Q
    <3>4. [d \in ConnId |-> Q(d)] = [[d \in ConnId |-> P(d)] EXCEPT ![c] = FALSE]
      BY <3>2, <3>3
    <3> QED
      BY <3>4 DEF P, Q
  <2>5. Responses!Accept(c, m)
    BY <1>u, <2>1, <2>2, <2>3, <2>4 DEF Responses!Accept, Responses!Waiting
  <2> QED
    BY <2>5 DEF Responses!Next
<1> QED
  BY <1>1, <1>2

\* async_write completing delivers the oldest response that is waiting.
LEMMA WriteRefines ==
    ASSUME TypeOK, NEW c \in ConnId, QueueInvAt(c), WriteSucceeds(c), UNCHANGED result
    PROVE  Responses!Next
<1>1. channel[c] = "open" /\ Len(inflight[c]) = 1
  BY DEF WriteSucceeds, QueueInvAt, HoldsAt, OpenAt
<1>2. Len(sent[c]) - Len(written[c]) > 0 /\ sent[c][Len(written[c]) + 1] = inflight[c][1]
  BY <1>1, WaitingIs, Zenon
<1>3. written[c] \o inflight[c] = Append(written[c], inflight[c][1])
  <2>1. written[c] \in Seq(Message) /\ inflight[c] \in Seq(Message)
    BY DEF TypeOK, ConnTypeOK
  <2>2. inflight[c] = <<inflight[c][1]>> /\ inflight[c][1] \in Message
    BY <1>1, <2>1
  <2>3. \A s \in Seq(Message), x \in Message : Append(s, x) = s \o <<x>>
    BY AppendIsConcat
  <2> QED
    BY <2>1, <2>2, <2>3, Zenon
<1>4. written' = [written EXCEPT ![c] = Append(@, sent[c][Len(@) + 1])]
  BY <1>2, <1>3 DEF WriteSucceeds
<1>5. Responses!Deliver(c)
  BY <1>1, <1>2, <1>4 DEF Responses!Deliver, Responses!Waiting, WriteSucceeds
<1> QED
  BY <1>5 DEF Responses!Next

\* CloseUnderLock closes the channel of an open connection, once.
LEMMA CloseRefines ==
    ASSUME TypeOK, NEW c \in ConnId, QueueInvAt(c), NEW r, NEW w, CloseUnderLock(c, r, w),
           UNCHANGED <<sent, written, result>>
    PROVE  Responses!Next \/ UNCHANGED Responses!vars
<1>1. CASE socket[c] # "open"
  BY <1>1, QuietRefines DEF CloseUnderLock
<1>2. CASE socket[c] = "open"
  <2>1. channel[c] = "open" /\ channel' = [channel EXCEPT ![c] = "closed"]
    BY <1>2 DEF CloseUnderLock, QueueInvAt, OpenAt, TypeOK, ConnTypeOK
  <2>2. [d \in ConnId |-> channel'[d] = "open"] =
          [[d \in ConnId |-> channel[d] = "open"] EXCEPT ![c] = FALSE]
    BY <2>1 DEF TypeOK, ConnTypeOK
  <2>3. Responses!Close(c)
    BY <2>1, <2>2 DEF Responses!Close
  <2> QED
    BY <2>3 DEF Responses!Next
<1> QED
  BY <1>1, <1>2

\* Every step is a step of ResponseQueue or a stutter.
LEMMA StepRefines == IInv /\ [Next]_vars => [Responses!Next]_(Responses!vars)
<1> SUFFICES ASSUME IInv, [Next]_vars PROVE Responses!Next \/ UNCHANGED Responses!vars
  OBVIOUS
<1>1. CASE UNCHANGED vars
  BY <1>1, QuietRefines DEF vars, connVars, writeVars, holderVars
<1>2. ASSUME NEW c \in ConnId,
             \/ Holder(c)
             \/ \E m \in Message : OnMessageEmitted(c, m)
             \/ StrandHandler(c) \/ ReaderResumes(c) \/ Writer(c) \/ Kernel(c) \/ Release(c)
      PROVE  Responses!Next \/ UNCHANGED Responses!vars
  <2> USE DEF IInv
  <2>1. ASSUME NEW m \in Message, Deliver(c, m) PROVE Responses!Next
    BY <2>1, DeliverRefines
  <2>2. CASE Attach(c) \/ HolderCloses(c) \/ HolderLetsGo(c) \/ Release(c)
    BY <2>2, QuietRefines DEF Attach, Connect, HolderCloses, PostClose, HolderLetsGo, Release, Destroy,
                              connVars, writeVars, holderVars
  <2>3. ASSUME NEW o \in Observer, \/ HolderObserves(c, "AddObserver", o)
                                   \/ HolderObserves(c, "RemoveObserver", o)
                                   \/ HolderFreesObserver(c, o)
        PROVE  UNCHANGED Responses!vars
    BY <2>3, QuietRefines DEF HolderObserves, PostObserver, HolderFreesObserver, ObserverExpires,
                              writeVars
  <2>4. CASE StrandHandler(c)
    <3>1. CASE RunClose(c)
      BY <2>4, <3>1, CloseRefines DEF StrandHandler, RunClose
    <3>2. CASE ~RunClose(c)
      BY <2>4, <3>2, QuietRefines DEF StrandHandler, RunsHandler, RunAddObserver, RunRemoveObserver,
                                      RunReadLoopStart, RunWriteLoopStart, writeVars
    <3> QED
      BY <3>1, <3>2
  <2>5. CASE ReaderFails(c)
    BY <2>5, CloseRefines DEF ReaderFails, ReadLoopFails, holderVars
  <2>6. ASSUME NEW n \in 0..MaxPerRead, ReaderNotifies(c, n) PROVE UNCHANGED Responses!vars
    BY <2>6, QuietRefines DEF ReaderNotifies, ReadLoopNotifies, writeVars, holderVars
  <2>7. CASE Writer(c)
    <3>1. CASE WriteLoopFails(c)
      BY <2>7, <3>1, CloseRefines DEF Writer, WriteLoopFails, holderVars
    <3>2. CASE WriteLoopWrites(c) \/ WriteLoopReceives(c)
      BY <2>7, <3>2, QuietRefines DEF Writer, WriteLoopWrites, WriteLoopReceives, holderVars
    <3> QED
      BY <2>7, <3>1, <3>2 DEF Writer, ResumesWriter
  <2>8. CASE Kernel(c)
    <3>1. CASE WriteSucceeds(c)
      BY <2>8, <3>1, WriteRefines DEF Kernel, holderVars
    <3>2. CASE WriteFails(c) \/ \E ec \in {"data", "eof", "error"} : ReadCompletes(c, ec)
      BY <2>8, <3>2, QuietRefines DEF Kernel, WriteFails, ReadCompletes, writeVars, holderVars
    <3> QED
      BY <2>8, <3>1, <3>2 DEF Kernel, KernelStep
  <2> QED
    BY <1>2, <2>1, <2>2, <2>3, <2>4, <2>5, <2>6, <2>7, <2>8
       DEF Holder, HolderDelivers, OnMessageEmitted, ReaderResumes
<1> QED
  BY <1>1, <1>2 DEF Next

\* The initial state is one of ResponseQueue's.
LEMMA InitRefines == Init => Responses!Init
<1> SUFFICES ASSUME Init PROVE Responses!Init
  OBVIOUS
<1>1. /\ [c \in ConnId |-> channel[c] = "open"] = [c \in ConnId |-> TRUE]
      /\ [c \in ConnId |-> result[c] \in {"Backpressure", "Closed"}] = [c \in ConnId |-> FALSE]
  <2> DEFINE O(c) == channel[c] = "open"
             R(c) == result[c] \in {"Backpressure", "Closed"}
  <2>1. \A c \in ConnId : channel[c] = "open" /\ result[c] = "none"
    BY DEF Init, ConnInit
  <2>2. \A c \in ConnId : O(c) = TRUE
    BY <2>1
  <2>3. \A c \in ConnId : R(c) = FALSE
    <3>1. \A c \in ConnId : result[c] = "none"
      BY <2>1
    <3> SUFFICES ASSUME NEW c \in ConnId PROVE R(c) = FALSE
      OBVIOUS
    <3>2. result[c] = "none"
      BY <3>1
    <3>3. ("none" \in {"Backpressure", "Closed"}) = FALSE
      BY SMT
    <3> QED
      BY <3>2, <3>3, Zenon
  <2> HIDE DEF O, R
  <2>4. [c \in ConnId |-> O(c)] = [c \in ConnId |-> TRUE]
    BY <2>2
  <2>5. [c \in ConnId |-> R(c)] = [c \in ConnId |-> FALSE]
    BY <2>3
  <2> QED
    BY <2>4, <2>5 DEF O, R
<1> QED
  BY <1>1 DEF Responses!Init, Init, ConnInit

\* For every capacity, the channel, RunWriteLoop and CloseUnderLock together
\* implement ResponseQueue: responses are written in the order of acceptance,
\* at most Capacity + 1 wait, none is refused without cause.
THEOREM ImplementsResponseQueue == Spec => ResponsesInOrder
<1>1. Init /\ [][Next]_vars => []IInv
  BY InitInv, NextInv, PTL
<1>2. Init /\ [][Next]_vars => Responses!Init /\ [][Responses!Next]_(Responses!vars)
  BY <1>1, InitRefines, StepRefines, PTL
<1> QED
  BY <1>2 DEF Spec, ResponsesInOrder, Responses!Spec
=============================================================================
