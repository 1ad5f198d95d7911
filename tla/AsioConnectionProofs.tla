------------------------ MODULE AsioConnectionProofs ------------------------
(***************************************************************************)
(* Lemmas about the connections of AsioConnection, for the proofs about    *)
(* the modules that compose them.                                          *)
(***************************************************************************)
EXTENDS AsioConnection, SequenceTheorems, TLAPS

-----------------------------------------------------------------------------
(* Sequences.                                                              *)

\* Removing the head of a strand moves every other handler up by one.
LEMMA TailIndex ==
    ASSUME NEW S, NEW s \in Seq(S), s # <<>>
    PROVE  /\ \A i \in 1..Len(s) : i # 1 =>
                  i - 1 \in 1..Len(Tail(s)) /\ Tail(s)[i - 1] = s[i]
           /\ \A i \in 1..Len(Tail(s)) : i + 1 \in 1..Len(s) /\ Tail(s)[i] = s[i + 1]
           /\ Head(s) = s[1]
           /\ 1 \in 1..Len(s)
<1>1. Len(s) \in Nat /\ Len(s) # 0
  BY EmptySeq
<1>2. Len(Tail(s)) = Len(s) - 1 /\ \A i \in 1..Len(Tail(s)) : Tail(s)[i] = s[i + 1]
  BY HeadTailProperties
<1> QED
  BY <1>1, <1>2

\* Posting a handler leaves the ones before it where they are.
LEMMA AppendIndex ==
    ASSUME NEW S, NEW s \in Seq(S), NEW x \in S
    PROVE  /\ \A i \in 1..Len(s) : i \in 1..Len(Append(s, x)) /\ Append(s, x)[i] = s[i]
           /\ Len(s) + 1 \in 1..Len(Append(s, x))
           /\ Append(s, x)[Len(s) + 1] = x
           /\ \A i \in 1..Len(Append(s, x)) : i \in 1..Len(s) \/ i = Len(s) + 1
<1>1. Len(s) \in Nat
  OBVIOUS
<1> QED
  BY <1>1, AppendProperties

-----------------------------------------------------------------------------
(* Types.                                                                  *)

\* Taking the head off a strand (TakeHandler) leaves a strand of handlers.
LEMMA TakeHandlerType ==
    ASSUME NEW c \in ConnId, NEW op, strand \in [ConnId -> Seq(Handler)],
           TakeHandler(c, op)
    PROVE  /\ strand' \in [ConnId -> Seq(Handler)]
           /\ Head(strand[c]) \in Handler
BY HeadTailProperties DEF TakeHandler

\* CloseUnderLock leaves the socket, the channel and both loops well typed.
LEMMA CloseUnderLockType ==
    ASSUME ConnTypeOK, NEW c \in ConnId, NEW r \in ReaderPc, NEW w \in WriterPc,
           CloseUnderLock(c, r, w)
    PROVE  /\ socket' \in [ConnId -> SocketState]
           /\ channel' \in [ConnId -> {"open", "closed"}]
           /\ reader' \in [ConnId -> ReaderPc]
           /\ writer' \in [ConnId -> WriterPc]
<1>1. AbortRead(r) \in ReaderPc
  BY DEF AbortRead, ReaderPc
<1>2. AbortWrite(w) \in WriterPc
  BY DEF AbortWrite, WriterPc
<1>3. CASE socket[c] # "open"
  BY <1>3 DEF CloseUnderLock, ConnTypeOK
<1>4. CASE socket[c] = "open"
  <2>1. socket' \in [ConnId -> SocketState]
    BY <1>4 DEF CloseUnderLock, ConnTypeOK, SocketState
  <2>2. channel' \in [ConnId -> {"open", "closed"}]
    BY <1>4 DEF CloseUnderLock, ConnTypeOK
  <2>3. reader' \in [ConnId -> ReaderPc]
    BY <1>1, <1>4 DEF CloseUnderLock, ConnTypeOK
  <2>4. writer' \in [ConnId -> WriterPc]
    BY <1>2, <1>4 DEF CloseUnderLock, ConnTypeOK
  <2> QED
    BY <2>1, <2>2, <2>3, <2>4
<1> QED
  BY <1>3, <1>4

\* Starting async_receive keeps the write loop's state well typed.
LEMMA StartReceiveType ==
    ASSUME ConnTypeOK, NEW c \in ConnId, StartReceive(c)
    PROVE  /\ writer' \in [ConnId -> WriterPc]
           /\ inflight' \in [ConnId -> Seq(Message)]
           /\ buffer' \in [ConnId -> Seq(Message)]
<1>1. CASE buffer[c] # <<>>
  <2>1. Head(buffer[c]) \in Message /\ Tail(buffer[c]) \in Seq(Message)
    BY <1>1, HeadTailProperties DEF ConnTypeOK
  <2>2. <<Head(buffer[c])>> \in Seq(Message)
    BY <2>1
  <2> QED
    BY <1>1, <2>1, <2>2 DEF StartReceive, WriterPc, ConnTypeOK
<1>2. CASE buffer[c] = <<>>
  BY <1>2 DEF StartReceive, WriterPc, ConnTypeOK
<1> QED
  BY <1>1, <1>2

\* AsioConnection: a connection's handlers keep its state well typed.
LEMMA RunsHandlerType ==
    ASSUME ConnTypeOK, NEW c \in ConnId, RunsHandler(c)
    PROVE  ConnTypeOK'
<1> USE DEF ConnTypeOK
<1>1. CASE RunAddObserver(c)
  <2>1. strand' \in [ConnId -> Seq(Handler)] /\ Head(strand[c]) \in Handler
    BY <1>1, TakeHandlerType DEF RunAddObserver
  <2>2. Head(strand[c]).observer \in Observer
    BY <1>1, <2>1 DEF RunAddObserver, TakeHandler, Handler
  <2>3. AddObserver(observers[c], Head(strand[c]).observer) \in [Observer -> Nat]
    BY <2>2 DEF AddObserver
  <2>4. observers' \in [ConnId -> [Observer -> Nat]]
    BY <1>1, <2>3 DEF RunAddObserver
  <2> QED
    BY <1>1, <2>1, <2>4 DEF RunAddObserver, writeVars
<1>2. CASE RunRemoveObserver(c)
  <2>1. strand' \in [ConnId -> Seq(Handler)]
    BY <1>2, TakeHandlerType DEF RunRemoveObserver
  <2>2. observers' \in [ConnId -> [Observer -> Nat]]
    BY <1>2 DEF RunRemoveObserver, RemoveObserver
  <2> QED
    BY <1>2, <2>1, <2>2 DEF RunRemoveObserver, writeVars
<1>3. CASE RunReadLoopStart(c)
  <2>1. strand' \in [ConnId -> Seq(Handler)]
    BY <1>3, TakeHandlerType DEF RunReadLoopStart
  <2> QED
    BY <1>3, <2>1 DEF RunReadLoopStart, StartRead, ReaderPc, writeVars
<1>4. CASE RunWriteLoopStart(c)
  <2>1. strand' \in [ConnId -> Seq(Handler)]
    BY <1>4, TakeHandlerType DEF RunWriteLoopStart
  <2> QED
    BY <1>4, <2>1, StartReceiveType DEF RunWriteLoopStart
<1>5. CASE RunClose(c)
  <2>1. strand' \in [ConnId -> Seq(Handler)]
    BY <1>5, TakeHandlerType DEF RunClose
  <2>2. CloseUnderLock(c, reader[c], writer[c]) /\ reader[c] \in ReaderPc /\ writer[c] \in WriterPc
    BY <1>5 DEF RunClose
  <2> QED
    BY <1>5, <2>1, <2>2, CloseUnderLockType DEF RunClose
<1> QED
  BY <1>1, <1>2, <1>3, <1>4, <1>5 DEF RunsHandler

\* The resumed read loop keeps the connection's state well typed.
LEMMA ReaderType ==
    ASSUME ConnTypeOK, NEW c \in ConnId, ReadLoopNotifies(c) \/ ReadLoopFails(c)
    PROVE  ConnTypeOK'
<1>1. CASE ReadLoopNotifies(c)
  BY <1>1 DEF ReadLoopNotifies, StartRead, ReaderPc, writeVars, ConnTypeOK
<1>2. CASE ReadLoopFails(c)
  <2>1. CloseUnderLock(c, "done", writer[c]) /\ "done" \in ReaderPc /\ writer[c] \in WriterPc
    BY <1>2 DEF ReadLoopFails, ReaderPc, ConnTypeOK
  <2> QED
    BY <1>2, <2>1, CloseUnderLockType DEF ReadLoopFails, ConnTypeOK
<1> QED
  BY <1>1, <1>2

\* The resumed write loop keeps the connection's state well typed.
LEMMA ResumesWriterType ==
    ASSUME ConnTypeOK, NEW c \in ConnId, ResumesWriter(c)
    PROVE  ConnTypeOK'
<1>1. CASE WriteLoopWrites(c)
  BY <1>1 DEF WriteLoopWrites, WriterPc, socketVars, ConnTypeOK
<1>2. CASE WriteLoopReceives(c)
  BY <1>2, StartReceiveType DEF WriteLoopReceives, socketVars, ConnTypeOK
<1>3. CASE WriteLoopFails(c)
  <2>1. CloseUnderLock(c, reader[c], "done") /\ reader[c] \in ReaderPc /\ "done" \in WriterPc
    BY <1>3 DEF WriteLoopFails, WriterPc, ConnTypeOK
  <2> QED
    BY <1>3, <2>1, CloseUnderLockType DEF WriteLoopFails, ConnTypeOK
<1> QED
  BY <1>1, <1>2, <1>3 DEF ResumesWriter

\* A completion from the kernel keeps the connection's state well typed.
LEMMA KernelStepType ==
    ASSUME ConnTypeOK, NEW c \in ConnId, KernelStep(c)
    PROVE  ConnTypeOK'
<1>1. ASSUME NEW ec \in {"data", "eof", "error"}, ReadCompletes(c, ec)
      PROVE  ConnTypeOK'
  BY <1>1 DEF ReadCompletes, ReaderPc, writeVars, ConnTypeOK
<1>2. CASE WriteSucceeds(c)
  <2>1. written[c] \o inflight[c] \in Seq(Message) /\ <<>> \in Seq(Message)
    BY ConcatProperties DEF ConnTypeOK
  <2> QED
    BY <1>2, <2>1 DEF WriteSucceeds, WriterPc, socketVars, ConnTypeOK
<1>3. CASE WriteFails(c)
  BY <1>3 DEF WriteFails, WriterPc, socketVars, ConnTypeOK
<1> QED
  BY <1>1, <1>2, <1>3 DEF KernelStep

\* Accepting, closing and destroying a connection keep its state well typed.
LEMMA LifeType ==
    ASSUME ConnTypeOK, NEW c \in ConnId,
           \/ \E o \in Observer : Connect(c, o)
           \/ PostClose(c)
           \/ CloseInline(c)
           \/ Destroy(c)
    PROVE  ConnTypeOK'
<1>1. ASSUME NEW o \in Observer, Connect(c, o)
      PROVE  ConnTypeOK'
  <2>1. ConnectHandlers(o) \in Seq(Handler)
    <3>1. /\ [op |-> "AddObserver", observer |-> o] \in Handler
          /\ [op |-> "RunReadLoop"] \in Handler
          /\ [op |-> "RunWriteLoop"] \in Handler
      BY DEF Handler
    <3> QED
      BY <3>1 DEF ConnectHandlers
  <2> QED
    BY <1>1, <2>1 DEF Connect, SocketState, writeVars, ConnTypeOK
<1>2. CASE PostClose(c)
  <2>1. Append(strand[c], CloseHandler) \in Seq(Handler)
    <3>1. CloseHandler \in Handler
      BY DEF CloseHandler, Handler
    <3> QED
      BY <3>1, AppendProperties DEF ConnTypeOK
  <2> QED
    BY <1>2, <2>1 DEF PostClose, writeVars, ConnTypeOK
<1>3. CASE CloseInline(c)
  <2>1. CloseUnderLock(c, reader[c], writer[c]) /\ reader[c] \in ReaderPc /\ writer[c] \in WriterPc
    BY <1>3 DEF CloseInline, ConnTypeOK
  <2> QED
    BY <1>3, <2>1, CloseUnderLockType DEF CloseInline, ConnTypeOK
<1>4. CASE Destroy(c)
  BY <1>4 DEF Destroy, SocketState, writeVars, ConnTypeOK
<1> QED
  BY <1>1, <1>2, <1>3, <1>4

\* The calls that others make on a connection, and the end of an observer, keep
\* its state well typed.
LEMMA CallType ==
    ASSUME ConnTypeOK, NEW c \in ConnId,
           \/ \E m \in Message : DeliverResponse(c, m)
           \/ \E o \in Observer, op \in {"AddObserver", "RemoveObserver"} : PostObserver(c, op, o)
           \/ \E o \in Observer : ObserverExpires(c, o)
    PROVE  ConnTypeOK'
<1>1. ASSUME NEW m \in Message, DeliverResponse(c, m)
      PROVE  ConnTypeOK'
  <2>1. /\ Append(buffer[c], m) \in Seq(Message) /\ Append(sent[c], m) \in Seq(Message)
        /\ <<m>> \in Seq(Message)
    BY AppendProperties DEF ConnTypeOK
  <2>2. CASE TrySendFails(c)
    BY <1>1, <2>2 DEF DeliverResponse, socketVars, ConnTypeOK
  <2>3. CASE ~TrySendFails(c) /\ writer[c] = "receiving"
    BY <1>1, <2>1, <2>3 DEF DeliverResponse, TrySend, WriterPc, socketVars, ConnTypeOK
  <2>4. CASE ~TrySendFails(c) /\ writer[c] # "receiving"
    BY <1>1, <2>1, <2>4 DEF DeliverResponse, TrySend, socketVars, ConnTypeOK
  <2> QED
    BY <2>2, <2>3, <2>4
<1>2. ASSUME NEW o \in Observer, NEW op \in {"AddObserver", "RemoveObserver"}, PostObserver(c, op, o)
      PROVE  ConnTypeOK'
  <2>1. Append(strand[c], [op |-> op, observer |-> o]) \in Seq(Handler)
    <3>1. [op |-> op, observer |-> o] \in Handler
      BY DEF Handler
    <3> QED
      BY <3>1, AppendProperties DEF ConnTypeOK
  <2> QED
    BY <1>2, <2>1 DEF PostObserver, writeVars, ConnTypeOK
<1>3. ASSUME NEW o \in Observer, ObserverExpires(c, o)
      PROVE  ConnTypeOK'
  BY <1>3 DEF ObserverExpires, RemoveObserver, writeVars, ConnTypeOK
<1> QED
  BY <1>1, <1>2, <1>3

\* A connection that does not exist yet is well typed.
LEMMA ConnInitType == ConnInit => ConnTypeOK
<1> SUFFICES ASSUME ConnInit PROVE ConnTypeOK
  OBVIOUS
<1>1. socket \in [ConnId -> SocketState] /\ observers \in [ConnId -> [Observer -> Nat]]
  BY DEF ConnInit, SocketState
<1>2. reader \in [ConnId -> ReaderPc] /\ writer \in [ConnId -> WriterPc]
  BY DEF ConnInit, ReaderPc, WriterPc
<1>3. strand \in [ConnId -> Seq(Handler)]
  BY DEF ConnInit
<1>4. /\ inflight \in [ConnId -> Seq(Message)]
      /\ channel \in [ConnId -> {"open", "closed"}]
      /\ buffer \in [ConnId -> Seq(Message)]
      /\ sent \in [ConnId -> Seq(Message)]
      /\ written \in [ConnId -> Seq(Message)]
  BY DEF ConnInit
<1> QED
  BY <1>1, <1>2, <1>3, <1>4 DEF ConnTypeOK

-----------------------------------------------------------------------------
(* What a step does.                                                       *)

\* CloseUnderLock closes an open socket and leaves any other as it is.
LEMMA CloseUnderLockEffect ==
    ASSUME ConnTypeOK, NEW c \in ConnId, NEW r, NEW w, CloseUnderLock(c, r, w)
    PROVE  /\ socket'[c] = IF socket[c] = "open" THEN "closed" ELSE socket[c]
           /\ \A d \in ConnId \ {c} :
                  socket'[d] = socket[d] /\ reader'[d] = reader[d] /\ writer'[d] = writer[d]
<1>1. CASE socket[c] = "open"
  BY <1>1 DEF CloseUnderLock, ConnTypeOK
<1>2. CASE socket[c] # "open"
  BY <1>2 DEF CloseUnderLock, ConnTypeOK
<1> QED
  BY <1>1, <1>2

-----------------------------------------------------------------------------
(* The write queue: what holds between any two steps of connection c.      *)

\* Every accepted response is written, held by RunWriteLoop or buffered.
ConservedAt(c) == sent[c] = written[c] \o inflight[c] \o buffer[c]

\* What RunWriteLoop holds, at each of its co_awaits.
HoldsAt(c) ==
    /\ writer[c] \in {"unstarted", "receiving", "wrote"} => inflight[c] = <<>>
    /\ writer[c] \in {"received", "writing"} => Len(inflight[c]) = 1
    /\ Len(inflight[c]) <= 1
    /\ Len(buffer[c]) <= Capacity

\* async_receive waits on an empty open channel only; async_write runs on an
\* open connection only; the channel closes with the socket.
OpenAt(c) ==
    /\ writer[c] = "receiving" => buffer[c] = <<>> /\ channel[c] = "open"
    /\ writer[c] = "writing" => channel[c] = "open"
    /\ channel[c] = "closed" => socket[c] \in {"closed", "destroyed"}

\* RunWriteLoop is spawned once.
SpawnedOnceAt(c) ==
    \A i \in 1..Len(strand[c]) : strand[c][i].op = "RunWriteLoop" =>
        /\ writer[c] = "unstarted"
        /\ \A j \in 1..Len(strand[c]) : strand[c][j].op = "RunWriteLoop" => j = i

QueueInvAt(c) == ConservedAt(c) /\ HoldsAt(c) /\ OpenAt(c) /\ SpawnedOnceAt(c)

\* Taking the head off a strand leaves at most the spawns there were, and none
\* of RunWriteLoop when that was the head.
LEMMA TakeSpawn ==
    ASSUME ConnTypeOK, NEW c \in ConnId, NEW op, SpawnedOnceAt(c), TakeHandler(c, op)
    PROVE  /\ op = "RunWriteLoop" => writer[c] = "unstarted"
           /\ writer'[c] = writer[c] \/ op = "RunWriteLoop" \/ writer[c] # "unstarted"
                => SpawnedOnceAt(c)'
<1>1. strand[c] \in Seq(Handler) /\ strand[c] # <<>> /\ strand'[c] = Tail(strand[c])
  BY DEF TakeHandler, ConnTypeOK
<1>2. /\ \A i \in 1..Len(strand'[c]) :
             i + 1 \in 1..Len(strand[c]) /\ strand'[c][i] = strand[c][i + 1]
      /\ Head(strand[c]) = strand[c][1]
      /\ 1 \in 1..Len(strand[c])
  BY <1>1, TailIndex
<1>3. Head(strand[c]).op = op
  BY DEF TakeHandler
<1>4. op = "RunWriteLoop" => writer[c] = "unstarted"
  BY <1>2, <1>3 DEF SpawnedOnceAt
<1>5. op = "RunWriteLoop" => \A i \in 1..Len(strand'[c]) : strand'[c][i].op # "RunWriteLoop"
  <2> SUFFICES ASSUME op = "RunWriteLoop", NEW i \in 1..Len(strand'[c]),
                      strand'[c][i].op = "RunWriteLoop"
               PROVE  FALSE
    OBVIOUS
  <2>1. i + 1 = 1
    BY <1>2, <1>3 DEF SpawnedOnceAt
  <2> QED
    BY <2>1
<1>6. \A i \in 1..Len(strand'[c]) : strand'[c][i].op = "RunWriteLoop" =>
          /\ writer[c] = "unstarted"
          /\ \A j \in 1..Len(strand'[c]) : strand'[c][j].op = "RunWriteLoop" => j = i
  <2> SUFFICES ASSUME NEW i \in 1..Len(strand'[c]), strand'[c][i].op = "RunWriteLoop"
               PROVE  /\ writer[c] = "unstarted"
                      /\ \A j \in 1..Len(strand'[c]) :
                             strand'[c][j].op = "RunWriteLoop" => j = i
    OBVIOUS
  <2>1. writer[c] = "unstarted"
    BY <1>2 DEF SpawnedOnceAt
  <2>2. ASSUME NEW j \in 1..Len(strand'[c]), strand'[c][j].op = "RunWriteLoop" PROVE j = i
    <3>1. j + 1 = i + 1
      BY <1>2, <2>2 DEF SpawnedOnceAt
    <3> QED
      BY <3>1
  <2> QED
    BY <2>1, <2>2
<1> QED
  BY <1>4, <1>5, <1>6 DEF SpawnedOnceAt

\* Posting a handler other than RunWriteLoop adds no spawn.
LEMMA PostSpawn ==
    ASSUME ConnTypeOK, NEW c \in ConnId, NEW h \in Handler, h.op # "RunWriteLoop",
           SpawnedOnceAt(c), writer'[c] = writer[c], strand'[c] = Append(strand[c], h)
    PROVE  SpawnedOnceAt(c)'
<1>1. strand[c] \in Seq(Handler)
  BY DEF ConnTypeOK
<1>2. /\ \A i \in 1..Len(strand[c]) : i \in 1..Len(strand'[c]) /\ strand'[c][i] = strand[c][i]
      /\ strand'[c][Len(strand[c]) + 1] = h
      /\ \A i \in 1..Len(strand'[c]) : i \in 1..Len(strand[c]) \/ i = Len(strand[c]) + 1
  BY <1>1, AppendIndex
<1> QED
  BY <1>2 DEF SpawnedOnceAt

\* Moving a response along the queue keeps what is accepted: handed to the
\* write loop, taken from the buffer, added behind it, or written.
LEMMA QueueMoves ==
    ASSUME NEW w \in Seq(Message), NEW i \in Seq(Message), NEW b \in Seq(Message),
           NEW m \in Message
    PROVE  /\ b # <<>> => w \o <<Head(b)>> \o Tail(b) = w \o <<>> \o b
           /\ Append(w \o <<>> \o <<>>, m) = w \o <<m>> \o <<>>
           /\ Append(w \o i \o b, m) = w \o i \o Append(b, m)
           /\ (w \o i) \o <<>> \o b = w \o i \o b
<1>e. <<>> \in Seq(Message) /\ <<m>> \in Seq(Message) /\ w \o i \in Seq(Message)
  BY ConcatProperties
<1>1. w \o <<>> = w /\ (w \o i) \o <<>> = w \o i
  BY <1>e, ConcatEmptySeq
<1>2. ASSUME b # <<>> PROVE w \o <<Head(b)>> \o Tail(b) = w \o <<>> \o b
  <2>1. Head(b) \in Message /\ Tail(b) \in Seq(Message) /\ <<Head(b)>> \in Seq(Message)
    BY <1>2, HeadTailProperties
  <2>2. b = <<Head(b)>> \o Tail(b)
    <3>1. <<Head(b)>> \o Tail(b) \in Seq(Message) /\ Len(<<Head(b)>>) = 1
      BY <2>1, ConcatProperties
    <3>2. Len(b) \in Nat \ {0} /\ Len(Tail(b)) = Len(b) - 1 /\ b[1] = Head(b)
      BY <1>2, EmptySeq, HeadTailProperties
    <3>3. Len(<<Head(b)>> \o Tail(b)) = Len(b)
      BY <2>1, <3>1, <3>2, ConcatProperties
    <3>4. ASSUME NEW k \in 1..Len(b) PROVE b[k] = (<<Head(b)>> \o Tail(b))[k]
      <4>1. (<<Head(b)>> \o Tail(b))[k] = IF k <= 1 THEN <<Head(b)>>[k] ELSE Tail(b)[k - 1]
        BY <2>1, <3>1, <3>2, <3>4, ConcatProperties
      <4>2. CASE k = 1
        BY <3>2, <4>1, <4>2
      <4>3. CASE k # 1
        <5>1. k - 1 \in 1..Len(Tail(b)) /\ Tail(b)[k - 1] = b[k]
          BY <1>2, <3>2, <4>3, TailIndex
        <5> QED
          BY <4>1, <4>3, <5>1
      <4> QED
        BY <4>2, <4>3
    <3> QED
      BY <3>1, <3>3, <3>4, SeqEqual
  <2>3. (w \o <<Head(b)>>) \o Tail(b) = w \o (<<Head(b)>> \o Tail(b))
    <3>1. \A x, y \in Seq(Message) : (w \o x) \o y = w \o (x \o y)
      BY ConcatAssociative
    <3> QED
      BY <2>1, <3>1, Zenon
  <2> QED
    BY <1>1, <2>2, <2>3
<1>3. Append(w \o <<>> \o <<>>, m) = w \o <<m>> \o <<>>
  <2>1. Append(w, m) = w \o <<m>> /\ w \o <<m>> \in Seq(Message)
    BY <1>e, AppendIsConcat, ConcatProperties
  <2>2. (w \o <<m>>) \o <<>> = w \o <<m>>
    BY <2>1, ConcatEmptySeq
  <2> QED
    BY <1>1, <2>1, <2>2
<1>4. Append(w \o i \o b, m) = w \o i \o Append(b, m)
  <2>1. (w \o i) \o b \in Seq(Message)
    BY <1>e, ConcatProperties
  <2>2. Append((w \o i) \o b, m) = ((w \o i) \o b) \o <<m>> /\ Append(b, m) = b \o <<m>>
    BY <2>1, AppendIsConcat
  <2>3. ((w \o i) \o b) \o <<m>> = (w \o i) \o (b \o <<m>>)
    BY <1>e, ConcatAssociative
  <2> QED
    BY <2>2, <2>3
<1> QED
  BY <1>1, <1>2, <1>3, <1>4

\* async_receive moves the head of the buffer into the write loop's hands.
LEMMA ReceiveQueue ==
    ASSUME ConnTypeOK, NEW c \in ConnId, QueueInvAt(c), inflight[c] = <<>>,
           StartReceive(c), UNCHANGED <<socket, channel, sent, written>>
    PROVE  ConservedAt(c)' /\ HoldsAt(c)' /\ OpenAt(c)'
<1> USE DEF QueueInvAt
<1>t. /\ written[c] \in Seq(Message) /\ inflight[c] \in Seq(Message) /\ buffer[c] \in Seq(Message)
      /\ channel[c] \in {"open", "closed"}
  BY DEF ConnTypeOK
<1>1. CASE buffer[c] # <<>>
  <2>1. /\ writer'[c] = "received" /\ inflight'[c] = <<Head(buffer[c])>>
        /\ buffer'[c] = Tail(buffer[c])
    BY <1>1 DEF StartReceive, ConnTypeOK
  <2>2. Head(buffer[c]) \in Message /\ Len(Tail(buffer[c])) <= Capacity
    BY <1>1, <1>t, CapacityAssumption, HeadTailProperties DEF HoldsAt
  <2>3. ConservedAt(c)'
    <3>1. written[c] \o <<Head(buffer[c])>> \o Tail(buffer[c]) = written[c] \o <<>> \o buffer[c]
      BY <1>1, <1>t, <2>2, QueueMoves
    <3> QED
      BY <2>1, <3>1 DEF ConservedAt
  <2>4. HoldsAt(c)'
    BY <2>1, <2>2 DEF HoldsAt
  <2> QED
    BY <2>1, <2>3, <2>4 DEF OpenAt
<1>2. CASE buffer[c] = <<>>
  <2>1. /\ writer'[c] = IF channel[c] = "open" THEN "receiving" ELSE "receiveFailed"
        /\ inflight'[c] = <<>> /\ buffer'[c] = <<>>
    BY <1>2 DEF StartReceive, ConnTypeOK
  <2>2. Len(inflight'[c]) = 0 /\ Len(buffer'[c]) = 0
    BY <2>1
  <2>3. HoldsAt(c)'
    BY <2>1, <2>2, CapacityAssumption DEF HoldsAt
  <2> QED
    BY <1>2, <2>1, <2>3 DEF ConservedAt, OpenAt
<1> QED
  BY <1>1, <1>2

\* CloseUnderLock leaves what is queued where it is, and wakes the write loop.
LEMMA CloseQueue ==
    ASSUME ConnTypeOK, NEW c \in ConnId, QueueInvAt(c), NEW r, NEW w \in {writer[c], "done"},
           CloseUnderLock(c, r, w), UNCHANGED <<inflight, buffer, sent, written>>
    PROVE  /\ ConservedAt(c)' /\ HoldsAt(c)' /\ OpenAt(c)'
           /\ writer[c] = "unstarted" => writer'[c] \in {"unstarted", "done"}
           /\ w = writer[c] /\ writer[c] = "unstarted" => writer'[c] = "unstarted"
<1> USE DEF QueueInvAt
<1>1. /\ writer'[c] = IF socket[c] = "open" THEN AbortWrite(w) ELSE w
      /\ channel'[c] = IF socket[c] = "open" THEN "closed" ELSE channel[c]
      /\ socket'[c] = IF socket[c] = "open" THEN "closed" ELSE socket[c]
  BY DEF CloseUnderLock, ConnTypeOK
<1>2. ConservedAt(c)'
  BY DEF ConservedAt
<1>3. HoldsAt(c)'
  BY <1>1 DEF HoldsAt, AbortWrite
<1>4. OpenAt(c)'
  BY <1>1 DEF OpenAt, AbortWrite
<1> QED
  BY <1>1, <1>2, <1>3, <1>4 DEF AbortWrite

\* The handlers of c's strand.
LEMMA RunsHandlerQueue ==
    ASSUME ConnTypeOK, NEW c \in ConnId, QueueInvAt(c), RunsHandler(c)
    PROVE  QueueInvAt(c)'
<1> USE DEF QueueInvAt
<1>1. CASE RunAddObserver(c) \/ RunRemoveObserver(c) \/ RunReadLoopStart(c)
  <2>1. PICK op : TakeHandler(c, op)
    BY <1>1 DEF RunAddObserver, RunRemoveObserver, RunReadLoopStart
  <2>2. UNCHANGED <<socket, writeVars>>
    BY <1>1 DEF RunAddObserver, RunRemoveObserver, RunReadLoopStart
  <2>3. SpawnedOnceAt(c)'
    BY <2>1, <2>2, TakeSpawn DEF writeVars
  <2> QED
    BY <2>2, <2>3 DEF writeVars, ConservedAt, HoldsAt, OpenAt
<1>2. CASE RunWriteLoopStart(c)
  <2>1. writer[c] = "unstarted" /\ SpawnedOnceAt(c)'
    BY <1>2, TakeSpawn DEF RunWriteLoopStart
  <2>2. inflight[c] = <<>>
    BY <2>1 DEF HoldsAt
  <2> QED
    BY <1>2, <2>1, <2>2, ReceiveQueue DEF RunWriteLoopStart
<1>3. CASE RunClose(c)
  <2>1. /\ ConservedAt(c)' /\ HoldsAt(c)' /\ OpenAt(c)'
        /\ writer[c] = "unstarted" => writer'[c] = "unstarted"
    BY <1>3, CloseQueue DEF RunClose
  <2>2. SpawnedOnceAt(c)'
    BY <1>3, <2>1, TakeSpawn DEF RunClose
  <2> QED
    BY <2>1, <2>2
<1> QED
  BY <1>1, <1>2, <1>3 DEF RunsHandler

\* The resumed loops, and the kernel.
LEMMA LoopsQueue ==
    ASSUME ConnTypeOK, NEW c \in ConnId, QueueInvAt(c),
           ReadLoopNotifies(c) \/ ReadLoopFails(c) \/ ResumesWriter(c) \/ KernelStep(c)
    PROVE  QueueInvAt(c)'
<1> USE DEF QueueInvAt
<1>1. CASE ReadLoopNotifies(c) \/ \E ec \in {"data", "eof", "error"} : ReadCompletes(c, ec)
  BY <1>1 DEF ReadLoopNotifies, ReadCompletes, writeVars, ConservedAt, HoldsAt, OpenAt,
              SpawnedOnceAt
<1>2. CASE ReadLoopFails(c)
  <2>1. /\ ConservedAt(c)' /\ HoldsAt(c)' /\ OpenAt(c)'
        /\ writer[c] = "unstarted" => writer'[c] = "unstarted"
    BY <1>2, CloseQueue DEF ReadLoopFails
  <2> QED
    BY <1>2, <2>1 DEF ReadLoopFails, SpawnedOnceAt
<1>3. CASE WriteLoopFails(c)
  <2>1. ConservedAt(c)' /\ HoldsAt(c)' /\ OpenAt(c)'
    BY <1>3, CloseQueue DEF WriteLoopFails
  <2> QED
    BY <1>3, <2>1 DEF WriteLoopFails, WriteFailed, SpawnedOnceAt
<1>4. CASE WriteLoopReceives(c)
  <2>1. inflight[c] = <<>> /\ writer[c] = "wrote" /\ UNCHANGED strand
    BY <1>4 DEF WriteLoopReceives, HoldsAt, socketVars
  <2>2. ConservedAt(c)' /\ HoldsAt(c)' /\ OpenAt(c)'
    BY <1>4, <2>1, ReceiveQueue DEF WriteLoopReceives, socketVars
  <2> QED
    BY <2>1, <2>2 DEF SpawnedOnceAt
<1>5. CASE WriteLoopWrites(c) \/ WriteFails(c)
  <2>1. /\ writer[c] \in {"received", "writing"} /\ UNCHANGED <<socketVars, inflight, channel, buffer, sent, written>>
        /\ writer'[c] \in {"writing", "writeFailed"}
        /\ writer'[c] = "writing" => socket[c] = "open"
    BY <1>5 DEF WriteLoopWrites, WriteFails, ConnTypeOK
  <2>2. channel[c] \in {"open", "closed"}
    BY DEF ConnTypeOK
  <2>3. OpenAt(c)'
    BY <2>1, <2>2 DEF OpenAt, socketVars
  <2>4. HoldsAt(c)'
    BY <2>1 DEF HoldsAt
  <2> QED
    BY <2>1, <2>3, <2>4 DEF socketVars, ConservedAt, SpawnedOnceAt
<1>6. CASE WriteSucceeds(c)
  <2>1. /\ writer[c] = "writing" /\ writer'[c] = "wrote"
        /\ written'[c] = written[c] \o inflight[c] /\ inflight'[c] = <<>>
        /\ UNCHANGED <<socketVars, channel, buffer, sent>>
    BY <1>6 DEF WriteSucceeds, ConnTypeOK
  <2>2. ConservedAt(c)'
    <3>1. written[c] \in Seq(Message) /\ inflight[c] \in Seq(Message) /\ buffer[c] \in Seq(Message)
      BY DEF ConnTypeOK
    <3>2. written[c] \o inflight[c] \in Seq(Message)
      BY <3>1, ConcatProperties
    <3>3. (written[c] \o inflight[c]) \o <<>> = written[c] \o inflight[c]
      BY <3>2, ConcatEmptySeq
    <3> QED
      BY <2>1, <3>3 DEF ConservedAt
  <2>3. HoldsAt(c)' /\ OpenAt(c)'
    BY <2>1 DEF HoldsAt, OpenAt, socketVars
  <2> QED
    BY <2>1, <2>2, <2>3 DEF socketVars, SpawnedOnceAt
<1> QED
  BY <1>1, <1>2, <1>3, <1>4, <1>5, <1>6 DEF ResumesWriter, KernelStep

\* DeliverResponse: an accepted response goes to the waiting write loop, and
\* then nothing is before it, or behind all that is buffered.
LEMMA DeliverQueue ==
    ASSUME ConnTypeOK, NEW c \in ConnId, QueueInvAt(c), NEW m \in Message, DeliverResponse(c, m)
    PROVE  QueueInvAt(c)'
<1> USE DEF QueueInvAt
<1>t. /\ written[c] \in Seq(Message) /\ inflight[c] \in Seq(Message) /\ buffer[c] \in Seq(Message)
      /\ channel[c] \in {"open", "closed"}
  BY DEF ConnTypeOK
<1>u. UNCHANGED <<socket, strand, channel, written>>
  BY DEF DeliverResponse, socketVars
<1>1. CASE TrySendFails(c)
  BY <1>1, <1>u DEF DeliverResponse, ConservedAt, HoldsAt, OpenAt, SpawnedOnceAt
<1>2. CASE ~TrySendFails(c) /\ writer[c] = "receiving"
  <2>1. /\ writer'[c] = "received" /\ inflight'[c] = <<m>> /\ UNCHANGED buffer
        /\ sent'[c] = Append(sent[c], m)
    BY <1>2 DEF DeliverResponse, TrySend, ConnTypeOK
  <2>2. inflight[c] = <<>> /\ buffer[c] = <<>>
    BY <1>2 DEF HoldsAt, OpenAt
  <2>3. ConservedAt(c)'
    <3>1. Append(written[c] \o <<>> \o <<>>, m) = written[c] \o <<m>> \o <<>>
      BY <1>t, QueueMoves
    <3> QED
      BY <1>u, <2>1, <2>2, <3>1 DEF ConservedAt
  <2>4. HoldsAt(c)'
    BY <2>1 DEF HoldsAt
  <2>5. OpenAt(c)' /\ SpawnedOnceAt(c)'
    BY <1>2, <1>u, <2>1 DEF OpenAt, SpawnedOnceAt
  <2> QED
    BY <2>3, <2>4, <2>5
<1>3. CASE ~TrySendFails(c) /\ writer[c] # "receiving"
  <2>1. /\ buffer'[c] = Append(buffer[c], m) /\ UNCHANGED <<writer, inflight>>
        /\ sent'[c] = Append(sent[c], m) /\ Len(buffer[c]) < Capacity
    BY <1>t, <1>3, CapacityAssumption DEF DeliverResponse, TrySend, TrySendFails, ConnTypeOK
  <2>2. ConservedAt(c)'
    <3>1. Append(written[c] \o inflight[c] \o buffer[c], m) =
            written[c] \o inflight[c] \o Append(buffer[c], m)
      <4>1. \A w, i, b \in Seq(Message) : Append(w \o i \o b, m) = w \o i \o Append(b, m)
        BY QueueMoves
      <4> QED
        BY <1>t, <4>1, Zenon
    <3> QED
      BY <1>u, <2>1, <3>1 DEF ConservedAt
  <2>3. Len(buffer'[c]) <= Capacity
    BY <1>t, <2>1, AppendProperties, CapacityAssumption
  <2>4. HoldsAt(c)'
    BY <2>1, <2>3 DEF HoldsAt
  <2>5. OpenAt(c)' /\ SpawnedOnceAt(c)'
    BY <1>3, <1>u, <2>1 DEF OpenAt, SpawnedOnceAt
  <2> QED
    BY <2>2, <2>4, <2>5
<1> QED
  BY <1>1, <1>2, <1>3

\* The life of the connection: accepting, closing and destroying it, and the
\* calls of AddObserver and RemoveObserver.
LEMMA LifeQueue ==
    ASSUME ConnTypeOK, NEW c \in ConnId, QueueInvAt(c),
           \/ writer[c] = "unstarted" /\ \E o \in Observer : Connect(c, o)
           \/ PostClose(c)
           \/ \E o \in Observer : PostObserver(c, "AddObserver", o) \/ PostObserver(c, "RemoveObserver", o)
           \/ \E o \in Observer : ObserverExpires(c, o)
           \/ Destroy(c)
    PROVE  QueueInvAt(c)'
<1> USE DEF QueueInvAt
<1>u. UNCHANGED writeVars
  BY DEF Connect, PostClose, PostObserver, ObserverExpires, Destroy
<1>1. ConservedAt(c)' /\ HoldsAt(c)'
  BY <1>u DEF writeVars, ConservedAt, HoldsAt
<1>2. OpenAt(c)'
  BY <1>u DEF writeVars, OpenAt, Connect, PostClose, PostObserver, ObserverExpires, Destroy, ConnTypeOK
<1>3. SpawnedOnceAt(c)'
  <2>1. ASSUME NEW o \in Observer, writer[c] = "unstarted", Connect(c, o)
        PROVE  SpawnedOnceAt(c)'
    <3>1. strand'[c] = <<[op |-> "AddObserver", observer |-> o], [op |-> "RunReadLoop"],
                         [op |-> "RunWriteLoop"]>>
      BY <2>1 DEF Connect, ConnectHandlers, ConnTypeOK
    <3>2. \A i \in 1..Len(strand'[c]) : strand'[c][i].op = "RunWriteLoop" => i = 3
      BY <3>1
    <3> QED
      BY <1>u, <2>1, <3>2 DEF writeVars, SpawnedOnceAt
  <2>2. writer'[c] = writer[c]
    BY <1>u DEF writeVars
  <2>3. CASE PostClose(c)
    <3>1. strand'[c] = Append(strand[c], CloseHandler)
      BY <2>3 DEF PostClose, ConnTypeOK
    <3>2. CloseHandler \in Handler /\ CloseHandler.op # "RunWriteLoop"
      BY DEF CloseHandler, Handler
    <3> QED
      BY <2>2, <3>1, <3>2, PostSpawn
  <2>4. ASSUME NEW o \in Observer, NEW op \in {"AddObserver", "RemoveObserver"}, PostObserver(c, op, o)
        PROVE  SpawnedOnceAt(c)'
    <3> DEFINE h == [op |-> op, observer |-> o]
    <3>1. strand'[c] = Append(strand[c], h)
      BY <2>4 DEF PostObserver, ConnTypeOK
    <3>2. h \in Handler /\ h.op # "RunWriteLoop"
      BY DEF Handler
    <3> HIDE DEF h
    <3> QED
      BY <2>2, <3>1, <3>2, PostSpawn
  <2>5. CASE Destroy(c) \/ \E o \in Observer : ObserverExpires(c, o)
    BY <1>u, <2>5 DEF Destroy, ObserverExpires, writeVars, SpawnedOnceAt
  <2> QED
    BY <2>1, <2>3, <2>4, <2>5
<1> QED
  BY <1>1, <1>2, <1>3
=============================================================================
