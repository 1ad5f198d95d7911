--------------------------- MODULE AsioConnection ---------------------------
(***************************************************************************)
(* server/AsioConnection.{h,cc}: one TCP client.                           *)
(*                                                                         *)
(* A connection owns a socket, a strand (a FIFO of posted handlers that    *)
(* run one at a time), a bounded channel of responses (m_writeQueue) and   *)
(* two coroutines on the strand, RunReadLoop and RunWriteLoop.  Every      *)
(* handler and every stretch of a coroutine between two co_awaits is one   *)
(* action.  An asynchronous operation is started by one action, completes  *)
(* in the kernel (or is aborted by CloseUnderLock) in a second one, and    *)
(* its coroutine is resumed by a third: the completion travels through the *)
(* io_context before it reaches the strand, so it is not ordered with the  *)
(* handlers that were posted meanwhile, and a completion that has already  *)
(* happened keeps its result when the socket is closed before the resume.  *)
(*                                                                         *)
(* The variables are functions over ConnId.  The module has no next-state  *)
(* relation of its own: Server and SessionConnection compose its actions   *)
(* with the observers that Disconnects and ReadLoopNotifies(c) call.       *)
(***************************************************************************)
EXTENDS Naturals, Sequences

CONSTANTS
    ConnId,     \* IConnection::ConnId
    Observer,   \* the IConnectionObserver objects
    Message,    \* irc::Message, opaque here
    Capacity    \* kWriteQueueDefaultCapacity

ASSUME CapacityAssumption == Capacity \in Nat \ {0}

VARIABLES
    socket,     \* m_socket, and the life of the object around it
    strand,     \* m_strand: the handlers posted and not yet run
    observers,  \* Observable::m_observers: how often each observer is in it
    reader,     \* where RunReadLoop is
    writer,     \* where RunWriteLoop is
    inflight,   \* the message RunWriteLoop holds: none or one
    channel,    \* m_writeQueue: does it accept messages
    buffer,     \* m_writeQueue: the messages it holds
    sent,       \* history: the messages DeliverResponse accepted
    written     \* history: the messages whose async_write succeeded

socketVars == <<socket, strand, observers, reader>>
writeVars  == <<writer, inflight, channel, buffer, sent, written>>
connVars   == <<socketVars, writeVars>>

-----------------------------------------------------------------------------
(* Program counters.                                                       *)

SocketState == {"none", "open", "closed", "destroyed"}

\* "reading": async_read_some is outstanding; "data", "eof", "aborted" and
\* "error": it has completed that way and the coroutine is not resumed yet.
ReaderPc == {"unstarted", "reading", "data", "eof", "aborted", "error", "done"}

ReadFailed == {"eof", "aborted", "error"}

\* "receiving" and "writing": async_receive, async_write outstanding;
\* "received", "receiveFailed", "wrote", "writeFailed": completed so.
WriterPc == {"unstarted", "receiving", "received", "receiveFailed",
             "writing", "wrote", "writeFailed", "done"}

WriteFailed == {"receiveFailed", "writeFailed"}

Handler == [op : {"AddObserver", "RemoveObserver"}, observer : Observer]
             \cup [op : {"RunReadLoop", "RunWriteLoop", "Close"}]

CloseHandler == [op |-> "Close"]

\* Mutant of ConnectHandlers: OnConnected before AddObserver.
ConnectThenObserve(o) ==
    <<[op |-> "RunReadLoop"], [op |-> "RunWriteLoop"], [op |-> "AddObserver", observer |-> o]>>

\* What AddObserver(o) and then OnConnected() post: the observer and the two
\* co_spawns, read loop first.
ConnectHandlers(o) ==
    <<[op |-> "AddObserver", observer |-> o], [op |-> "RunReadLoop"], [op |-> "RunWriteLoop"]>>

ConnTypeOK ==
    /\ socket \in [ConnId -> SocketState]
    /\ strand \in [ConnId -> Seq(Handler)]
    /\ observers \in [ConnId -> [Observer -> Nat]]
    /\ reader \in [ConnId -> ReaderPc]
    /\ writer \in [ConnId -> WriterPc]
    /\ inflight \in [ConnId -> Seq(Message)]
    /\ channel \in [ConnId -> {"open", "closed"}]
    /\ buffer \in [ConnId -> Seq(Message)]
    /\ sent \in [ConnId -> Seq(Message)]
    /\ written \in [ConnId -> Seq(Message)]

ConnInit ==
    /\ socket = [c \in ConnId |-> "none"]
    /\ strand = [c \in ConnId |-> <<>>]
    /\ observers = [c \in ConnId |-> [o \in Observer |-> 0]]
    /\ reader = [c \in ConnId |-> "unstarted"]
    /\ writer = [c \in ConnId |-> "unstarted"]
    /\ inflight = [c \in ConnId |-> <<>>]
    /\ channel = [c \in ConnId |-> "open"]
    /\ buffer = [c \in ConnId |-> <<>>]
    /\ sent = [c \in ConnId |-> <<>>]
    /\ written = [c \in ConnId |-> <<>>]

\* The constructor on an accepted socket, then AddObserver(o) and
\* OnConnected(), whose handlers are posted in that order.
Connect(c, o) ==
    /\ socket[c] = "none"
    /\ socket' = [socket EXCEPT ![c] = "open"]
    /\ strand' = [strand EXCEPT ![c] = ConnectHandlers(o)]
    /\ UNCHANGED <<observers, reader, writeVars>>

-----------------------------------------------------------------------------
(* util/Observable.h.  m_observers is a vector of weak pointers: an        *)
(* observer that is added twice is in it, and is told, twice.  A pointer   *)
(* that has expired is never called, and the pruning of it (lazily, by     *)
(* EraseDeallocated) cannot be seen: it is taken out when it expires.      *)

AddObserver(m_observers, o) == [m_observers EXCEPT ![o] = @ + 1]

\* Every entry of the observer is erased.
RemoveObserver(m_observers, o) == [m_observers EXCEPT ![o] = 0]

\* Notify calls o, as often as it was added.
Observes(c, o) == observers[c][o] > 0

\* The last shared_ptr to o goes.  A handler that is to add or remove o has
\* one.
ObserverExpires(c, o) ==
    /\ Observes(c, o)
    /\ \A i \in 1..Len(strand[c]) :
           strand[c][i].op \in {"AddObserver", "RemoveObserver"} => strand[c][i].observer # o
    /\ observers' = [observers EXCEPT ![c] = RemoveObserver(@, o)]
    /\ UNCHANGED <<socket, strand, reader, writeVars>>

-----------------------------------------------------------------------------
(* The write channel, asio::experimental::concurrent_channel (external).   *)

\* Mutant of StartReceive: the received message stays in the buffer.
StartReceivePeeks(c) ==
    /\ writer' = [writer EXCEPT ![c] =
                     IF buffer[c] # <<>> THEN "received"
                     ELSE IF channel[c] = "open" THEN "receiving" ELSE "receiveFailed"]
    /\ inflight' = [inflight EXCEPT ![c] =
                       IF buffer[c] # <<>> THEN <<Head(buffer[c])>> ELSE <<>>]
    /\ UNCHANGED buffer

\* Starting async_receive: a buffered message completes it at once, also
\* after close(); a closed empty channel fails it; else it waits.
StartReceive(c) ==
    IF buffer[c] # <<>>
      THEN /\ writer' = [writer EXCEPT ![c] = "received"]
           /\ inflight' = [inflight EXCEPT ![c] = <<Head(buffer[c])>>]
           /\ buffer' = [buffer EXCEPT ![c] = Tail(@)]
      ELSE /\ writer' = [writer EXCEPT ![c] =
                            IF channel[c] = "open" THEN "receiving" ELSE "receiveFailed"]
           /\ inflight' = [inflight EXCEPT ![c] = <<>>]
           /\ UNCHANGED buffer

\* Mutant of TrySendFails: the capacity check is off by one.
TrySendOverfills(c) ==
    \/ channel[c] = "closed"
    \/ writer[c] # "receiving" /\ Len(buffer[c]) > Capacity

\* try_send fails on a full channel with nobody waiting, and on a closed one.
TrySendFails(c) ==
    \/ channel[c] = "closed"
    \/ writer[c] # "receiving" /\ Len(buffer[c]) >= Capacity

\* Does a failed try_send(ec, message) set ec?  Its arguments are the message
\* to send (an error_code and an irc::Message), so ec is copied, never set.
TrySendSetsEc(c) == FALSE

\* Mutant of TrySend: a waiting receiver is not woken.
TrySendOnlyBuffers(c, m) ==
    /\ buffer' = [buffer EXCEPT ![c] = Append(@, m)]
    /\ UNCHANGED <<writer, inflight>>

\* try_send succeeding hands the message to the waiting async_receive, or
\* puts it at the end of the buffer.
TrySend(c, m) ==
    IF writer[c] = "receiving"
      THEN /\ writer' = [writer EXCEPT ![c] = "received"]
           /\ inflight' = [inflight EXCEPT ![c] = <<m>>]
           /\ UNCHANGED buffer
      ELSE /\ buffer' = [buffer EXCEPT ![c] = Append(@, m)]
           /\ UNCHANGED <<writer, inflight>>

\* The WriteResult of DeliverResponse.
DeliverResult(c) ==
    IF ~TrySendFails(c) THEN "Sent"
    ELSE IF TrySendSetsEc(c) THEN "Closed"
    ELSE "Backpressure"

\* DeliverResponse(m), called on any thread.
DeliverResponse(c, m) ==
    /\ IF TrySendFails(c)
         THEN UNCHANGED <<writer, inflight, buffer, sent>>
         ELSE TrySend(c, m) /\ sent' = [sent EXCEPT ![c] = Append(@, m)]
    /\ UNCHANGED <<socketVars, channel, written>>

-----------------------------------------------------------------------------
(* Closing.                                                                *)

\* Mutant of AbortRead: the read completes as the channel's receive does.
AbortReadAsReceive(pc) == IF pc = "reading" THEN "receiveFailed" ELSE pc

\* Mutant of AbortWrite: the channel is neither closed nor cancelled.
AbortWriteOnly(pc) == IF pc = "writing" THEN "writeFailed" ELSE pc

\* What closing the socket does to an outstanding read, and what closing and
\* cancelling the channel and closing the socket do to the write loop's
\* outstanding operation.  Completed operations keep their results.
AbortRead(pc)  == IF pc = "reading" THEN "aborted" ELSE pc

AbortWrite(pc) ==
    CASE pc = "receiving" -> "receiveFailed"
      [] pc = "writing"   -> "writeFailed"
      [] OTHER            -> pc

\* CloseUnderLock, called with the read loop at r and the write loop at w.
\* Disconnects(c) holds of the step when it goes past its early return.
CloseUnderLock(c, r, w) ==
    IF socket[c] # "open"
      THEN /\ reader' = [reader EXCEPT ![c] = r]
           /\ writer' = [writer EXCEPT ![c] = w]
           /\ UNCHANGED <<socket, channel>>
      ELSE /\ socket' = [socket EXCEPT ![c] = "closed"]
           /\ channel' = [channel EXCEPT ![c] = "closed"]
           /\ reader' = [reader EXCEPT ![c] = AbortRead(r)]
           /\ writer' = [writer EXCEPT ![c] = AbortWrite(w)]

\* Mutant of Disconnects: no early return, every Close notifies.
DisconnectsAgain(c) == socket[c] # "none" /\ socket'[c] = "closed"

\* NotifyDisconnect is called in this step, and calls observers[c].
Disconnects(c) == socket[c] = "open" /\ socket'[c] = "closed"

\* Close(), called off the strand: dispatch puts CloseUnderLock on it.
PostClose(c) ==
    /\ strand' = [strand EXCEPT ![c] = Append(@, CloseHandler)]
    /\ UNCHANGED <<socket, observers, reader, writeVars>>

\* Close() on an idle strand, from a thread that is running the io_context:
\* dispatch runs CloseUnderLock before it returns.
CloseInline(c) ==
    /\ strand[c] = <<>>
    /\ CloseUnderLock(c, reader[c], writer[c])
    /\ UNCHANGED <<strand, observers, inflight, buffer, sent, written>>

-----------------------------------------------------------------------------
(* Handlers that the strand runs, in the order they were posted.           *)

\* The strand's next handler is an op, and this step takes it.
TakeHandler(c, op) ==
    /\ strand[c] # <<>>
    /\ Head(strand[c]).op = op
    /\ strand' = [strand EXCEPT ![c] = Tail(@)]

RunAddObserver(c) ==
    /\ TakeHandler(c, "AddObserver")
    /\ observers' = [observers EXCEPT ![c] = AddObserver(@, Head(strand[c]).observer)]
    /\ UNCHANGED <<socket, reader, writeVars>>

RunRemoveObserver(c) ==
    /\ TakeHandler(c, "RemoveObserver")
    /\ observers' = [observers EXCEPT ![c] = RemoveObserver(@, Head(strand[c]).observer)]
    /\ UNCHANGED <<socket, reader, writeVars>>

\* AddObserver(o) and RemoveObserver(o) called later, on any thread.
PostObserver(c, op, o) ==
    /\ strand' = [strand EXCEPT ![c] = Append(@, [op |-> op, observer |-> o])]
    /\ UNCHANGED <<socket, observers, reader, writeVars>>

\* Starting async_read_some on a closed socket fails at once.
StartRead(c) ==
    reader' = [reader EXCEPT ![c] = IF socket[c] = "open" THEN "reading" ELSE "error"]

RunReadLoopStart(c) ==
    /\ TakeHandler(c, "RunReadLoop")
    /\ StartRead(c)
    /\ UNCHANGED <<socket, observers, writeVars>>

RunWriteLoopStart(c) ==
    /\ TakeHandler(c, "RunWriteLoop")
    /\ StartReceive(c)
    /\ UNCHANGED <<socket, observers, reader, channel, sent, written>>

RunClose(c) ==
    /\ TakeHandler(c, "Close")
    /\ CloseUnderLock(c, reader[c], writer[c])
    /\ UNCHANGED <<observers, inflight, buffer, sent, written>>

-----------------------------------------------------------------------------
(* The coroutines.                                                         *)

\* The kernel completes the outstanding read: bytes, end of file, an error.
ReadCompletes(c, ec) ==
    /\ reader[c] = "reading"
    /\ ec \in {"data", "eof", "error"}
    /\ reader' = [reader EXCEPT ![c] = ec]
    /\ UNCHANGED <<socket, strand, observers, writeVars>>

\* RunReadLoop resumed with bytes: it parses them, calls NotifyMessage for
\* each message they complete (the composing module says how many) and reads
\* again.  An Invalid or Incomplete parse also goes back to reading.
ReadLoopNotifies(c) ==
    /\ reader[c] = "data"
    /\ StartRead(c)
    /\ UNCHANGED <<socket, strand, observers, writeVars>>

\* RunReadLoop resumed with an error: Close(), run inline as this is the
\* strand, and co_return.
ReadLoopFails(c) ==
    /\ reader[c] \in ReadFailed
    /\ CloseUnderLock(c, "done", writer[c])
    /\ UNCHANGED <<strand, observers, inflight, buffer, sent, written>>

\* RunWriteLoop resumed with a message: WriteToBuffer and async_write, which
\* fails at once on a closed socket.
WriteLoopWrites(c) ==
    /\ writer[c] = "received"
    /\ writer' = [writer EXCEPT ![c] =
                     IF socket[c] = "open" THEN "writing" ELSE "writeFailed"]
    /\ UNCHANGED <<socketVars, inflight, channel, buffer, sent, written>>

\* The kernel completes the outstanding async_write, or fails it.
WriteSucceeds(c) ==
    /\ writer[c] = "writing"
    /\ writer' = [writer EXCEPT ![c] = "wrote"]
    /\ written' = [written EXCEPT ![c] = @ \o inflight[c]]
    /\ inflight' = [inflight EXCEPT ![c] = <<>>]
    /\ UNCHANGED <<socketVars, channel, buffer, sent>>

WriteFails(c) ==
    /\ writer[c] = "writing"
    /\ writer' = [writer EXCEPT ![c] = "writeFailed"]
    /\ UNCHANGED <<socketVars, inflight, channel, buffer, sent, written>>

\* RunWriteLoop resumed after a write: it receives the next message.
WriteLoopReceives(c) ==
    /\ writer[c] = "wrote"
    /\ StartReceive(c)
    /\ UNCHANGED <<socketVars, channel, sent, written>>

\* RunWriteLoop resumed with an error: Close() inline and co_return.
WriteLoopFails(c) ==
    /\ writer[c] \in WriteFailed
    /\ CloseUnderLock(c, reader[c], "done")
    /\ UNCHANGED <<strand, observers, inflight, buffer, sent, written>>

-----------------------------------------------------------------------------
(* The end of the object.                                                  *)

\* Mutant of HoldsItself: the coroutines capture this and no shared_ptr.
HandlersHold(c) == strand[c] # <<>>

\* A posted handler or a live coroutine holds a shared_ptr to the connection.
HoldsItself(c) ==
    \/ strand[c] # <<>>
    \/ reader[c] \notin {"unstarted", "done"}
    \/ writer[c] \notin {"unstarted", "done"}

\* ~AsioConnection, once the last shared_ptr is gone.  CloseUnderLock returns
\* early on a closed socket; on an open one its CHECK would end the process,
\* which NeverDestroyedOpen rules out.
Destroy(c) ==
    /\ socket[c] \in {"open", "closed"}
    /\ ~HoldsItself(c)
    /\ socket' = [socket EXCEPT ![c] = "destroyed"]
    /\ UNCHANGED <<strand, observers, reader, writeVars>>

\* Something of c may be waiting in its strand: a posted handler, or a
\* completed operation whose coroutine is to be resumed.
MayBeQueued(c) ==
    \/ strand[c] # <<>>
    \/ reader[c] \notin {"unstarted", "reading", "done"}
    \/ writer[c] \notin {"unstarted", "receiving", "writing", "done"}

-----------------------------------------------------------------------------
\* The strand runs the handler at its head.
RunsHandler(c) ==
    \/ RunAddObserver(c)
    \/ RunRemoveObserver(c)
    \/ RunReadLoopStart(c)
    \/ RunWriteLoopStart(c)
    \/ RunClose(c)

\* The strand resumes the write loop.
ResumesWriter(c) ==
    \/ WriteLoopWrites(c)
    \/ WriteLoopReceives(c)
    \/ WriteLoopFails(c)

\* What the kernel decides about c's outstanding operations.
KernelStep(c) ==
    \/ \E ec \in {"data", "eof", "error"} : ReadCompletes(c, ec)
    \/ WriteSucceeds(c)
    \/ WriteFails(c)
=============================================================================
