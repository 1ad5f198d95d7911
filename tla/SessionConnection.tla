------------------------- MODULE SessionConnection -------------------------
(***************************************************************************)
(* server/SessionConnectionObserver.{h,cc}: the adapter between a          *)
(* connection and an irc::Session, composed with the connections of        *)
(* AsioConnection.                                                         *)
(*                                                                         *)
(* The adapter is attached the way Server attaches itself: AddObserver     *)
(* before OnConnected.  It turns OnMessage into Session::AcceptMessage and *)
(* OnDisconnect into Session::Close, and hands the responses the session   *)
(* emits to DeliverResponse.  A second observer is added, also more than   *)
(* once, is removed, and may be freed while it is observing.  The holder   *)
(* of an IConnection pointer may call DeliverResponse and Close.           *)
(* irc::Session is external here: the repository only declares it.         *)
(***************************************************************************)
EXTENDS AsioConnection

CONSTANTS
    SessionObserver,   \* the SessionConnectionObserver
    MaxPerRead,        \* bound: messages completed by one read
    MaxReceived,       \* bound: messages received on a connection
    MaxCalls           \* bound: Close, AddObserver, RemoveObserver calls

ASSUME SessionAssumption ==
    /\ SessionObserver \in Observer
    /\ {MaxPerRead, MaxReceived, MaxCalls} \subseteq Nat
    /\ Message \subseteq Nat

VARIABLES
    m_session,     \* is m_session set
    m_connection,  \* is m_connection set
    calls,         \* history: the calls the Session received
    added,         \* history: the AddObserver calls that count at the disconnect
    disconnects,   \* history: how often OnDisconnect was called
    result,        \* the last WriteResult, "none" before the first
    owned,         \* does the holder still have its shared_ptr
    budget         \* calls the holder may still make (MaxCalls)

sessionVars == <<m_session, m_connection, calls, disconnects>>
holderVars  == <<result, owned, budget, added>>
vars == <<connVars, sessionVars, holderVars>>

TypeOK ==
    /\ ConnTypeOK
    /\ m_session \in [ConnId -> BOOLEAN]
    /\ m_connection \in [ConnId -> BOOLEAN]
    /\ calls \in [ConnId -> Seq({"AcceptMessage", "Close"})]
    /\ added \in [ConnId -> [Observer -> Nat]]
    /\ disconnects \in [ConnId -> [Observer -> Nat]]
    /\ result \in [ConnId -> {"none", "Sent", "Backpressure", "Closed"}]
    /\ owned \in [ConnId -> BOOLEAN]
    /\ budget \in [ConnId -> 0..MaxCalls]

Init ==
    /\ ConnInit
    /\ m_session = [c \in ConnId |-> FALSE]
    /\ m_connection = [c \in ConnId |-> FALSE]
    /\ calls = [c \in ConnId |-> <<>>]
    /\ added = [c \in ConnId |-> [o \in Observer |-> 0]]
    /\ disconnects = [c \in ConnId |-> [o \in Observer |-> 0]]
    /\ result = [c \in ConnId |-> "none"]
    /\ owned = [c \in ConnId |-> FALSE]
    /\ budget = [c \in ConnId |-> MaxCalls]

\* A connection and its session are created and tied together.
Attach(c) ==
    /\ Connect(c, SessionObserver)
    /\ m_session' = [m_session EXCEPT ![c] = TRUE]
    /\ m_connection' = [m_connection EXCEPT ![c] = TRUE]
    /\ owned' = [owned EXCEPT ![c] = TRUE]
    /\ UNCHANGED <<calls, added, disconnects, result, budget>>

-----------------------------------------------------------------------------
(* The adapter.                                                            *)

\* Mutant of OnMessage: no test of m_session.
OnMessageUnchecked(c, n) ==
    /\ calls' = [calls EXCEPT ![c] =
           IF Observes(c, SessionObserver)
             THEN @ \o [i \in 1..n |-> "AcceptMessage"]
             ELSE @]
    /\ UNCHANGED <<m_session, m_connection, disconnects>>

\* OnMessage for n messages in turn: AcceptMessage unless m_session is null.
OnMessage(c, n) ==
    /\ calls' = [calls EXCEPT ![c] =
           IF Observes(c, SessionObserver) /\ m_session[c]
             THEN @ \o [i \in 1..n |-> "AcceptMessage"]
             ELSE @]
    /\ UNCHANGED <<m_session, m_connection, disconnects>>

\* Mutant of OnDisconnect: m_connection is not reset.
OnDisconnectKeepsConnection(c) ==
    IF ~Disconnects(c) \/ ~Observes(c, SessionObserver)
      THEN UNCHANGED sessionVars
      ELSE /\ calls' = [calls EXCEPT ![c] = Append(@, "Close")]
           /\ m_session' = [m_session EXCEPT ![c] = FALSE]
           /\ UNCHANGED <<m_connection, disconnects>>

\* OnDisconnect of every observer, in a step that closes the socket: the
\* adapter closes its session, if any, and drops both pointers.
OnDisconnect(c) ==
    IF ~Disconnects(c)
      THEN UNCHANGED sessionVars
      ELSE LET adapted == Observes(c, SessionObserver) IN
           /\ disconnects' = [disconnects EXCEPT ![c] =
                  [o \in Observer |-> @[o] + observers[c][o]]]
           /\ calls' = [calls EXCEPT ![c] =
                  IF adapted /\ m_session[c] THEN Append(@, "Close") ELSE @]
           /\ m_session' = [m_session EXCEPT ![c] = @ /\ ~adapted]
           /\ m_connection' = [m_connection EXCEPT ![c] = @ /\ ~adapted]

\* DeliverResponse(m) and what it returns.  The code does not look at what it
\* sends, so the responses are numbered in the order they are accepted: each
\* is different, and Message bounds how many there are.
Deliver(c, m) ==
    /\ m = Len(sent[c]) + 1
    /\ DeliverResponse(c, m)
    /\ result' = [result EXCEPT ![c] = DeliverResult(c)]
    /\ UNCHANGED <<sessionVars, owned, budget, added>>

\* OnMessageEmitted: dropped when m_connection is null.
OnMessageEmitted(c, m) == m_connection[c] /\ Deliver(c, m)

-----------------------------------------------------------------------------
(* The holder of the connection.                                           *)

HolderDelivers(c, m) == owned[c] /\ Deliver(c, m)

Spend(c) ==
    /\ owned[c]
    /\ budget[c] > 0
    /\ budget' = [budget EXCEPT ![c] = @ - 1]

HolderCloses(c) ==
    /\ Spend(c)
    /\ PostClose(c)
    /\ UNCHANGED <<sessionVars, result, owned, added>>

HolderObserves(c, op, o) ==
    /\ Spend(c)
    /\ PostObserver(c, op, o)
    /\ UNCHANGED <<sessionVars, result, owned, added>>

HolderLetsGo(c) ==
    /\ owned[c]
    /\ owned' = [owned EXCEPT ![c] = FALSE]
    /\ UNCHANGED <<connVars, sessionVars, result, budget, added>>

\* The second observer is freed: the connection's weak pointers expire.
HolderFreesObserver(c, o) ==
    /\ ObserverExpires(c, o)
    /\ added' = [added EXCEPT ![c][o] = IF socket[c] = "open" THEN 0 ELSE @]
    /\ UNCHANGED <<sessionVars, result, owned, budget>>

-----------------------------------------------------------------------------
(* The strand and the kernel.                                              *)

\* The AddObserver handlers that ran since the last RemoveObserver, up to the
\* disconnect.
CountsAdded(c) ==
    LET h == Head(strand[c]) IN
    added' = IF socket[c] # "open" THEN added
             ELSE CASE h.op = "AddObserver"    -> [added EXCEPT ![c][h.observer] = @ + 1]
                    [] h.op = "RemoveObserver" -> [added EXCEPT ![c][h.observer] = 0]
                    [] OTHER                   -> added

StrandHandler(c) ==
    /\ RunsHandler(c)
    /\ OnDisconnect(c)
    /\ CountsAdded(c)
    /\ UNCHANGED <<result, owned, budget>>

ReaderFails(c) ==
    /\ ReadLoopFails(c)
    /\ OnDisconnect(c)
    /\ UNCHANGED holderVars

ReaderNotifies(c, n) ==
    /\ n > 0 => Len(calls[c]) + n <= MaxReceived
    /\ ReadLoopNotifies(c)
    /\ OnMessage(c, n)
    /\ UNCHANGED holderVars

Writer(c) == ResumesWriter(c) /\ OnDisconnect(c) /\ UNCHANGED holderVars

Kernel(c) == KernelStep(c) /\ UNCHANGED <<sessionVars, holderVars>>

\* The last shared_ptr goes: neither the holder nor the adapter has one.
Release(c) ==
    /\ ~owned[c]
    /\ ~m_connection[c]
    /\ Destroy(c)
    /\ UNCHANGED <<sessionVars, holderVars>>

-----------------------------------------------------------------------------
Holder(c) ==
    \/ Attach(c)
    \/ \E m \in Message : HolderDelivers(c, m)
    \/ HolderCloses(c)
    \/ \E o \in Observer \ {SessionObserver} :
           \/ HolderObserves(c, "AddObserver", o)
           \/ HolderObserves(c, "RemoveObserver", o)
           \/ HolderFreesObserver(c, o)
    \/ HolderLetsGo(c)

ReaderResumes(c) == ReaderFails(c) \/ \E n \in 0..MaxPerRead : ReaderNotifies(c, n)

Next ==
    \E c \in ConnId :
        \/ Holder(c)
        \/ \E m \in Message : OnMessageEmitted(c, m)
        \/ StrandHandler(c)
        \/ ReaderResumes(c)
        \/ Writer(c)
        \/ Kernel(c)
        \/ Release(c)

(***************************************************************************)
(* Fairness: the workers keep running the strand's handlers and resuming   *)
(* its coroutines.  Nothing is assumed of the client, the kernel's reads   *)
(* and writes, the session or the holder.                                  *)
(***************************************************************************)
Fairness ==
    \A c \in ConnId :
        /\ WF_vars(StrandHandler(c))
        /\ WF_vars(ReaderResumes(c))
        /\ WF_vars(Writer(c))
        /\ WF_vars(Release(c))

Spec == Init /\ [][Next]_vars
FairSpec == Spec /\ Fairness

-----------------------------------------------------------------------------
(* Safety.                                                                 *)

\* DeliverResponse and RunWriteLoop together: every response DeliverResponse
\* accepted is written, held by the write loop or buffered, in the order of
\* acceptance; none is lost, doubled or overtaken, before and after a close.
ResponsesConserved ==
    \A c \in ConnId : sent[c] = written[c] \o inflight[c] \o buffer[c]

\* RunWriteLoop's async_receive waits only while there is nothing to write and
\* the channel can still wake it: neither a response nor a close is missed.
NoLostWakeup ==
    \A c \in ConnId :
        writer[c] = "receiving" => buffer[c] = <<>> /\ channel[c] = "open"

\* A read that completed before the close still reaches OnMessage after
\* OnDisconnect; the null check keeps it from the session.  Session::Close is
\* the last call a session gets, and it gets it once.
NothingAfterSessionClose ==
    \A c \in ConnId : \A i \in 1..Len(calls[c]) :
        calls[c][i] = "Close" => i = Len(calls[c])

\* AddObserver is posted before the loops start, so the adapter hears of every
\* close: a connection that is closed has closed its session, and the adapter
\* no longer holds it.
ClosedIsDetached ==
    \A c \in ConnId :
        socket[c] \in {"closed", "destroyed"} =>
            /\ ~m_session[c] /\ ~m_connection[c]
            /\ calls[c] # <<>> /\ calls[c][Len(calls[c])] = "Close"

\* Close(), a failed read and a failed write race to CloseUnderLock, and
\* Observable's vector changes meanwhile: an observer is told of the disconnect
\* at most once for each AddObserver that ran before it, and never when it was
\* removed or freed before it.
DisconnectedOnce ==
    \A c \in ConnId : \A o \in Observer : disconnects[c][o] <= added[c][o]

\* AsioConnection.cc on DeliverResponse: try_send sets ec when the channel has
\* been closed and does not when it is full, so a caller can tell the two.
ClosedIsReported ==
    [][\A c \in ConnId :
           channel[c] = "closed" /\ result'[c] # result[c] => result'[c] = "Closed"]_vars

-----------------------------------------------------------------------------
(* Liveness and refinement.                                                *)

\* CloseUnderLock cancels what both loops wait for: whatever they were doing
\* and whatever the client does, a closed connection is freed once its holder
\* lets go.  Neither the adapter's pointer nor a parked coroutine keeps it.
ClosedIsFreed ==
    \A c \in ConnId :
        socket[c] = "closed" /\ ~owned[c] ~> socket[c] = "destroyed"

Responses == INSTANCE ResponseQueue WITH
    Client    <- ConnId,
    accepted  <- sent,
    delivered <- written,
    open      <- [c \in ConnId |-> channel[c] = "open"],
    refused   <- [c \in ConnId |-> result[c] \in {"Backpressure", "Closed"}]

\* The write queue and the write loop implement ResponseQueue.
ResponsesInOrder == Responses!Spec
=============================================================================
