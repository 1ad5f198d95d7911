------------------------------- MODULE Server -------------------------------
(***************************************************************************)
(* server/Server.cc: the accept loop, the signal loop and the table of     *)
(* connections, composed with the connections of AsioConnection.           *)
(*                                                                         *)
(* The server has a strand of its own.  HandleSignals, AcceptConnections   *)
(* and the erase that OnDisconnect dispatches run on it; the connections'  *)
(* handlers run on theirs, all of them on the NumWorkers threads that call *)
(* m_io.run().  The server observes every connection it accepts and never  *)
(* calls DeliverResponse.                                                  *)
(***************************************************************************)
EXTENDS AsioConnection

CONSTANTS
    ServerObserver,        \* the Server as an IConnectionObserver
    NumWorkers,            \* IServerConfig::GetNumWorkers()
    MaxReloads,            \* bound: how many reload signals arrive
    AcceptorCloseMayThrow, \* may m_acceptor.close() throw asio::system_error
    CheckedIterators       \* a build in which flat_hash_map checks iterators
                           \* (Bazel's default fastbuild), or not (-c opt)

ASSUME ServerAssumption ==
    /\ ConnId \subseteq Nat
    /\ ServerObserver \in Observer
    /\ NumWorkers \in Nat
    /\ MaxReloads \in Nat
    /\ AcceptorCloseMayThrow \in BOOLEAN
    /\ CheckedIterators \in BOOLEAN

VARIABLES
    m_nextConnId,
    m_connections,  \* the keys of m_connections
    m_draining,
    accepter,       \* where AcceptConnections is
    signaler,       \* where HandleSignals is
    signals,        \* signals raised and not yet taken from m_signals
    reloads,        \* how many reload signals were raised (MaxReloads)
    toClose,        \* the entries HandleSignals' for loop has yet to visit
    posted,         \* m_strand: handlers posted and not yet run
    main            \* where ServeForever is, on the thread that called it

tableVars  == <<m_nextConnId, m_connections>>
loopVars   == <<m_draining, accepter, signaler, toClose>>
signalVars == <<signals, reloads>>
runVars    == <<posted, main>>
serverVars == <<tableVars, loopVars, signalVars, runVars>>
vars == <<connVars, serverVars>>

Signal == {"reload", "terminal"}

\* "accepting": async_accept is outstanding; "accepted", "aborted", "error":
\* completed so and not resumed yet.
AccepterPc == {"unstarted", "accepting", "accepted", "aborted", "error", "done"}

\* "waiting": async_wait is outstanding; "reload" and "terminal": it has
\* completed with that signal; "closing": inside the loop over m_connections;
\* "failed": ended by the catch block.
SignalerPc == {"unstarted", "waiting", "reload", "terminal", "closing", "done", "failed"}

ServerHandler == [op : {"HandleSignals", "AcceptConnections"}]
                   \cup [op : {"erase"}, connId : ConnId]

\* Mutant of Erase: the next connection's id is captured.
EraseNext(c) == [op |-> "erase", connId |-> c + 1]

Erase(c) == [op |-> "erase", connId |-> c]

TypeOK ==
    /\ ConnTypeOK
    /\ m_nextConnId \in Nat
    /\ m_connections \subseteq ConnId
    /\ m_draining \in BOOLEAN
    /\ accepter \in AccepterPc
    /\ signaler \in SignalerPc
    /\ signals \subseteq Signal
    /\ reloads \in 0..MaxReloads
    /\ toClose \subseteq ConnId
    /\ posted \in Seq(ServerHandler)
    /\ main \in {"init", "serving", "returned", "aborted"}

Init ==
    /\ ConnInit
    /\ m_nextConnId = 1
    /\ m_connections = {}
    /\ m_draining = FALSE
    /\ accepter = "unstarted"
    /\ signaler = "unstarted"
    /\ signals = {}
    /\ reloads = 0
    /\ toClose = {}
    /\ posted = <<>>
    /\ main = "init"

-----------------------------------------------------------------------------
(* ServeForever, and the threads.                                          *)

\* Registers the signals, listens, co_spawns the two loops and starts the
\* workers.
ServeForever ==
    /\ main = "init"
    /\ main' = "serving"
    /\ posted' = <<[op |-> "HandleSignals"], [op |-> "AcceptConnections"]>>
    /\ UNCHANGED <<connVars, tableVars, loopVars, signalVars>>

\* m_io.run() has work: a posted handler, or a coroutine that has not ended.
OutstandingWork ==
    \/ posted # <<>>
    \/ signaler \notin {"unstarted", "done", "failed"}
    \/ accepter \notin {"unstarted", "done"}
    \/ \E c \in ConnId : HoldsItself(c)

\* Every worker has returned from m_io.run() (or there was none) and
\* ServeForever has joined them all.
Return ==
    /\ main = "serving"
    /\ NumWorkers = 0 \/ ~OutstandingWork
    /\ main' = "returned"
    /\ UNCHANGED <<connVars, tableVars, loopVars, signalVars, posted>>

\* A worker is free to run a handler of the server's strand.
ServerStrandFree == main = "serving" /\ NumWorkers > 0 /\ signaler # "closing"

\* A worker is free to run a handler of a connection's strand: while one is
\* in the loop over m_connections, that takes another worker.
WorkerFree == main = "serving" /\ NumWorkers > (IF signaler = "closing" THEN 1 ELSE 0)

-----------------------------------------------------------------------------
(* The server as an observer.                                              *)

\* Mutant of OnDisconnect: nothing is dispatched.
OnDisconnectForgets(c) == UNCHANGED posted

\* OnDisconnect on a connection's strand dispatches the erase to the server's
\* strand.
OnDisconnect(c) ==
    posted' = IF Disconnects(c) /\ Observes(c, ServerObserver)
                THEN Append(posted, Erase(c))
                ELSE posted

\* Connection c's strand runs its next handler, or resumes one of its loops.
\* OnMessage and OnError are empty.
ConnHandler(c) ==
    /\ WorkerFree
    /\ RunsHandler(c)
    /\ OnDisconnect(c)
    /\ UNCHANGED <<tableVars, loopVars, signalVars, main>>

ConnReader(c) ==
    /\ WorkerFree
    /\ ReadLoopNotifies(c) \/ ReadLoopFails(c)
    /\ OnDisconnect(c)
    /\ UNCHANGED <<tableVars, loopVars, signalVars, main>>

ConnWriter(c) ==
    /\ WorkerFree
    /\ ResumesWriter(c)
    /\ OnDisconnect(c)
    /\ UNCHANGED <<tableVars, loopVars, signalVars, main>>

\* The kernel completes an operation of connection c.
ConnIo(c) ==
    /\ main = "serving"
    /\ KernelStep(c)
    /\ UNCHANGED serverVars

\* The last shared_ptr to c goes: c is out of the table and holds itself no
\* longer.
Release(c) ==
    /\ main = "serving"
    /\ c \notin m_connections
    /\ Destroy(c)
    /\ UNCHANGED serverVars

-----------------------------------------------------------------------------
(* Handlers of the server's strand.                                        *)

TakePosted(op) ==
    /\ ServerStrandFree
    /\ posted # <<>>
    /\ Head(posted).op = op
    /\ posted' = Tail(posted)

\* HandleSignals and AcceptConnections test m_draining before they wait.
HandleSignalsStart ==
    /\ TakePosted("HandleSignals")
    /\ signaler' = IF m_draining THEN "done" ELSE "waiting"
    /\ UNCHANGED <<connVars, tableVars, m_draining, accepter, toClose, signalVars, main>>

AcceptConnectionsStart ==
    /\ TakePosted("AcceptConnections")
    /\ accepter' = IF m_draining THEN "done" ELSE "accepting"
    /\ UNCHANGED <<connVars, tableVars, m_draining, signaler, toClose, signalVars, main>>

\* Mutant of RunErase: clear() instead of erase(connId).
RunClear ==
    /\ TakePosted("erase")
    /\ m_connections' = {}
    /\ UNCHANGED <<connVars, m_nextConnId, loopVars, signalVars, main>>

RunErase ==
    /\ TakePosted("erase")
    /\ m_connections' = m_connections \ {Head(posted).connId}
    /\ UNCHANGED <<connVars, m_nextConnId, loopVars, signalVars, main>>

-----------------------------------------------------------------------------
(* AcceptConnections.                                                      *)

\* A client connects; m_nextConnId \in ConnId bounds how many do.
ClientArrives ==
    /\ main = "serving"
    /\ accepter = "accepting"
    /\ m_nextConnId \in ConnId
    /\ accepter' = "accepted"
    /\ UNCHANGED <<connVars, tableVars, m_draining, signaler, toClose, signalVars, runVars>>

\* async_accept fails for another reason than the acceptor's closing.
AcceptFails ==
    /\ main = "serving"
    /\ accepter = "accepting"
    /\ accepter' = "error"
    /\ UNCHANGED <<connVars, tableVars, m_draining, signaler, toClose, signalVars, runVars>>

\* Mutant of AcceptLoopConnects: m_draining is not tested again.
AcceptLoopConnectsLate ==
    /\ ServerStrandFree
    /\ accepter = "accepted"
    /\ m_nextConnId \in ConnId
    /\ Connect(m_nextConnId, ServerObserver)
    /\ m_connections' = m_connections \cup {m_nextConnId}
    /\ m_nextConnId' = m_nextConnId + 1
    /\ accepter' = IF m_draining THEN "done" ELSE "accepting"
    /\ UNCHANGED <<m_draining, signaler, toClose, signalVars, runVars>>

\* Resumed with a socket, and not draining: register the connection, observe
\* it, start it, accept the next.
AcceptLoopConnects ==
    /\ ServerStrandFree
    /\ accepter = "accepted"
    /\ ~m_draining
    /\ m_nextConnId \in ConnId
    /\ Connect(m_nextConnId, ServerObserver)
    /\ m_connections' = m_connections \cup {m_nextConnId}
    /\ m_nextConnId' = m_nextConnId + 1
    /\ accepter' = "accepting"
    /\ UNCHANGED <<m_draining, signaler, toClose, signalVars, runVars>>

\* Resumed with an error, or with a socket after draining began: break.
AcceptLoopBreaks ==
    /\ ServerStrandFree
    /\ \/ accepter \in {"aborted", "error"}
       \/ accepter = "accepted" /\ m_draining
    /\ accepter' = "done"
    /\ UNCHANGED <<connVars, tableVars, m_draining, signaler, toClose, signalVars, runVars>>

-----------------------------------------------------------------------------
(* HandleSignals.                                                          *)

\* The operating system raises a signal.
Raise(s) ==
    /\ main = "serving"
    /\ s \notin signals
    /\ s = "reload" => reloads < MaxReloads
    /\ signals' = signals \cup {s}
    /\ reloads' = reloads + (IF s = "reload" THEN 1 ELSE 0)
    /\ UNCHANGED <<connVars, tableVars, loopVars, runVars>>

\* The outstanding async_wait completes with one of the raised signals.
SignalArrives(s) ==
    /\ main = "serving"
    /\ signaler = "waiting"
    /\ s \in signals
    /\ signals' = signals \ {s}
    /\ signaler' = s
    /\ UNCHANGED <<connVars, tableVars, m_draining, accepter, toClose, reloads, runVars>>

\* A reload signal is logged and the loop goes on.
SignalLoopReloads ==
    /\ ServerStrandFree
    /\ signaler = "reload"
    /\ signaler' = IF m_draining THEN "done" ELSE "waiting"
    /\ UNCHANGED <<connVars, tableVars, m_draining, accepter, toClose, signalVars, runVars>>

\* Mutant of SignalLoopDrains: the table is cleared, the connections in it
\* are not closed.
SignalLoopClears ==
    /\ ServerStrandFree
    /\ signaler = "terminal"
    /\ m_draining' = TRUE
    /\ accepter' = IF accepter = "accepting" THEN "aborted" ELSE accepter
    /\ signaler' = "closing"
    /\ m_connections' = {}
    /\ UNCHANGED <<connVars, m_nextConnId, toClose, signalVars, runVars>>

\* A terminal signal: start draining and close the acceptor, which aborts the
\* outstanding accept; then enter the loop over m_connections.  If close()
\* throws, the catch block logs and the coroutine ends.
SignalLoopDrains ==
    /\ ServerStrandFree
    /\ signaler = "terminal"
    /\ m_draining' = TRUE
    /\ accepter' = IF accepter = "accepting" THEN "aborted" ELSE accepter
    /\ \/ signaler' = "closing" /\ toClose' = m_connections
       \/ AcceptorCloseMayThrow /\ signaler' = "failed" /\ UNCHANGED toClose
    /\ UNCHANGED <<connVars, tableVars, signalVars, runVars>>

\* c's strand may be busy: another worker runs a handler of it, or something
\* is queued on it.
MayBeBusy(c) == NumWorkers > 1 \/ MayBeQueued(c)

\* conn->Close() on a busy strand is queued there.
CloseBusy(c) ==
    /\ main = "serving" /\ signaler = "closing" /\ c \in toClose
    /\ MayBeBusy(c)
    /\ PostClose(c)
    /\ toClose' = toClose \ {c}
    /\ UNCHANGED <<tableVars, m_draining, accepter, signaler, signalVars, runVars>>

\* conn->Close() on an idle strand runs at once, inside HandleSignals: so does
\* NotifyDisconnect and, because OnDisconnect dispatches to the strand that is
\* running, the erase of the entry the loop stands on.  The loop then steps an
\* iterator to an erased entry: a checked build ends the process there, an
\* unchecked one finds the next entry.
CloseIdle(c) ==
    /\ main = "serving" /\ signaler = "closing" /\ c \in toClose
    /\ CloseInline(c)
    /\ IF Disconnects(c) /\ Observes(c, ServerObserver)
         THEN /\ m_connections' = m_connections \ {c}
              /\ main' = IF CheckedIterators THEN "aborted" ELSE main
         ELSE UNCHANGED <<m_connections, main>>
    /\ toClose' = toClose \ {c}
    /\ UNCHANGED <<m_nextConnId, m_draining, accepter, signaler, signalVars, posted>>

\* The loop over m_connections is done: break, and the coroutine ends.
CloseLoopEnds ==
    /\ main = "serving" /\ signaler = "closing" /\ toClose = {}
    /\ signaler' = "done"
    /\ UNCHANGED <<connVars, tableVars, m_draining, accepter, toClose, signalVars, runVars>>

-----------------------------------------------------------------------------
\* The process has ended.
Terminated == main \in {"returned", "aborted"} /\ UNCHANGED vars

ServerStep ==
    \/ ServeForever
    \/ Return
    \/ HandleSignalsStart
    \/ AcceptConnectionsStart
    \/ RunErase
    \/ AcceptLoopConnects
    \/ AcceptLoopBreaks
    \/ \E s \in Signal : SignalArrives(s)
    \/ SignalLoopReloads
    \/ SignalLoopDrains
    \/ CloseLoopEnds

Environment ==
    \/ ClientArrives
    \/ AcceptFails
    \/ \E s \in Signal : Raise(s)

ConnStep(c) ==
    \/ ConnHandler(c)
    \/ ConnReader(c)
    \/ ConnWriter(c)
    \/ ConnIo(c)
    \/ Release(c)
    \/ CloseBusy(c)
    \/ CloseIdle(c)

Next ==
    \/ ServerStep
    \/ Environment
    \/ \E c \in ConnId : ConnStep(c)
    \/ Terminated

(***************************************************************************)
(* Fairness: the workers keep running what is runnable.  A strand is a     *)
(* FIFO, so its next handler and a completed coroutine each get their turn *)
(* whatever the others do, and asio hands over a signal it holds.  Nothing *)
(* is assumed of clients, of the kernel's reads, writes and accepts, or of *)
(* who raises signals.                                                     *)
(***************************************************************************)
Fairness ==
    /\ WF_vars(ServerStep)
    /\ \A c \in ConnId :
         /\ WF_vars(ConnHandler(c))
         /\ WF_vars(ConnReader(c))
         /\ WF_vars(ConnWriter(c))
         /\ WF_vars(Release(c))
         /\ WF_vars(CloseBusy(c) \/ CloseIdle(c))

Spec == Init /\ [][Next]_vars
FairSpec == Spec /\ Fairness

-----------------------------------------------------------------------------
(* Safety.                                                                 *)

\* AcceptConnections enters a connection in m_connections before it starts it,
\* and only OnDisconnect takes it out: a connection with an open socket is in
\* the table, where HandleSignals will find it when the server drains.
OpenIsTracked ==
    \A c \in ConnId : socket[c] = "open" => c \in m_connections

\* OnDisconnect's erase: a connection whose socket is closed leaves the table,
\* by an erase that is waiting in the server's strand, and by one only.
ClosedIsErased ==
    \A c \in ConnId :
        /\ socket[c] = "closed" /\ c \in m_connections =>
               \E i \in 1..Len(posted) : posted[i] = Erase(c)
        /\ \A i, j \in 1..Len(posted) :
               posted[i] = Erase(c) /\ posted[j] = Erase(c) => i = j

\* HandleSignals closes every live connection: once its loop over the table
\* has ended, a socket that is still open has a Close waiting in its strand.
DrainReachesEveryone ==
    m_draining /\ signaler = "done" =>
        \A c \in ConnId : socket[c] = "open" =>
            \E i \in 1..Len(strand[c]) : strand[c][i] = CloseHandler

\* ~AsioConnection runs CloseUnderLock, whose NotifyDisconnect CHECKs that it
\* is on the strand: a connection must not be destroyed with an open socket.
\* Its own handlers and coroutines keep it alive until it is closed.
NeverDestroyedOpen ==
    \A c \in ConnId : socket[c] = "open" => HoldsItself(c)

\* ServeForever returns after serving only when nothing of a connection is
\* left behind: no open socket, no entry in the table, no handler to run.
ReturnIsClean ==
    main = "returned" /\ NumWorkers > 0 =>
        /\ m_draining
        /\ m_connections = {}
        /\ \A c \in ConnId : socket[c] # "open" /\ ~HoldsItself(c)

-----------------------------------------------------------------------------
(* Liveness.                                                               *)

\* HandleSignals' comment: Close() unwinds the coroutines so that the
\* io_context can drain and run() can return.  After a terminal signal
\* ServeForever returns, whatever the clients do, unless closing the acceptor
\* threw.
DrainTerminates == m_draining ~> main = "returned" \/ signaler = "failed"

\* A connection that closes is erased, ends both loops and is destroyed.
ClosedIsDestroyed ==
    \A c \in ConnId :
        socket[c] = "closed" ~> socket[c] = "destroyed" \/ main # "serving"

-----------------------------------------------------------------------------
(* Refinement.                                                             *)

Lifecycle == INSTANCE ServerLifecycle WITH
    Client <- ConnId,
    phase  <- CASE main = "returned" -> "stopped"
                [] signaler = "failed" /\ main # "returned" -> "abandoned"
                [] m_draining /\ signaler # "failed" /\ main # "returned" -> "draining"
                [] ~m_draining /\ main = "init" -> "idle"
                [] OTHER -> "serving",
    live   <- {c \in ConnId : socket[c] = "open"},
    used   <- {c \in ConnId : socket[c] # "none"}

\* The accept and signal loops, the connections and the workers together keep
\* ServerLifecycle's promise, its fairness included.  A drain that is abandoned
\* because m_acceptor.close() threw closes nobody, but still accepts nobody and
\* still returns once the clients have left.
ImplementsLifecycle == Lifecycle!FairSpec
=============================================================================
