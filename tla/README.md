# birch: TLA+ models, checks and proofs

birch is an IRC daemon in C++ (asio coroutines, abseil, one configuration file
in TOML). This directory models the parts of it that hold state and run
concurrently, model-checks them with TLC on small instances and proves with
TLAPS, for every instance, nearly all the safety properties that TLC checks, the
refinements included. Line numbers are those of `src/`; `PROJECT.json` maps every definition to its lines.

## 1. The system

    main ── GlobalFileWatcher ── {Kqueue,Win,Inotify,NoOp}FileWatcher
      │            │ callback on the watcher's thread
      │     FileConfigDataSource ── TomlConfig ── ServerConfig
      │                                              │ read once
      └── Server::ServeForever ─────────────────────-┘
            │ AcceptConnections, HandleSignals on the server's strand
            ├── AsioConnection (one strand each)
            │     ├─ RunReadLoop  ── MessageParser ── irc::Message
            │     ├─ RunWriteLoop ── m_writeQueue ── MessageSerializer
            │     └─ observers: Server, SessionConnectionObserver
            └── SessionConnectionObserver ── irc::Session

| Part | State | Operations | How it interacts | What makes it correct |
|---|---|---|---|---|
| `server/AsioConnection` | socket, strand, observers, bounded channel `m_writeQueue`, two coroutines | connect, read loop, write loop, `DeliverResponse`, `AddObserver`, `RemoveObserver`, `Close`, destructor | posts to its strand; calls observers on it; the kernel completes its operations | responses in order and once, no lost wakeup, one disconnect per observer, both loops end after a close, never destroyed open |
| `server/Server` | `m_connections`, `m_nextConnId`, `m_draining`, acceptor, signal set, workers | `ServeForever`, accept loop, signal loop, `OnDisconnect` | observes every connection; its own strand, a pool of threads | the table is in step with the sockets; a terminal signal closes everybody and `ServeForever` returns |
| `server/SessionConnectionObserver`, `irc/Session` | two pointers | `OnMessage`, `OnDisconnect`, `OnMessageEmitted`; `OnError`, which nothing calls | between a connection and a session | the session is closed once, hears nothing after, and the pair is freed |
| `server/MessageParser`, `irc/Message` | parse state, token buffer, message | `Consume`, `Parse`, `Reset` | fed by the read loop in chunks | only well-formed messages, whatever came before, however cut |
| `server/MessageSerializer` | none | `ComputeRequiredSpace`, `WriteToBuffer` | used by the write loop | the parser reads back what it writes |
| `util/KqueueFileWatcher` | `m_watches` with two descriptors each, pending unwatches, dirty set and deadline | `WatchFile`, `Unwatch`, `Run`, destructor | kernel events, the file system, callbacks on its thread | a watch stays on the path's current file, or it is known when it does not; every change is reported; Unwatch and the destructor take effect |
| `util/WinFileWatcher` | `m_dirWatchers`, `m_draining`, watch locations, pending unwatches, completion port, dirty set and deadline | the same, for Windows | completions of directory reads, callbacks on its thread | a directory watcher outlives its read; every change is reported; Unwatch and the destructor take effect |
| `util/Observable` | weak pointers to observers | add, remove, notify | part of a connection, on its strand | an observer is told once per `AddObserver`, and not when it was removed or is gone |
| `config/TomlConfig` | `m_root`, the nodes handed out, the cache `m_nodes` of weak pointers to them | `Reload`, `GetNode`, `Dig` | reads its source; nodes are held by `ServerConfig` and others | a path is looked up right, there is one node per path, a reload replaces all or nothing, only a node held since before the reload is stale |
| `config/FileConfigDataSource` | `m_callbacks`, `m_watchHandle` | create, `Read`, `Subscribe`, `NotifyWatchers`, destructor | called back on the file watcher's thread through a plain `this` | a subscriber gets to read the last content; a reload meets all of a text or leaves the configuration alone |
| `util/FileWatcher`, `main`, `ServerConfig` | the global watcher, main's locals, the settings | start, serve, return | constructs everything and destroys it in reverse | each failure on the way ends the program in order; the settings follow the file when it is reloaded (finding 6) |

The remaining parts (channels, users, nicknames, capabilities, dispatcher,
connection list) are scaffolding that nothing in the server calls. On Linux
`InotifyFileWatcher::WatchFile` is not implemented, so only the kqueue and
Windows watchers have behaviour.

What is hard here: several threads run the io_context, so the strands of the
connections and of the server interleave freely; an asynchronous operation that
completed before a close is resumed after it; `dispatch` runs its handler on the
spot when the strand is idle and queues it when it is not; objects are kept
alive only by the handlers and coroutines that hold a `shared_ptr` to them; the
file system acts between any two system calls of the watcher; a watch may call
back after `Unwatch` has returned, into an object that is being destroyed; a
configuration is reloaded while nodes of the old one are held. `PROJECT.json`
lists these hazards, each at its line and with the property that covers it.

## 2. Modules

| Module | What it is |
|---|---|
| `AsioConnection` | the actions of a connection, indexed by `ConnId`; no `Next` of its own |
| `Server` | the server composed with `AsioConnection`; `Spec`, `FairSpec` |
| `ServerLifecycle` | what the server promises; `Server` implements it (`ImplementsLifecycle`) |
| `AsioConnectionProofs` | lemmas about the steps of a connection, for the two modules that compose it |
| `ServerProofs` | theorems about `Server` |
| `SessionConnection` | `AsioConnection` composed with the session adapter, a second observer and a holder of the connection |
| `SessionProofs` | theorems about `SessionConnection` |
| `ResponseQueue` | what `DeliverResponse` promises; `SessionConnection` implements it (`ResponsesInOrder`) |
| `MessageParser`, `MessageSerializer` | pure operators over classes of bytes |
| `ReadLoop` | what `RunReadLoop` computes from the bytes of a connection |
| `WireClients` | `ReadLoop` with a peer that sends serialized messages, or with a client that sends anything; `MCWireClients` gives it finite inputs |
| `WireProofs` | theorems about `WireClients`, and so about the parser and the serializer |
| `FileWatch` | what an `IFileWatcher` promises; both watchers implement it (`ImplementsFileWatch`) |
| `KqueueFileWatcher` | the watcher, its users and the file system |
| `WinFileWatcher` | the Windows watcher, its users and the kernel's reads of the directory |
| `KqueueProofs`, `WinProofs` | theorems about the two watchers |
| `TomlValue` | pure operators: the values of a TOML document, `Dig`, and what the server's settings are parsed from |
| `TomlConfig` | the configuration, its nodes and their cache |
| `FileConfigDataSource` | the configuration file, its watch (an instance of `FileWatch`) and its subscribers |
| `Startup` | `main` from start to end, composing the two; `MCStartup` gives it documents |
| `StartupProofs` | theorems about `Startup` and the modules it composes |
| `FoldProofs` | lemmas: induction over numbers and over sequences, and what folds over sequences compute; instantiated for each operator that is folded |

Operators named as mutants in their comments are the deliberate bugs that show
that a property can fail; no specification uses them.

### AsioConnection

`socket[c]` is `m_socket` and the life of the object around it, `strand[c]` the
handlers posted and not run, `reader[c]` and `writer[c]` the places where the two
coroutines stand. A handler, or a stretch of a coroutine between two `co_await`s,
is one action: `RunAddObserver`, `RunReadLoopStart`, `ReadLoopNotifies`,
`ReadLoopFails`, `WriteLoopWrites`, `WriteLoopReceives`, `WriteLoopFails`,
`RunClose` and so on. Starting an operation, its completion by the kernel
(`ReadCompletes`, `WriteSucceeds`, `WriteFails`) or by the close (`AbortRead`,
`AbortWrite`), and the resumption of the coroutine are three different steps.
`Disconnects(c)` holds of a step in which `CloseUnderLock` passes its early
return; the composing module says what the observers do in it. `sent` and
`written` are history.

`observers[c]` is `Observable::m_observers`: how many of its weak pointers point
to each observer. `AddObserver` adds one, also to an observer that is there
already; `RemoveObserver` erases them all; `Notify` calls an observer once for
each. A pointer that has expired is never called and its pruning by
`EraseDeallocated` has no other effect, so it leaves the count when it expires
(`ObserverExpires`). AsioConnection calls Observable on its strand only, so its
mutex is never contended.

`asio` is not part of the repository. The model assumes of it: a strand runs its
handlers one at a time and in the order they were posted; `dispatch` runs its
handler inline when the caller is on that strand already, or when the strand is
idle and the caller is a thread of the io_context; a completion travels
through the io_context, so it is not ordered with the handlers posted
meanwhile, and keeps its result if the socket is closed before the resume; a
closed `concurrent_channel` still delivers what it holds, `try_send` hands its
message to a waiting receiver first, and does not report through its first
argument, which is part of the message.

### Server

`main` is the thread in `ServeForever`; `accepter` and `signaler` are the two
coroutines; `posted` is the server's strand; `toClose` is what is left of the
range-for of `HandleSignals` over `m_connections`. While that loop runs, the
server's strand and one worker are taken (`ServerStrandFree`, `WorkerFree`).
`conn->Close()` in it has two outcomes: `CloseBusy` queues it on the
connection's strand, and `CloseIdle` runs `CloseUnderLock`, `OnDisconnect` and
the erase before it returns. The entry erased is the one the loop stands on;
`CheckedIterators` says whether the build notices. `AcceptorCloseMayThrow` adds
the path through the catch block: `signaler` ends as `failed`, no connection is
closed and no later signal is handled. `ServerLifecycle` has that as a state of
its own, `abandoned`: the server goes on serving whom it has accepted and stops
accepting.

### SessionConnection

Adds `m_session` and `m_connection` of the adapter, the calls the session
received, and a holder of the connection that delivers, closes, adds, removes
and frees a second observer, and lets go. `added` is history: the `AddObserver`
calls of which an observer is to be told at the disconnect. `Session::AcceptMessage` is empty and nothing in
the repository emits messages yet, so the session may emit anything at any time.

### MessageParser, MessageSerializer, ReadLoop

A byte is one representative of each class that the parser treats alike
(letters, digits, specials, each delimiter, the bytes above 0x7F). A parser is a
record of `m_state`, `m_buffer`, the message and the last result; there is one
operator per parse state, as in the `switch` of `Consume`. `CharIsSigned` is the
build's choice on which `IsParamStartChar` depends. `asio::ip::make_address` is
abstracted to a few shapes of addresses. In `ReadLoop` each byte carries the
number of the line it was sent in, so a message can be traced to its lines. A
moved-from `std::string` is taken to be empty, which it is for the move
constructor used here in the libraries the build supports. The peer of
`WireClients` makes its messages with `MessageBuilder` (`Build`). `WellFormed` says
what a message of the grammar is and `Representable` which of them the wire format
can carry; the builder checks neither, so `ClientAssumption` says that what the peer
sends is both.

### FileWatch

What a user of an `IFileWatcher` can rely on, whichever the platform: a callback
lets the user of a watch read the content of that moment; one callback may come
after `Unwatch` has returned, and no second one; nothing comes after the watcher
was destroyed. `KqueueFileWatcher` and `WinFileWatcher` map their state to its
five variables and implement it; `FileConfigDataSource` uses it instead of either.
The header promises none of this in words: it is what both implementations do,
and what their common user depends on.

### KqueueFileWatcher

All watches are on one path. A content of the path has a number; a file is named
by the number of its first content, and the directories that have been at the
path's parent are numbered too. `fileFd[w]` and `dirFd[w]` are the file and the
directory a watch has armed, `armFd` the file that the holder of the mutex has
opened and not yet armed; the file system may act in between, and `missed` keeps
the watches whose file had left the path by the time of `EV_ADD`. `fileNotes`,
`dirNote` and `woken` are what the kernel remembers until `kevent()` collects it:
of `kFileFlags`, `NOTE_DELETE`, `NOTE_RENAME` and `NOTE_REVOKE` are `"gone"`, and
`NOTE_WRITE`, `NOTE_EXTEND` and `NOTE_ATTRIB` are `"write"`, as `HandleFileEvent`
tells them apart no further; of the directory's flags nothing is told apart.

The file system writes, replaces, removes and creates the file (`Write`,
`Replace`, `Remove`); changes the attributes of an armed file, or touches one that
has left the path (`Touch`); moves the directory away or removes it and makes
another (`MoveDir`, `MakeDir`); and does anything else in the directory
(`ChangeOther`). `MaxUpsets` bounds touches, moves and failed armings together.
The kernel is taken to note an operation of the file system atomically, to report
nothing that happened before `EV_ADD`, and to clear what it returns (`EV_CLEAR`).
The clock is the single step `DeadlinePasses`. Nothing the watcher does depends
on descriptor numbers except that the kernel drops a closed one's events.

### WinFileWatcher

All watches are on one file, so `m_dirWatchers` has at most one entry; a
directory that is watched again while the old watcher drains gets another
`DirId`. `io[d]` is the read of a `WinDirWatcher`: outstanding, completed with a
result that is still queued on `port`, or neither. `noted` is what the kernel has
recorded for the next read. A section under the mutex is one step, with the
cancels that follow it; the thread's places between sections are `top`, `wait`,
`reissue` and `call`. A completion tells only whether the watched file is among
the records (`hit`, which an overflow is too) or not (`miss`); the layout of
the records, case folding and the hash maps' keys are abstracted.

Of Windows the model assumes: a handle records changes from its first read on,
also between reads; every accepted read completes exactly once, with records, an
error, or as aborted by `CancelIoEx`; `CancelIoEx` does nothing to a read that
has completed; the port is a FIFO.

### TomlValue, TomlConfig, FileConfigDataSource, Startup

A TOML document and the `TomlValue` tree made of it are functions from paths, which
are sequences of keys (`Key`), to nodes (`IsTree`: what is above a node is a table); only integers have a value, as nothing reads the others. Integers are cut
to the width of their setting (`WorkerBits`, `PortBits`), as the casts in
`ParseServerConfigFromValue` do. `m_nodes` maps a path to the node last given for
it or to `Expired`; `nodes` are the `TomlNode` objects, alive while `ServerConfig`
or somebody else (`held`) has a `shared_ptr`. `pinned` is history: the nodes that
were alive when `m_root` was replaced.

The file is a document, text that does not parse, or missing, and changes at any
time. `main` follows main.cc: the global watcher, the source with its watch, the
configuration, the settings, `ServeForever`, and the way out with its
destructors, each construction with its failure. `Reload`, `GetNode` and letting
go of a node are calls of whoever has the `IConfig`, one at a time, since
`TomlConfig` has no lock; in the repository the only such calls are those of the
startup. A subscriber of the source subscribes, reads, and is called on the
watcher's thread. `DestroyMembers` destroys the source's callbacks and mutex
before `DestroyWatchHandle` unwatches; a callback in between, or the one that
`FileWatch` allows after `Unwatch`, is `DeadSourceIsNotified`, undefined
behaviour that passes unnoticed or ends the process.

## 3. Runs

| Run | Instance | Shows | States, time |
|---|---|---|---|
| `server` | 2 connections, 2 workers, 1 reload, acceptor may throw | `OpenIsTracked`, `ClosedIsErased`, `NeverDestroyedOpen`, `DrainReachesEveryone`, `ReturnIsClean`, `DrainTerminates`, `ClosedIsDestroyed`, `ImplementsLifecycle` | 97 thousand, two and a half minutes |
| `server_drain_checked` | build with iterator checks | finding 1 | seconds |
| `session` | 1 connection, 2 observers, 4 numbered responses, queue of 2, 3 calls of the holder | order, conservation, wakeups, one disconnect, nothing after the close, `ResponsesInOrder`, `ClosedIsFreed` | 302 thousand, two to three minutes |
| `session_closed_result` | queue of 1, 3 responses | finding 2 | seconds |
| `wire` | 2 of 68 messages, or 6 of 12 fragments; reads of 1 to 3 bytes | `RoundTrip`, `NotifiedIsWellFormed`, `NotifiedCanBeRelayed` | 919 thousand, a minute |
| `parser_single_line` | the same | finding 3 | seconds |
| `watcher` | 1 watch, batches of 2, 3 contents, 1 touch, move of the directory or failed arming | `StaleOnlyIfUntold`, `NoCallbackWithoutChange`, `ImplementsFileWatch`, `ChangeIsReported`, `UnwatchTakesEffect`, `DestructorReturns` | 393 thousand, three minutes |
| `watcher_stale_fd` | 1 watch, 3 contents | finding 4 | a second |
| `win_watcher` | 2 watches, 2 directory watchers, 1 change, 1 failure | `BufferOutlivesRead`, `ImplementsFileWatch`, `ChangeIsReported`, `UnwatchTakesEffect`, `DestructorReturns` | 229 thousand, two minutes |
| `win_error_drain` | the same | finding 5 | a second |
| `config` | 3 documents, 3 contents of the file, 2 reloads, 4 paths, 1 subscriber | `DigFindsThePath`, `EveryLiveNodeIsCached`, `StaleOnlyIfPinned`, `SubscriberCatchesUp` | 286 thousand, a minute and a half |
| `config_reload_settings` | 3 documents, 2 contents of the file, 1 reload | finding 6 | seconds |

Why the bounds are enough. Connections do not share state except through the
server's strand, its table and the workers: two of them show one overtaking,
shadowing or outliving the other, and two workers are the least with which a
strand is busy while the drain runs. Nothing looks into a response, so the responses
delivered may be taken to be the numbers 1, 2, 3, ...: a swap, a loss or a
repetition of any would be one of these. Four fill the queue, the write loop and
one more. Three calls of the holder add the second observer twice and remove
it. The parser keeps no count but the length of
a number and of a nickname; two messages show what the first leaves behind for
the second, and reads of one byte up to a chunk longer than CRLF give every cut
that matters. Six fragments reach every parse state, an invalid byte in it, and
a complete message after. With the kqueue
watcher one watch already meets every order of file, directory and wake events, of
which a batch holds two, and contends with `Run` for the mutex. What a second
watch would add, in the table, the batch and the mutex, is left to the proofs,
which are for any number of watches. Three contents make a replace during the
handling of a replace, and one upset falls before, between or after them. With the Windows
watcher two watches share a directory watcher, or follow each other while the
first drains; one change of the file, with changes of other files without
bound, comes before, between or after these; and one failure (an open, a read
refused, a read completed with an error) falls on any of them. The documents of
`config` are a proper one, one with a setting missing, out of range, of a wrong
type or dropped, and one whose section is no table; two reloads make a node stale
and then take its path away, or bring it back. The paths are the root, the one empty segment that
`ConfigPath("")` makes, a table and a value, with a node at a time for each that can have one; a second node for a path would be
one too many for `EveryLiveNodeIsCached` at once.

`MaxUnread = 0` in the raw client lets it send only when all has been read, so no
chunk spans two fragments. What such a chunk adds, the bytes dropped behind an
invalid one, happens inside the longer fragments. `kBatch` is smaller than the number of
events one watch can have (file, directory, wake), and the model picks any of the
ready ones where the kernel's queue is a FIFO: the liveness properties hold
all the same, since a wake comes only with an unwatch or the destructor.

Deadlock is checked for the server and the startup, whose only legitimate ends
are the ends of the process. A connection, a parser or a watcher alone may simply have nothing
more to do, and these runs switch the check off.

### Fairness

`Server` and `SessionConnection`: weak fairness of the strands' next handlers,
of resuming each coroutine whose operation has completed, and of releasing what
nobody holds. The workers run the io_context until it has no work, and a strand
is a FIFO, so this is what the code gives. Nothing is assumed of clients, of the
kernel's reads, writes and accepts, of who raises signals, or of the holder: a
client that never reads and never closes does not hold up the drain.
`KqueueFileWatcher`: weak fairness of the thread, of the clock and of calls
already begun, strong fairness of `kevent()` returning (it may fail now and
then, not for ever). Nothing is assumed of the file system.
`WinFileWatcher`: weak fairness of the thread, of the clock, of calls already
begun, and of the kernel completing a read for which it has records. Nothing is
assumed of who changes files, calls `WatchFile` or `Unwatch`, or ends the watcher.
`Startup`: weak fairness of main's steps (not of the end of `ServeForever`), of a
callback while the watch has not reported the content of the file, and of the
calls of the subscribers. The second is what `ChangeIsReported` says of both
watchers; where that fails (findings 4 and 5, a moved directory), `SubscriberCatchesUp` fails too.

## 4. Findings

1. `Server.cc:331`. The drain loop erases, through `Close()` and `OnDisconnect`
   run inline, the entry of the hash map its iterator stands on, and then
   increments the iterator. A build with iterator checks ends the process there;
   without them all connections are closed (`server`).
2. `AsioConnection.cc:85`. `DeliverResponse` on a closed connection answers
   `Backpressure`; the branch that answers `Closed` is never taken.
3. `AsioConnection.cc:160`. After an invalid byte neither the parser nor the
   message is reset, so a message can be put together from two lines. What it
   is put together into is still well formed (`wire`).
4. `KqueueFileWatcher.cc:295, 470`. A file replaced or removed between `open` and
   `EV_ADD` gives no event, and later directory events are ignored because the
   descriptor is set: the watch stays on the old file.
5. `WinFileWatcher.cc:613`. A directory read that completes with an error is not
   issued again, and its watcher stays active without a read. Drained later, it
   waits for a completion that will not come, so the thread does not end and the
   destructor does not return. (A read that cannot be *issued* again is handled:
   `DestructorReturns` holds in that case.)
6. `TomlConfig.cc:362`. `Reload` replaces `m_root` and notifies no node, where
   `IConfig.h:85` says that notifications are always sent when a node's value
   changes: `ServerConfig` subscribes to its section, its `OnConfigChanged`
   would apply what changed, and is never called (`SettingsFollowReload`). The
   `weak_from_this()` that the subscription captures in the constructor is empty
   there, so a `Notify` alone would not mend it.

What else the models make plain, and where a comment says something different:

- A node that is held across a `Reload` keeps its value, and `GetNode` goes on
  giving it (`StaleOnlyIfPinned`), also for a path that the new file does not
  have, where `IConfig.h:118` says nullptr.
- `ConfigPath("")` is a path of one empty segment (`ConfigPath.cc:42`), for which
  `GetNode` gives nullptr; the "empty path" of `IConfig.h:117` that gives the root
  is the path of no segments.
- `kFileFlags` has `NOTE_ATTRIB`: a chmod or a touch calls back though the content
  is the same (`NoCallbackWithoutChange` counts it).
- `HandleDirEvent` does not see the flags of its event. A watch whose directory is
  renamed or removed keeps its descriptors on the old directory and file, and
  does not find the path in a new one (`StaleOnlyIfUntold`).
- A configuration without `num_workers` is accepted, with 0 workers, and
  `ServeForever` returns at once.
- `IFileWatcher.h:55`: "On failure, the global file watcher will be initialized to
  a no-op implementation." It is, and main returns 1 all the same.
- While main returns, a callback may enter the source after its members are gone
  (`DeadSourceIsNotified`).
- The example in `IConfigSource.h:37` reads and then subscribes; a save in
  between is reported to nobody. `SubscriberCatchesUp` is about the other order.

## 5. Proofs

Every safety property of the runs is also a theorem, for every value of the
constants. The proofs use the
assumptions that the modules state of their constants, and one hypothesis where
the theorem names it: at least one worker (`ImplementsLifecycleSafety`;
without one `ServeForever` returns at once). Most of the
assumptions are types. The others are that ids are numbers where the code counts
them, that a watch is not called `"free"`, that a document is a tree
(`StartupAssumption`), that 2 to the width of a setting is positive (the
provers know nothing of `^`), and that the peer sends messages of the grammar that
the wire format can carry (`ClientAssumption`; the other client sends any bytes). TLC evaluates them all on the runs.

| Module | Theorems, each `Spec => []P` or `Spec => P` |
|---|---|
| `ServerProofs` | `TypeCorrect` (`TypeOK`), `TableCorrect` (`OpenIsTracked`), `EraseOnce` (`ClosedIsErased`), `DestructorSafe` (`NeverDestroyedOpen`), `DrainComplete` (`DrainReachesEveryone`), `ReturnsClean` (`ReturnIsClean`), `ImplementsLifecycleSafety` (`Lifecycle!Spec`, which is `ImplementsLifecycle` without its fairness) |
| `SessionProofs` | `TypeCorrect`, `ResponsesAreConserved` (`ResponsesConserved`), `WriteLoopIsWoken` (`NoLostWakeup`), `CloseIsTheLastCall` (`NothingAfterSessionClose`), `CloseDetaches` (`ClosedIsDetached`), `ToldAsOftenAsAdded` (`DisconnectedOnce`), `ImplementsResponseQueue` (`ResponsesInOrder`) |
| `WinProofs` | `TypeCorrect`, `BufferIsHeld` (`BufferOutlivesRead`), `NoStalePacket` (no packet of a freed watcher), `ImplementsIFileWatcher` (`ImplementsFileWatch`) |
| `KqueueProofs` | `TypeCorrect`, `CallbacksAreEarned` (`NoCallbackWithoutChange`), `LiveFdUnlessUntold` (`StaleOnlyIfUntold`), `ImplementsIFileWatcher` (`ImplementsFileWatch`) |
| `StartupProofs` | `TypeCorrect`, `DigCorrect` (`DigFindsThePath`), `CacheCorrect` (`EveryLiveNodeIsCached`), `StaleOnlyOverReload` (`StaleOnlyIfPinned`) |
| `WireProofs` | `GivenIsWellFormed` (`NotifiedIsWellFormed`), `SerializedIsRead` (of any message, not of a state: parsing what is serialized gives the message), `RelayedIsRead` (`NotifiedCanBeRelayed`), `ParserReadsSerializer` (`RoundTrip`) |
| `AsioConnectionProofs`, `FoldProofs` | lemmas only: the steps of one connection, used by the two modules that compose it; induction and folds |

The properties are seldom inductive. What has to be added to each, and why:

**Server.** `IInv == TypeOK /\ ConnInv /\ TableInv /\ NothingPostedYet`. That a
close posts an erase needs to know that the server observes the connection by
then (`Observed`: an open connection has the server among its observers, or
`AddObserver` is at the head of its strand and no loop has started). `Connect`
posts `AddObserver` before the two loops and a strand is a FIFO, so nothing can
close the connection unobserved; this is the argument of the whole proof. That
there is just one erase needs `EraseMeansClosed`; `NeverDestroyedOpen` needs
`ReaderAlive`, that an open connection has its read loop, which holds it. Each
part is first shown for one connection's step, which leaves the others alone,
and then for the composed step. The drain adds
`DrainInv`: while the loop over `m_connections` runs, an open connection is still to
be visited or has a `Close` in its strand, which stays there until it closes;
`m_draining` says where the loop is (so nobody is accepted behind its back);
`HandleSignals` is spawned once; what is destroyed has left the table.

**Session.** `IInv == TypeOK /\ \A c : QueueInvAt(c) /\ AdapterInvAt(c)`. The queue:
what was accepted is what was written, what the write loop holds and what is
buffered, in this order (`ConservedAt`); what the loop holds follows from where it stands
(`HoldsAt`); it waits only on an empty open channel (`OpenAt`); it is spawned once
(`SpawnedOnceAt`). The adapter: its `AddObserver`
is first in the strand or done, so a close always reaches it (`AdaptedAt`); the pointers
are set until the socket closes, and from then on the last call is `Close` (`SessionAt`);
an observer is in `Observable` as often as it was added, and told that often
(`CountedAt`). The refinement of `ResponseQueue` maps each
step to one of its steps or to a stutter; which one follows from `ConservedAt`.

**Windows watcher.** `IInv == TypeOK /\ BufferInv /\ RunInv /\ \A w : TablesAt(w) /\ LateAt(w)`.
A completion is on the port once and only while its read is completed and not
handled (`PacketsAreCompletions`); a directory that `Run` is to read again is active
and without a read (`ReissueIsActive`), though `Run` has given up the mutex in
between; there is at most one active directory (`OneDirWatcher`). For the refinement: a watch that was called after
`Unwatch` returned is taken out at the head of the loop before it can be called again
(`LateAt`).

**kqueue watcher.** The same tables, and `Credit(w)`, a potential: the callbacks a
watch has had, plus one for each that what is noted by the kernel, collected,
opened, dirty or about to be called may still give it, never exceed the contents of
the path plus its touches and the failed armings. Every step moves a unit from one
place to the next, or drops it. A change or a touch of the file pays for the unit it
brings, in whichever of these places it lands. `StaleOnlyIfUntold` is inductive with
`DirInv`: a watch in the table has a directory, and it is the current one or one
that was moved away before, which never comes back. What it excuses is history:
`missed` is decided at `EV_ADD`, and from then on a file that leaves the path of a
watch that is not excused leaves it by a step that notes it.

**Startup.** `IInv` is the conjunction of the state of `TomlConfig` (`ConfigInv`: its types,
`EveryLiveNodeIsCached`, `StaleOnlyIfPinned`), of the source (`SourceTypes`) and of main (where it stands, what
it has constructed, and that there are no nodes before there is a
configuration). `DigFindsThePath` is about a fold over the path, for any path:
`DigIsAt` says by induction that after k segments `Dig` holds the part of the tree
below them, or null when the tree has no such part or passes through something
that is not a table.

**Wire.** `LoopInv` says of the parser between two bytes that its message is one of
the grammar so far (`Partial`: distinct keys, a valid prefix or none, no byte in a
key, a value or a parameter that would end it), that in the states after the command
there is one, and what the buffer may hold in each state (`BufferIn`), which is what
the message gets when the token ends. It is shown
of one `Consume`, state by state, of a turn of the loop, which leaves the parser
alone when it breaks out and clears it after a message, of the loop over a
chunk of any length by induction, and of the steps.

That the parser reads what the serializer writes is computed along the message
(`LineIsRead`): from a fresh parser the tags lead to `AfterTags` with the same tags
(`TagsAreRead`, an induction over the tags, in which each tag is an induction over its bytes),
then the prefix, the command and the parameters (`PrefixIsRead`, `CommandIsRead`,
`ParamsAreRead`), then CR, and LF completes it. Each part needs one clause of `WellFormed` or
`Representable`: without distinct keys two tags would be read as one, after a bare key the
parser takes no `;`, and only the last parameter gets the marker.
`NotifiedCanBeRelayed` follows, because what is notified is `WellFormed`.

`RoundTrip` is not inductive: it says nothing of a message that is half read. `PeerInv` is:
were all of `wire` read now in one chunk, the loop would end with a fresh parser,
unbroken, having notified what was sent. A message that is sent adds one line to that
chunk (`LoopReadsLine`). A read moves a piece of it from `wire` into the parser, and
the loop over a chunk is the loop over its two pieces, provided that the first does not
break out: a loop that broke out stays so to the end of the chunk (`BrokenStays`), which `PeerInv` excludes.

**Folds.** The library defines `FoldLeft` through a recursive function over sets of indices,
and its induction principles take an operator, which the provers cannot instantiate.
`FoldProofs` derives from the well-foundedness of the naturals an induction
over a *set* of numbers (`SetInduction`: a set that has 0 and with n also n + 1
is `Nat`), and from it one over a set of sequences (`SeqInduction`). With these one
shows that such a recursive function exists, that its value
is determined, what a fold makes of the empty sequence, of one more element and of two
sequences put together, and an invariant of it. The operator folded is a constant `Op` of
the module: `StartupProofs` instantiates it with a step of `Dig`, `WireProofs` with
`ReadByte` and with `ParseByte`.

What the proofs found about the models: the `CASE` of `Consume` had two arms true
for a NUL (the check for it and the arm of the state), and then the value of a
`CASE` is any of them; TLC takes the first. It is now an `IF`, like the check
ahead of the `switch`. `TypeOK` of the kqueue watcher bounds `fired` and is not inductive without
`Credit`. Some assumptions the models had left unsaid are now stated (a document is a tree;
a file has at least its first content; watches are numbered).

Only model-checked:

- liveness, and the fairness part of `ImplementsLifecycle`: fairness and `ENABLED` are out
  of the prover's reach (`DrainTerminates`, `ClosedIsDestroyed`, `ClosedIsFreed`,
  `ChangeIsReported`, `UnwatchTakesEffect`, `DestructorReturns`, `SubscriberCatchesUp`);
- the findings, which are counterexamples.

## 6. What is not modelled

- Memory and sizes: `WriteToBuffer` against the size of `m_writeBuffer`.
- The data race on `m_connection` in `SessionConnectionObserver`: `OnMessageEmitted`
  is one step.
- Callbacks and observers that throw.
- `TomlNode`'s subscribers: nothing calls `Notify` (finding 6 states what
  `OnConfigChanged` would do). `SessionConnectionObserver::OnError`: nothing calls
  `NotifyError`. What is inside a TOML array: nothing reads one.
- `TomlConfig` used by several threads at a time: it has no lock, and has one
  user in the repository.
- TLS and logging; the command line's flags.
- `InotifyFileWatcher` and `NoopFileWatcher`: stubs. On Linux `WatchFile` fails,
  which is a failure `CreateFromFileWatches` has.
- Scaffolding that nothing calls (section 1).

## 7. Plan

1. The server and its connections with their observers, the session, the codec,
   both file watchers and their common promise, the configuration and the
   startup: done, as above.
2. Proofs of every safety property of the runs and of the safety part of every
   refinement: done (section 5). The liveness properties stay with TLC.
