------------------------------- MODULE Startup -------------------------------
(***************************************************************************)
(* main.cc, with util/FileWatcher.cc and server/Server.cc's ServerConfig:  *)
(* how the program gets its configuration, serves with it and ends.        *)
(*                                                                         *)
(* main creates the global file watcher, a FileConfigDataSource, a         *)
(* TomlConfig on it and a ServerConfig on that, and serves; when it        *)
(* returns, its locals and then the file watcher are destroyed.  Nothing   *)
(* under src calls Reload after the first time (a reload signal is only    *)
(* logged); whoever holds the IConfig may, and may ask for nodes.  Those   *)
(* calls come one at a time, as TomlConfig has no lock.  The calls of the  *)
(* file watcher's thread come at any time.                                 *)
(***************************************************************************)
EXTENDS TomlConfig, FileConfigDataSource

CONSTANT MaxReloads    \* bound: calls of Reload after the first

ASSUME StartupAssumption ==
    /\ MaxReloads \in Nat
    /\ {<<>>, <<"server">>} \subseteq Path
    /\ \A table \in Document : IsTable(table)

VARIABLES
    main,                 \* where main is
    m_serverConfigNode,   \* ServerConfig's members
    m_data,
    held,                 \* the nodes that others have a shared_ptr to
    reloads               \* how often Reload was called (MaxReloads)

startVars == <<main, m_serverConfigNode, m_data, held, reloads>>
vars == <<configVars, file, watchVars, sourceVars, startVars>>

NoData == [NumWorkers |-> 0, Port |-> 0, TlsPort |-> 0]

TypeOK ==
    /\ ConfigTypeOK
    /\ SourceTypeOK
    /\ main \in {"start", "watcher", "checked", "sourced", "configured", "serving",
                 "returning", "exiting", "exited", "crashed"}
    /\ m_serverConfigNode \in NodeId \cup {NoNode}
    /\ m_data \in ServerConfigData
    /\ held \subseteq Alive
    /\ reloads \in 0..MaxReloads

Init ==
    /\ ConfigInit
    /\ SourceInit
    /\ main = "start"
    /\ m_serverConfigNode = NoNode
    /\ m_data = NoData
    /\ held = {}
    /\ reloads = 0

-----------------------------------------------------------------------------
(* main.                                                                   *)

\* InitializeGlobalFileWatcher.  When it fails a NoopFileWatcher is installed,
\* but main does not go on.
InitializeGlobalFileWatcher ==
    /\ main = "start"
    /\ main' \in {"watcher", "returning"}
    /\ UNCHANGED <<configVars, file, watchVars, sourceVars, m_serverConfigNode, m_data, held, reloads>>

\* CreateFromFile, in two steps.
CreateFromFileChecks ==
    /\ main = "watcher"
    /\ CreateChecks
    /\ main' = IF source' = "created" THEN "checked" ELSE "returning"
    /\ UNCHANGED <<configVars, m_serverConfigNode, m_data, held, reloads>>

CreateFromFileWatches ==
    /\ main = "checked"
    /\ InitializeFileWatch
    /\ main' = IF source' = "alive" THEN "sourced" ELSE "returning"
    /\ UNCHANGED <<configVars, m_serverConfigNode, m_data, held, reloads>>

\* TomlConfig::Create: it takes the source, reads it once and never fails.
CreateTomlConfig ==
    /\ main = "sourced"
    /\ Reload(file, file \in Document)
    /\ main' = "configured"
    /\ UNCHANGED <<file, watchVars, sourceVars, m_serverConfigNode, m_data, held, reloads>>

\* IServerConfig::Create: the section must be there and be a table.  A node
\* that is no table goes with the rest of the configuration.
CreateServerConfig ==
    /\ main = "configured"
    /\ \E id \in NodeId \cup {NoNode} :
         /\ GetNode(<<"server">>, id)
         /\ IF id # NoNode /\ Parses(nodes'[id].value)
              THEN /\ main' = "serving"
                   /\ m_serverConfigNode' = id
                   /\ m_data' = ParseServerConfigFromValue(nodes'[id].value)
              ELSE main' = "returning" /\ UNCHANGED <<m_serverConfigNode, m_data>>
    /\ UNCHANGED <<m_root, pinned, file, watchVars, sourceVars, held, reloads>>

\* ServeForever returns: it was told to stop, threw, or has no worker.
ServeForeverReturns ==
    /\ main = "serving"
    /\ main' = "returning"
    /\ UNCHANGED <<configVars, file, watchVars, sourceVars, m_serverConfigNode, m_data, held, reloads>>

\* main's locals are destroyed, the last one first: ServerConfig, TomlConfig
\* and the members of its source.  What others hold is of no concern any more.
DestroyConfig ==
    /\ main = "returning"
    /\ source = "alive"
    /\ DestroyMembers
    /\ m_root' = Null
    /\ m_nodes' = <<>>
    /\ nodes' = [id \in NodeId |-> Dead]
    /\ pinned' = {}
    /\ held' = {}
    /\ m_serverConfigNode' = NoNode
    /\ UNCHANGED <<main, m_data, reloads>>

DestroySource ==
    /\ main = "returning"
    /\ DestroyWatchHandle
    /\ UNCHANGED <<configVars, startVars>>

MainReturns ==
    /\ main = "returning"
    /\ source \in {"none", "gone"}
    /\ main' = "exiting"
    /\ UNCHANGED <<configVars, file, watchVars, sourceVars, m_serverConfigNode, m_data, held, reloads>>

\* g_fileWatcher is destroyed after main has returned: its thread ends first.
DestroyFileWatcher ==
    /\ main = "exiting"
    /\ callbacks = {}
    /\ Watcher!Destroy
    /\ main' = "exited"
    /\ UNCHANGED <<configVars, file, sourceVars, m_serverConfigNode, m_data, held, reloads>>

-----------------------------------------------------------------------------
(* Who holds the IConfig.  main lends it to nobody before it serves.       *)

ReloadConfig ==
    /\ main = "serving"
    /\ reloads < MaxReloads
    /\ Reload(file, file \in Document)
    /\ reloads' = reloads + 1
    /\ UNCHANGED <<file, watchVars, sourceVars, main, m_serverConfigNode, m_data, held>>

\* GetNode, and GetRootNode for the path <<>>.
AskForNode(p) ==
    /\ main = "serving"
    /\ \E id \in NodeId \cup {NoNode} : GetNode(p, id) /\ held' = (held \cup {id}) \ {NoNode}
    /\ UNCHANGED <<m_root, pinned, file, watchVars, sourceVars, main, m_serverConfigNode, m_data, reloads>>

\* A node is let go; it is freed unless ServerConfig holds it too.
LetGo(id) ==
    /\ main = "serving"
    /\ id \in held
    /\ held' = held \ {id}
    /\ IF id = m_serverConfigNode THEN UNCHANGED configVars ELSE FreeNode(id)
    /\ UNCHANGED <<file, watchVars, sourceVars, main, m_serverConfigNode, m_data, reloads>>

-----------------------------------------------------------------------------
(* The file and its watcher's thread.                                      *)

Running == main \notin {"exited", "crashed"}

FileChanges ==
    /\ Running
    /\ Delete \/ \E text \in Document \cup {Garbled} : Save(text)
    /\ UNCHANGED <<configVars, startVars>>

\* The source is main's own until TomlConfig takes it.
SubscribeToSource(s) ==
    /\ main = "sourced"
    /\ Subscribe(s)
    /\ UNCHANGED <<configVars, startVars>>

SubscriberReads(s) ==
    /\ Running
    /\ ReadFirst(s)
    /\ UNCHANGED <<configVars, startVars>>

SourceIsNotified ==
    /\ Running
    /\ NotifyWatchers
    /\ UNCHANGED <<configVars, startVars>>

SubscriberIsCalled(s) ==
    /\ Running
    /\ CallSubscriber(s)
    /\ UNCHANGED <<configVars, startVars>>

\* OnFileChanged locks a mutex and copies a vector that are no more: undefined,
\* it may pass unnoticed or end the process.
DeadSourceIsNotified ==
    /\ Running
    /\ NotifiesNobody
    /\ main' \in {main, "crashed"}
    /\ UNCHANGED <<configVars, m_serverConfigNode, m_data, held, reloads>>

-----------------------------------------------------------------------------
MainStep ==
    \/ InitializeGlobalFileWatcher
    \/ CreateFromFileChecks
    \/ CreateFromFileWatches
    \/ CreateTomlConfig
    \/ CreateServerConfig
    \/ DestroyConfig
    \/ DestroySource
    \/ MainReturns
    \/ DestroyFileWatcher

UserStep ==
    \/ ReloadConfig
    \/ \E p \in Path : AskForNode(p)
    \/ \E id \in NodeId : LetGo(id)
    \/ \E s \in Subscriber : SubscribeToSource(s) \/ SubscriberReads(s)

Terminated == ~Running /\ UNCHANGED vars

Next ==
    \/ MainStep
    \/ ServeForeverReturns
    \/ UserStep
    \/ FileChanges
    \/ SourceIsNotified
    \/ DeadSourceIsNotified
    \/ \E s \in Subscriber : SubscriberIsCalled(s)
    \/ Terminated

(***************************************************************************)
(* Fairness: main's own steps and the watcher's thread go on.  A content   *)
(* of the file that the watch has not reported is reported: that is what   *)
(* ChangeIsReported of KqueueFileWatcher and WinFileWatcher say, without   *)
(* failures of the system's calls.  Nothing is assumed of how long         *)
(* ServeForever runs, or of the users.                                     *)
(***************************************************************************)
Unreported == file # Missing /\ seen[TheWatch] # content

Fairness ==
    /\ WF_vars(MainStep)
    /\ WF_vars(Unreported /\ SourceIsNotified)
    /\ \A s \in Subscriber : WF_vars(SubscriberIsCalled(s))

Spec == Init /\ [][Next]_vars
FairSpec == Spec /\ Fairness

-----------------------------------------------------------------------------
\* OnConfigChanged, ServerConfig's subscription to its node, if it were called
\* with a new value: the settings that it would leave.  No number of workers
\* leaves the one there is; a value that is no table is ignored.
OnConfigChanged(value) ==
    LET data == ParseServerConfigFromValue(value)
    IN IF Parses(value)
         THEN [data EXCEPT !.NumWorkers = IF @ > 0 THEN @ ELSE m_data.NumWorkers]
         ELSE m_data

\* IConfig.h: "Notifications will always be sent if the value of the node
\* changes", asynchronously.  So what a Reload finds in the server section is
\* applied by OnConfigChanged at some time, unless main returns or another
\* Reload finds something else.  The code violates it: Reload calls no Notify.
SettingsFollowReload ==
    \A document \in Document :
        main = "serving" /\ m_root = Create(document)
          ~> \/ main # "serving" \/ m_root # Create(document)
             \/ m_data = OnConfigChanged(Dig(m_root, <<"server">>))

\* IConfigSource.h: the source can be subscribed to changes.  A subscriber that
\* has read the file since it subscribed reads the file's last content, however
\* its saves and the callbacks interleave.
SubscriberCatchesUp ==
    \A s \in Subscriber :
        heard[s] # 0 /\ heard[s] # content /\ file # Missing
          ~> heard[s] = content \/ file = Missing \/ watch[TheWatch] # "watching" \/ ~Running
=============================================================================
