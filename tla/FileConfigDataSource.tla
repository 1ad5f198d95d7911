------------------------ MODULE FileConfigDataSource ------------------------
(***************************************************************************)
(* config/FileConfigDataSource.{h,cc}: a configuration file, read when     *)
(* asked for and watched through the global file watcher, whose thread     *)
(* calls OnFileChanged.                                                    *)
(*                                                                         *)
(* The watcher is FileWatch.  The file holds a document, text that does    *)
(* not parse, or is missing; the variable content of FileWatch counts the  *)
(* contents it has had.                                                    *)
(***************************************************************************)
EXTENDS Naturals, FiniteSets

CONSTANTS
    Document,     \* the texts that parse, as the toml::table they parse to
    Garbled,      \* a text that does not
    Missing,      \* there is no file
    TheWatch,     \* the source's call of WatchFile
    Subscriber,   \* who may call Subscribe
    MaxChanges    \* bound: contents the file ever has

ASSUME SourceAssumption ==
    /\ Garbled \notin Document
    /\ Missing \notin Document \cup {Garbled}
    /\ MaxChanges \in Nat \ {0}

VARIABLES
    file,          \* the file: a Document, Garbled or Missing
    content, watch, seen, late, alive,    \* the variables of FileWatch
    source,        \* the life of the FileConfigDataSource
    m_callbacks,   \* its subscribers
    callbacks,     \* the ones NotifyWatchers has still to call
    heard          \* history: the content each subscriber read last

watchVars  == <<content, watch, seen, late, alive>>
sourceVars == <<source, m_callbacks, callbacks, heard>>

Watcher == INSTANCE FileWatch WITH Watch <- {TheWatch}

SourceTypeOK ==
    /\ file \in Document \cup {Garbled, Missing}
    /\ Watcher!TypeOK
    /\ source \in {"none", "created", "alive", "dying", "gone"}
    /\ m_callbacks \subseteq Subscriber
    /\ callbacks \subseteq Subscriber
    /\ heard \in [Subscriber -> 0..MaxChanges]

SourceInit ==
    /\ file \in Document \cup {Garbled, Missing}
    /\ content = 1
    /\ Watcher!Init
    /\ source = "none"
    /\ m_callbacks = {}
    /\ callbacks = {}
    /\ heard = [s \in Subscriber |-> 0]

-----------------------------------------------------------------------------
(* The file system (external).  An editor may pass through any content.    *)

Save(text) ==
    /\ content < MaxChanges
    /\ file' = text
    /\ Watcher!Change
    /\ UNCHANGED sourceVars

Delete ==
    /\ alive
    /\ file # Missing
    /\ file' = Missing
    /\ UNCHANGED <<watchVars, sourceVars>>

-----------------------------------------------------------------------------
(* CreateFromFile.                                                         *)

\* is_regular_file; the constructor if there is one.
CreateChecks ==
    /\ source' = IF file = Missing THEN source ELSE "created"
    /\ UNCHANGED <<file, watchVars, m_callbacks, callbacks, heard>>

\* InitializeFileWatch: WatchFile, and the source is destroyed if that fails.
InitializeFileWatch ==
    /\ Watcher!WatchFile(TheWatch)
    /\ source' = IF watch'[TheWatch] = "watching" THEN "alive" ELSE "gone"
    /\ UNCHANGED <<file, m_callbacks, callbacks, heard>>

-----------------------------------------------------------------------------
(* Subscribers.                                                            *)

\* What a subscriber's read of the file leaves it with.
Heard(s) == heard' = [heard EXCEPT ![s] = IF file = Missing THEN @ ELSE content]

Subscribe(s) ==
    /\ source = "alive"
    /\ s \notin m_callbacks
    /\ m_callbacks' = m_callbacks \cup {s}
    /\ UNCHANGED <<file, watchVars, source, callbacks, heard>>

\* A subscriber reads the file, having subscribed first.
ReadFirst(s) ==
    /\ source = "alive"
    /\ s \in m_callbacks /\ heard[s] = 0
    /\ Heard(s)
    /\ UNCHANGED <<file, watchVars, source, m_callbacks, callbacks>>

\* Mutant of NotifyWatchers: the callbacks are moved out of m_callbacks.
NotifyWatchersMoves ==
    /\ callbacks = {}
    /\ source = "alive"
    /\ Watcher!Callback(TheWatch)
    /\ callbacks' = m_callbacks
    /\ m_callbacks' = {}
    /\ UNCHANGED <<file, source, heard>>

\* The watcher's thread calls OnFileChanged; NotifyWatchers copies m_callbacks
\* under the lock, and calls them after it.
NotifyWatchers ==
    /\ callbacks = {}
    /\ source = "alive"
    /\ Watcher!Callback(TheWatch)
    /\ callbacks' = m_callbacks
    /\ UNCHANGED <<file, source, m_callbacks, heard>>

\* The thread calls OnFileChanged of a source whose members are gone.
NotifiesNobody ==
    /\ callbacks = {}
    /\ source \in {"dying", "gone"}
    /\ Watcher!Callback(TheWatch) \/ Watcher!LateCallback(TheWatch)
    /\ UNCHANGED <<file, sourceVars>>

CallSubscriber(s) ==
    /\ s \in callbacks
    /\ callbacks' = callbacks \ {s}
    /\ Heard(s)
    /\ UNCHANGED <<file, watchVars, source, m_callbacks>>

-----------------------------------------------------------------------------
(* ~FileConfigDataSource: its members go in the reverse of their order,    *)
(* m_callbacks and m_mutex before m_watchHandle, whose destructor calls    *)
(* Unwatch.                                                                *)

DestroyMembers ==
    /\ source = "alive"
    /\ source' = "dying"
    /\ m_callbacks' = {}
    /\ UNCHANGED <<file, watchVars, callbacks, heard>>

DestroyWatchHandle ==
    /\ source = "dying"
    /\ \/ Watcher!Unwatch(TheWatch) /\ UNCHANGED source
       \/ Watcher!UnwatchReturns(TheWatch) /\ source' = "gone"
    /\ UNCHANGED <<file, m_callbacks, callbacks, heard>>
=============================================================================
