------------------------------ MODULE FileWatch ------------------------------
(***************************************************************************)
(* What an IFileWatcher (util/IFileWatcher.h) promises to those who call   *)
(* WatchFile on one path: KqueueFileWatcher and WinFileWatcher implement   *)
(* it, Configuration is built on it.                                       *)
(*                                                                         *)
(* The path has a content, which changes.  While a watch is watching, a    *)
(* callback lets its user read the content of that moment.  Unwatch does   *)
(* not wait for a callback: one may be called after it has returned, and   *)
(* no more than one.  Nothing is called once the watcher is destroyed, and *)
(* it is not destroyed inside a call of Unwatch.                           *)
(***************************************************************************)
EXTENDS Naturals

CONSTANT Watch    \* the calls of WatchFile

VARIABLES
    content,   \* how often the path has got a new content
    watch,     \* where the user of each watch is
    seen,      \* the content that user read last, 0 before and after watching
    late,      \* callbacks that came after Unwatch had returned
    alive      \* has the watcher not been destroyed

vars == <<content, watch, seen, late, alive>>

WatchState == {"none", "watching", "leaving", "left", "failed"}

TypeOK ==
    /\ content \in Nat
    /\ watch \in [Watch -> WatchState]
    /\ seen \in [Watch -> Nat]
    /\ late \in [Watch -> 0..1]
    /\ alive \in BOOLEAN

Init ==
    /\ content \in Nat
    /\ watch = [w \in Watch |-> "none"]
    /\ seen = [w \in Watch |-> 0]
    /\ late = [w \in Watch |-> 0]
    /\ alive = TRUE

Change ==
    /\ alive
    /\ content' = content + 1
    /\ UNCHANGED <<watch, seen, late, alive>>

\* WatchFile returns a handle, and its user reads the file; or it fails.
WatchFile(w) ==
    /\ alive /\ watch[w] = "none"
    /\ \/ /\ watch' = [watch EXCEPT ![w] = "watching"]
          /\ seen' = [seen EXCEPT ![w] = content]
       \/ watch' = [watch EXCEPT ![w] = "failed"] /\ UNCHANGED seen
    /\ UNCHANGED <<content, late, alive>>

Callback(w) ==
    /\ alive /\ watch[w] \in {"watching", "leaving"}
    /\ seen' = [seen EXCEPT ![w] = IF watch[w] = "watching" THEN content ELSE @]
    /\ UNCHANGED <<content, watch, late, alive>>

LateCallback(w) ==
    /\ alive /\ watch[w] = "left"
    /\ late[w] = 0
    /\ late' = [late EXCEPT ![w] = 1]
    /\ UNCHANGED <<content, watch, seen, alive>>

Unwatch(w) ==
    /\ alive /\ watch[w] = "watching"
    /\ watch' = [watch EXCEPT ![w] = "leaving"]
    /\ seen' = [seen EXCEPT ![w] = 0]
    /\ UNCHANGED <<content, late, alive>>

UnwatchReturns(w) ==
    /\ alive /\ watch[w] = "leaving"
    /\ watch' = [watch EXCEPT ![w] = "left"]
    /\ UNCHANGED <<content, seen, late, alive>>

Destroy ==
    /\ alive
    /\ \A w \in Watch : watch[w] # "leaving"
    /\ alive' = FALSE
    /\ UNCHANGED <<content, watch, seen, late>>

Next ==
    \/ Change
    \/ \E w \in Watch :
          WatchFile(w) \/ Callback(w) \/ LateCallback(w) \/ Unwatch(w) \/ UnwatchReturns(w)
    \/ Destroy

Spec == Init /\ [][Next]_vars
=============================================================================
