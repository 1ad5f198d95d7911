--------------------------- MODULE ServerLifecycle ---------------------------
(***************************************************************************)
(* What Server promises whoever starts it: it serves each client once and  *)
(* under an id of its own, accepts nobody once it drains, ends every       *)
(* connection it has, and stops only after the last one has ended.  It may *)
(* abandon its drain: then it waits for the clients to leave.              *)
(***************************************************************************)
CONSTANT Client

VARIABLES
    phase,  \* "idle", "serving", "draining", "abandoned" or "stopped"
    live,   \* the clients connected now
    used    \* the clients that ever were

vars == <<phase, live, used>>

Init == phase = "idle" /\ live = {} /\ used = {}

Start ==
    /\ phase = "idle"
    /\ phase' = "serving"
    /\ UNCHANGED <<live, used>>

Accept(c) ==
    /\ phase = "serving"
    /\ c \notin used
    /\ live' = live \cup {c}
    /\ used' = used \cup {c}
    /\ UNCHANGED phase

Drop(c) ==
    /\ c \in live
    /\ live' = live \ {c}
    /\ UNCHANGED <<phase, used>>

Drain ==
    /\ phase = "serving"
    /\ phase' \in {"draining", "abandoned"}
    /\ UNCHANGED <<live, used>>

Stop ==
    /\ phase \in {"draining", "abandoned"}
    /\ live = {}
    /\ phase' = "stopped"
    /\ UNCHANGED <<live, used>>

Next == Start \/ Drain \/ Stop \/ \E c \in Client : Accept(c) \/ Drop(c)

Spec == Init /\ [][Next]_vars

\* A draining server gets rid of its clients, and then stops.
Fairness ==
    /\ WF_vars(Stop)
    /\ \A c \in Client : WF_vars(phase = "draining" /\ Drop(c))

FairSpec == Spec /\ Fairness
=============================================================================
