---------------------------- MODULE ResponseQueue ----------------------------
(***************************************************************************)
(* What DeliverResponse promises its callers, whatever the connection does *)
(* inside: responses reach the socket in the order they were accepted,     *)
(* none is skipped or repeated, at most Capacity + 1 of them are waiting,  *)
(* a response is refused only when Capacity are waiting or the connection  *)
(* has closed, and closing is final.                                       *)
(***************************************************************************)
EXTENDS Naturals, Sequences

CONSTANTS Client, Message, Capacity

VARIABLES
    accepted,   \* responses answered with WriteResult::Sent
    delivered,  \* responses written to the socket
    open,       \* may responses still be accepted
    refused     \* the last response was refused

vars == <<accepted, delivered, open, refused>>

Waiting(c) == Len(accepted[c]) - Len(delivered[c])

Init ==
    /\ accepted = [c \in Client |-> <<>>]
    /\ delivered = [c \in Client |-> <<>>]
    /\ open = [c \in Client |-> TRUE]
    /\ refused = [c \in Client |-> FALSE]

Accept(c, m) ==
    /\ open[c]
    /\ Waiting(c) <= Capacity
    /\ accepted' = [accepted EXCEPT ![c] = Append(@, m)]
    /\ refused' = [refused EXCEPT ![c] = FALSE]
    /\ UNCHANGED <<delivered, open>>

Refuse(c) ==
    /\ ~open[c] \/ Waiting(c) >= Capacity
    /\ refused' = [refused EXCEPT ![c] = TRUE]
    /\ UNCHANGED <<accepted, delivered, open>>

Deliver(c) ==
    /\ open[c]
    /\ Waiting(c) > 0
    /\ delivered' = [delivered EXCEPT ![c] = Append(@, accepted[c][Len(@) + 1])]
    /\ UNCHANGED <<accepted, open, refused>>

Close(c) ==
    /\ open[c]
    /\ open' = [open EXCEPT ![c] = FALSE]
    /\ UNCHANGED <<accepted, delivered, refused>>

Next ==
    \E c \in Client :
        (\E m \in Message : Accept(c, m)) \/ Refuse(c) \/ Deliver(c) \/ Close(c)

Spec == Init /\ [][Next]_vars
=============================================================================
