---------------------------- MODULE WireClients ----------------------------
(***************************************************************************)
(* The read loop of a connection, with one of two clients at the other end *)
(* of the wire: a "peer", which sends messages through MessageSerializer,  *)
(* or a "raw" client, which sends whatever it likes.  The bytes are read   *)
(* in chunks of any size.                                                  *)
(***************************************************************************)
EXTENDS ReadLoop

CONSTANTS
    Outgoing,       \* what the peer may put into a MessageBuilder and send
    MaxMessages,    \* bound: messages the peer sends
    Fragment,       \* the pieces of text that the raw client sends
    MaxFragments,   \* bound: pieces the raw client sends
    MaxUnread       \* bound: bytes unread when the raw client sends a piece

ASSUME ClientAssumption ==
    /\ {MaxMessages, MaxFragments, MaxUnread} \subseteq Nat
    /\ \A b \in Outgoing : WellFormed(Build(b)) /\ Representable(Build(b))
    /\ Fragment \subseteq Seq(Byte)

VARIABLES
    client,         \* "peer" or "raw"
    sent,           \* the messages the peer has sent, in order
    line,           \* the number of the line being sent
    budget          \* what the client may still send

clientVars == <<client, sent, line, budget>>
vars == <<loopVars, clientVars>>

Init ==
    /\ LoopInit
    /\ client \in {"peer", "raw"}
    /\ sent = <<>>
    /\ line = 1
    /\ budget = IF client = "peer" THEN MaxMessages ELSE MaxFragments

CrLf == <<"CR", "LF">>

Send(text) ==
    /\ budget > 0
    /\ budget' = budget - 1
    /\ wire' = wire \o OnLine(text, line)
    /\ line' = IF IsSuffix(CrLf, text) THEN line + 1 ELSE line
    /\ UNCHANGED <<client, parser, lines, notified>>

\* The peer builds a message, and its write loop does WriteToBuffer and
\* async_write.
SendMessage(b) ==
    /\ client = "peer"
    /\ Send(SerializeMessage(Build(b)))
    /\ sent' = Append(sent, Build(b))

SendText(text) ==
    /\ client = "raw"
    /\ Len(wire) <= MaxUnread
    /\ Send(text)
    /\ UNCHANGED sent

Read == (\E n \in 1..BufferSize : ReadSome(n)) /\ UNCHANGED clientVars

Next ==
    \/ \E b \in Outgoing : SendMessage(b)
    \/ \E text \in Fragment \cup {CrLf} : SendText(text)
    \/ Read

Spec == Init /\ [][Next]_vars

-----------------------------------------------------------------------------
\* The messages the observers were given.
Received == [i \in 1..Len(notified) |-> notified[i].message]

\* MessageParser reads what MessageSerializer writes: however the bytes are cut
\* into reads, the observers are given the messages the peer sent, in order, and
\* every one of them by the time the wire is empty.
RoundTrip ==
    client = "peer" =>
        /\ IsPrefix(Received, sent)
        /\ wire = <<>> => Received = sent

\* What the observers are given is a message of the grammar, whatever came
\* before it on the connection and was rejected.
NotifiedIsWellFormed == \A i \in 1..Len(notified) : WellFormed(notified[i].message)

\* A message the parser let through can be relayed: MessageSerializer writes it
\* as a line that MessageParser reads as the same message (unless a tag that
\* is not the last has no value, which the serializer writes as a bare key
\* and the parser then refuses).
NotifiedCanBeRelayed ==
    \A i \in 1..Len(notified) :
        LET msg == notified[i].message
            p   == Parse(SerializeMessage(msg))
        IN  Representable(msg) => p.result = "Complete" /\ p.message = msg

\* Message.h: "A Message is the base unit of communication in the IRC protocol,
\* and represents a single line."  RunReadLoop builds each message it notifies
\* from the bytes of one line.
MessageIsASingleLine ==
    \A i \in 1..Len(notified) : \E l \in notified[i].lines : notified[i].lines = {l}
=============================================================================
