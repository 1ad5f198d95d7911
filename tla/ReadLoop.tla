------------------------------ MODULE ReadLoop ------------------------------
(***************************************************************************)
(* The parsing half of AsioConnection::RunReadLoop: what it makes of the   *)
(* bytes of one connection, as async_read_some delivers them in chunks.    *)
(* AsioConnection models when the loop runs; this module what it computes. *)
(*                                                                         *)
(* Every byte carries the number of the CRLF-terminated line that the      *)
(* client sent it in, so that a message can be traced to its lines.  The   *)
(* module has no next-state relation: WireClients adds who puts bytes on   *)
(* the wire.                                                               *)
(***************************************************************************)
EXTENDS MessageSerializer

CONSTANT BufferSize     \* m_buffer.size(): the most one read delivers

ASSUME BufferAssumption == BufferSize \in Nat \ {0}

VARIABLES
    wire,       \* bytes sent and not yet read, each with its line
    parser,     \* m_parser and m_message
    lines,      \* history: the lines the message in progress took bytes from
    notified    \* history: NotifyMessage calls, [message, lines]

loopVars == <<wire, parser, lines, notified>>

LoopInit ==
    /\ wire = <<>>
    /\ parser = Fresh
    /\ lines = {}
    /\ notified = <<>>

\* The bytes of a text, all of line l.
OnLine(text, l) == [i \in 1..Len(text) |-> [byte |-> text[i], line |-> l]]

\* Mutant of AfterComplete: m_message is not cleared.
AfterCompleteStale(p) == [Reset(p) EXCEPT !.result = "Incomplete"]

\* m_message = {} and m_parser.Reset().
AfterComplete(p) == [Reset(p) EXCEPT !.message = EmptyMessage, !.result = "Incomplete"]

\* One byte of the loop over [pos, end).  A complete message is notified; an
\* invalid byte breaks out of the loop, which leaves the parser and the
\* message as they were and the rest of the chunk unread.
ReadByte(loop, b) ==
    LET p    == Consume(loop.parser, b.byte)
        from == loop.lines \cup {b.line}
    IN  CASE loop.broken -> loop
          [] ~loop.broken /\ p.result = "Invalid" -> [loop EXCEPT !.broken = TRUE]
          [] ~loop.broken /\ p.result = "Incomplete" ->
                 [loop EXCEPT !.parser = p, !.lines = from]
          [] ~loop.broken /\ p.result = "Complete" ->
                 [loop EXCEPT !.parser = AfterComplete(p), !.lines = {},
                     !.notified = Append(@, [message |-> p.message, lines |-> from])]

\* async_read_some delivers the next n bytes and the loop goes over them.
ReadSome(n) ==
    LET loop == FoldLeft(ReadByte,
                         [parser |-> parser, lines |-> lines, notified |-> notified,
                          broken |-> FALSE],
                         SubSeq(wire, 1, n))
    IN  /\ n \in 1..BufferSize
        /\ n <= Len(wire)
        /\ wire' = SubSeq(wire, n + 1, Len(wire))
        /\ parser' = loop.parser
        /\ lines' = loop.lines
        /\ notified' = loop.notified

\* A message of the grammar: tags with different keys, no prefix or a valid one,
\* a command of letters or of three digits, and nowhere a byte that would end a
\* key, a value, a parameter or the line.
KeyByte    == {c \in Byte : IsTagKeyChar(c)}
ValueByte  == Byte \ {"NUL", "CR", "LF", " ", ";", "="}
PrefixByte == {c \in Byte : IsPrefixChar(c)}
ParamByte  == {c \in Byte : IsParamStartChar(c) \/ c \in {":", " "}}

IsCommand(t) ==
    /\ t # <<>>
    /\ \/ \A k \in 1..Len(t) : IsLetter(t[k])
       \/ Len(t) = 3 /\ \A k \in 1..3 : IsDigit(t[k])

Message ==
    [tags : Seq([key : Seq(KeyByte) \ {<<>>}, value : Seq(ValueByte)]),
     prefix : Seq(PrefixByte), command : Seq(Byte), params : Seq(Seq(ParamByte))]

WellFormed(msg) ==
    /\ msg \in Message
    /\ \A i, j \in 1..Len(msg.tags) : msg.tags[i].key = msg.tags[j].key => i = j
    /\ msg.prefix = <<>> \/ IsValidPrefix(msg.prefix)
    /\ IsCommand(msg.command)

\* What the wire format can carry: of the parameters only the last may be
\* empty, begin with a colon or hold a space, and of the tags only the last
\* may have no value (the parser takes no ";" after a bare key).
Representable(msg) ==
    /\ \A i \in 1..Len(msg.params) - 1 : ~RequiresTrailingMarker(msg.params[i])
    /\ \A i \in 1..Len(msg.tags) - 1 : msg.tags[i].value # <<>>
=============================================================================
