--------------------------- MODULE MessageParser ---------------------------
(***************************************************************************)
(* server/MessageParser.{h,cc} and irc/Message.{h,cc}: the incremental     *)
(* parser that RunReadLoop feeds with the bytes of a connection, as pure   *)
(* operators.                                                              *)
(*                                                                         *)
(* A byte is abstracted to one representative of each class of bytes that  *)
(* the parser treats alike.  A parser is a record of m_state, m_buffer,    *)
(* the irc::Message it fills in and the ParseState that the last Consume   *)
(* returned.                                                               *)
(***************************************************************************)
EXTENDS Naturals, Sequences, SequencesExt

CONSTANT
    CharIsSigned    \* is char signed in this build: then 0x80..0xFF < 0

ASSUME CharAssumption == CharIsSigned \in BOOLEAN

-----------------------------------------------------------------------------
(* Bytes.  "a": a letter; "1": a digit; "[": a special; "/": any other     *)
(* byte of a tag key; "high": any of 0x80..0xFF.                           *)

Byte == {"a", "1", "[", "/", "!", "@", ".", "-", ":", ";", "=", " ",
         "CR", "LF", "NUL", "high"}

IsLetter(c)  == c = "a"
IsDigit(c)   == c = "1"
IsSpecial(c) == c = "["

IsPrefixChar(c) == IsLetter(c) \/ IsDigit(c) \/ IsSpecial(c) \/ c \in {"!", ".", "@", "-", ":"}

IsParamStartChar(c) ==
    c \notin {"NUL", "CR", "LF", " ", ":"} \cup (IF CharIsSigned THEN {"high"} ELSE {})

IsTagKeyChar(c) == IsLetter(c) \/ IsDigit(c) \/ c \in {"-", "/"}

-----------------------------------------------------------------------------
(* irc::Message.  m_tags is a linked_hash_map: iterated in the order in    *)
(* which its keys were first inserted.                                     *)

EmptyMessage == [tags |-> <<>>, prefix |-> <<>>, command |-> <<>>, params |-> <<>>]

TagIndex(msg, key) == SelectInSeq(msg.tags, LAMBDA t : t.key = key)

\* AddTag(const&, const&): m_tags[key] = value.
AddTag(msg, key, value) ==
    LET i == TagIndex(msg, key) IN
    IF i = 0 THEN [msg EXCEPT !.tags = Append(@, [key |-> key, value |-> value])]
             ELSE [msg EXCEPT !.tags[i].value = value]

\* AddTag(&&, &&): m_tags.emplace, which keeps the value of a present key.
EmplaceTag(msg, key, value) ==
    IF TagIndex(msg, key) = 0 THEN AddTag(msg, key, value) ELSE msg

AddParam(msg, param) == [msg EXCEPT !.params = Append(@, param)]

\* MessageBuilder: WithTag, WithPrefix, WithCommand and WithParam for what is
\* in b, in that order, and Build.
Build(b) ==
    LET tagged == FoldLeft(LAMBDA msg, t : AddTag(msg, t.key, t.value), EmptyMessage, b.tags)
    IN  FoldLeft(AddParam, [tagged EXCEPT !.prefix = b.prefix, !.command = b.command], b.params)

-----------------------------------------------------------------------------
(* Prefixes: servername / nickname [ [ "!" user ] "@" host ].              *)

\* Labels separated by dots: none is empty or begins with a dash.
IsValidHostname(h) ==
    /\ h # <<>>
    /\ h[Len(h)] # "."
    /\ \A i \in 1..Len(h) :
          \/ IsLetter(h[i]) \/ IsDigit(h[i])
          \/ h[i] \in {"-", "."} /\ i > 1 /\ h[i - 1] # "."

\* asio::ip::make_address (external).  An IPv4 address is a hostname too; of
\* the IPv6 addresses, "::" and "::" with one group stand for all.
IsInternetAddress(h) ==
    /\ Len(h) \in 2..6
    /\ h[1] = ":" /\ h[2] = ":"
    /\ \A i \in 3..Len(h) : IsLetter(h[i]) \/ IsDigit(h[i])

IsValidNickname(n) ==
    /\ Len(n) \in 1..9
    /\ \A i \in 1..Len(n) :
          IsLetter(n[i]) \/ IsSpecial(n[i]) \/ (i > 1 /\ (IsDigit(n[i]) \/ n[i] = "-"))

\* An empty user and an empty host are taken for absent ones ("nick!" and
\* "nick@" are valid); a user needs a host and may then not be empty.
IsValidPrefix(b) ==
    LET sep  == SelectInSeq(b, LAMBDA c : c \in {"!", "@"})
        nick == IF sep = 0 THEN b ELSE SubSeq(b, 1, sep - 1)
        rest == IF sep = 0 THEN <<>> ELSE SubSeq(b, sep, Len(b))
        at   == SelectInSeq(rest, LAMBDA c : c = "@")
        host == SubSeq(rest, at + 1, Len(rest))
    IN  \/ IsValidHostname(b)
        \/ /\ IsValidNickname(nick)
           /\ \/ rest \in {<<>>, <<"!">>, <<"@">>}
              \/ /\ at # 0 /\ host # <<>>
                 /\ rest[1] = "!" => at > 2
                 /\ IsValidHostname(host) \/ IsInternetAddress(host)

-----------------------------------------------------------------------------
(* What a Consume does.  A rejected byte changes nothing but the result.   *)

Reset(p) == [p EXCEPT !.m_state = "Start", !.m_buffer = <<>>]

Fresh == [m_state |-> "Start", m_buffer |-> <<>>, message |-> EmptyMessage,
          result |-> "Incomplete"]

Reject(p)     == [p EXCEPT !.result = "Invalid"]
Goto(p, s)    == [p EXCEPT !.m_state = s]
Push(p, s, c) == [p EXCEPT !.m_state = s, !.m_buffer = Append(@, c)]

\* The buffered token goes into the message, which becomes msg.
Token(p, s, msg) == [p EXCEPT !.m_state = s, !.m_buffer = <<>>, !.message = msg]

SetPrefix(p)  == [p.message EXCEPT !.prefix = p.m_buffer]
SetCommand(p) == [p.message EXCEPT !.command = p.m_buffer]

\* StrSplit(m_buffer, MaxSplits('=', 2)) and AddTag of its first two parts: a
\* second '=' ends the value.
AddSplitTag(p) ==
    LET b    == p.m_buffer
        eq   == SelectInSeq(b, LAMBDA c : c = "=")
        tail == SubSeq(b, eq + 1, Len(b))
        eq2  == SelectInSeq(tail, LAMBDA c : c = "=")
    IN  AddTag(p.message, SubSeq(b, 1, eq - 1),
               IF eq2 = 0 THEN tail ELSE SubSeq(tail, 1, eq2 - 1))

\* After a command or a parameter: more parameters, or the end of the line.
AfterToken(c) == IF c = " " THEN "ParamStart" ELSE "Cr"

-----------------------------------------------------------------------------
(* Consume, one operator per parse state.                                  *)

InCommandNameOrNumber(p, c) ==
    CASE IsLetter(c) -> Push(p, "CommandName", c)
      [] IsDigit(c)  -> Push(p, "CommandNumber", c)
      [] OTHER       -> Reject(p)

InStart(p, c) ==
    CASE c = "@" -> Goto(p, "TagKey")
      [] c = ":" -> Goto(p, "Prefix")
      [] OTHER   -> InCommandNameOrNumber(p, c)

InTagKey(p, c) ==
    CASE IsTagKeyChar(c)                 -> Push(p, "TagKey", c)
      [] c = "=" /\ p.m_buffer # <<>>    -> Push(p, "TagValue", c)
      [] c = " "                         -> Token(p, "AfterTags",
             IF p.m_buffer = <<>> THEN p.message ELSE EmplaceTag(p.message, p.m_buffer, <<>>))
      [] OTHER                           -> Reject(p)

InTagValue(p, c) ==
    CASE c = " "            -> Token(p, "AfterTags", AddSplitTag(p))
      [] c = ";"            -> Token(p, "TagKey", AddSplitTag(p))
      [] c \in {"CR", "LF"} -> Reject(p)
      [] OTHER              -> Push(p, "TagValue", c)

InAfterTags(p, c) ==
    CASE c = " " -> p
      [] c = ":" -> Goto(p, "Prefix")
      [] OTHER   -> InCommandNameOrNumber(p, c)

InPrefix(p, c) ==
    CASE IsPrefixChar(c) -> Push(p, "Prefix", c)
      [] c = " " /\ IsValidPrefix(p.m_buffer) -> Token(p, "CommandNameOrNumber", SetPrefix(p))
      [] OTHER -> Reject(p)

InCommandName(p, c) ==
    CASE IsLetter(c)         -> Push(p, "CommandName", c)
      [] c \in {" ", "CR"}   -> Token(p, AfterToken(c), SetCommand(p))
      [] OTHER               -> Reject(p)

\* Mutant of InCommandNumber: a number of more than three digits is taken.
InCommandNumberLong(p, c) ==
    CASE c \in {" ", "CR"} /\ Len(p.m_buffer) >= 3 -> Token(p, AfterToken(c), SetCommand(p))
      [] IsDigit(c)                                -> Push(p, "CommandNumber", c)
      [] OTHER                                     -> Reject(p)

InCommandNumber(p, c) ==
    CASE c \in {" ", "CR"} /\ Len(p.m_buffer) = 3 -> Token(p, AfterToken(c), SetCommand(p))
      [] IsDigit(c) /\ Len(p.m_buffer) < 3        -> Push(p, "CommandNumber", c)
      [] OTHER                                    -> Reject(p)

\* A byte that can begin no parameter, LF among them, is skipped.
InParamStart(p, c) ==
    CASE c = ":"             -> Goto(p, "Trailing")
      [] IsParamStartChar(c) -> Push(p, "Param", c)
      [] c = "CR"            -> Goto(p, "Cr")
      [] OTHER               -> p

InParam(p, c) ==
    CASE c \in {" ", "CR"}               -> Token(p, AfterToken(c), AddParam(p.message, p.m_buffer))
      [] IsParamStartChar(c) \/ c = ":"  -> Push(p, "Param", c)
      [] OTHER                           -> Reject(p)

\* m_buffer is moved from and not cleared: empty, as AddParam took its storage.
InTrailing(p, c) ==
    CASE c = "CR"                              -> Token(p, "Cr", AddParam(p.message, p.m_buffer))
      [] IsParamStartChar(c) \/ c \in {":", " "} -> Push(p, "Trailing", c)
      [] OTHER                                 -> Reject(p)

InCr(p, c) ==
    IF c = "LF" THEN [p EXCEPT !.m_state = "Complete", !.result = "Complete"]
                ELSE Reject(p)

Consume(p, c) ==
    IF c = "NUL" THEN Reject(p) ELSE
    CASE p.m_state = "Start"                 -> InStart(p, c)
      [] p.m_state = "TagKey"                -> InTagKey(p, c)
      [] p.m_state = "TagValue"              -> InTagValue(p, c)
      [] p.m_state = "AfterTags"             -> InAfterTags(p, c)
      [] p.m_state = "Prefix"                -> InPrefix(p, c)
      [] p.m_state = "CommandNameOrNumber"   -> InCommandNameOrNumber(p, c)
      [] p.m_state = "CommandName"           -> InCommandName(p, c)
      [] p.m_state = "CommandNumber"         -> InCommandNumber(p, c)
      [] p.m_state = "ParamStart"            -> InParamStart(p, c)
      [] p.m_state = "Param"                 -> InParam(p, c)
      [] p.m_state = "Trailing"              -> InTrailing(p, c)
      [] p.m_state = "Cr"                    -> InCr(p, c)
      [] p.m_state = "Complete"              -> [p EXCEPT !.result = "Complete"]

\* Parse of a whole text by a fresh parser: it stops at the first byte that
\* completes the message or is invalid.
ParseByte(p, c) == IF p.result = "Incomplete" THEN Consume(p, c) ELSE p

Parse(text) == FoldLeft(ParseByte, Fresh, text)
=============================================================================
