----------------------------- MODULE WireProofs -----------------------------
(***************************************************************************)
(* Proofs about the read loop and the parser it feeds: whatever the bytes  *)
(* and the cuts between the reads, what the observers are given is well    *)
(* formed; and the parser reads what the serializer writes.                *)
(*                                                                         *)
(* The parser's invariant is shown of one Consume, state by state; then of *)
(* one turn of the loop, of the loop over a chunk (a fold, by induction    *)
(* over the chunk's length), and of the specification.  What a serialized  *)
(* message is parsed to is computed part by part.                          *)
(***************************************************************************)
EXTENDS WireClients, FoldProofs

-----------------------------------------------------------------------------
(* The parser's invariant.                                                 *)

Text == Seq(Byte)

KeyText   == Seq(KeyByte) \ {<<>>}
ValueText == Seq(ValueByte)
Tag       == [key : KeyText, value : ValueText]

DistinctKeys(tags) == \A i, j \in 1..Len(tags) : tags[i].key = tags[j].key => i = j

\* A message in progress.
Partial(msg) ==
    /\ msg \in Message
    /\ DistinctKeys(msg.tags)
    /\ msg.prefix = <<>> \/ IsValidPrefix(msg.prefix)

ParseState ==
    {"Start", "TagKey", "TagValue", "AfterTags", "Prefix", "CommandNameOrNumber", "CommandName",
     "CommandNumber", "ParamStart", "Param", "Trailing", "Cr", "Complete"}

Parser ==
    [m_state : ParseState, m_buffer : Text, message : Message,
     result : {"Incomplete", "Complete", "Invalid"}]

\* The states after the command.
HasCommand == {"ParamStart", "Param", "Trailing", "Cr", "Complete"}

\* The states that begin a token.
Empty == {"Start", "AfterTags", "CommandNameOrNumber", "ParamStart", "Cr", "Complete"}

\* A key, "=", and what AddSplitTag makes a value of.
IsTagText(b) ==
    \E e \in 2..Len(b) :
        /\ b[e] = "="
        /\ \A i \in 1..e - 1 : b[i] \in KeyByte
        /\ \A i \in e + 1..Len(b) : b[i] \in ValueByte \cup {"="}

IsLetters(b) == b # <<>> /\ \A k \in 1..Len(b) : IsLetter(b[k])
IsDigits(b)  == b # <<>> /\ Len(b) <= 3 /\ \A k \in 1..Len(b) : IsDigit(b[k])

\* What the buffer holds in a state.
BufferIn(s, b) ==
    /\ s \in Empty => b = <<>>
    /\ s = "TagKey" => b \in Seq(KeyByte)
    /\ s = "TagValue" => IsTagText(b)
    /\ s = "Prefix" => b \in Seq(PrefixByte)
    /\ s = "CommandName" => IsLetters(b)
    /\ s = "CommandNumber" => IsDigits(b)
    /\ s \in {"Param", "Trailing"} => b \in Seq(ParamByte)

ParserInv(p) ==
    /\ p \in Parser
    /\ Partial(p.message)
    /\ BufferIn(p.m_state, p.m_buffer)
    /\ p.m_state \in HasCommand => IsCommand(p.message.command)

\* What a Consume may do with a parser that has no result yet.
Consumed(p) ==
    /\ ParserInv(p)
    /\ p.result = "Complete" => p.m_state = "Complete"

Open(p) == ParserInv(p) /\ p.result = "Incomplete"


-----------------------------------------------------------------------------
(* What a Consume is made of.                                              *)

LEMMA BytesAreBytes ==
  KeyByte \subseteq Byte /\ ValueByte \subseteq Byte /\ PrefixByte \subseteq Byte /\ ParamByte \subseteq Byte
  BY DEF KeyByte, ValueByte, PrefixByte, ParamByte

LEMMA OpenIs ==
  ASSUME NEW p, Open(p)
  PROVE  /\ p \in Parser /\ ParserInv(p) /\ p.result = "Incomplete"
         /\ p.m_buffer \in Text /\ Len(p.m_buffer) \in Nat
         /\ p.message \in Message /\ Partial(p.message)
         /\ Consumed(p)
  <1>1. p \in Parser /\ p.m_buffer \in Text
    BY DEF Open, ParserInv, Parser
  <1>2. Len(p.m_buffer) \in Nat
    BY <1>1, LenProperties DEF Text
  <1> QED BY <1>1, <1>2 DEF Open, ParserInv, Parser, Consumed

LEMMA RejectOK ==
  ASSUME NEW p, ParserInv(p)
  PROVE  Consumed(Reject(p))
  <1>1. Reject(p) = [p EXCEPT !.result = "Invalid"] /\ p \in Parser
    BY DEF Reject, ParserInv
  <1>2. Reject(p) \in Parser
    BY <1>1 DEF Parser
  <1>3. /\ Reject(p).m_state = p.m_state /\ Reject(p).m_buffer = p.m_buffer
        /\ Reject(p).message = p.message /\ Reject(p).result = "Invalid"
    BY <1>1 DEF Parser
  <1> QED BY <1>2, <1>3 DEF Consumed, ParserInv

LEMMA GotoOK ==
  ASSUME NEW p, Open(p), NEW s \in ParseState, BufferIn(s, p.m_buffer),
         s \in HasCommand => IsCommand(p.message.command)
  PROVE  Consumed(Goto(p, s))
  <1> DEFINE q == Goto(p, s)
  <1>1. q = [p EXCEPT !.m_state = s] /\ p \in Parser
    BY DEF Goto, Open, ParserInv
  <1>2. q \in Parser
    BY <1>1 DEF Parser
  <1>3. q.m_state = s /\ q.m_buffer = p.m_buffer /\ q.message = p.message /\ q.result = p.result
    BY <1>1 DEF Parser
  <1> HIDE DEF q
  <1>4. Consumed(q)
    BY <1>2, <1>3 DEF Consumed, Open, ParserInv
  <1> QED BY <1>4 DEF q

LEMMA PushOK ==
  ASSUME NEW p, Open(p), NEW s \in ParseState, NEW c \in Byte, BufferIn(s, Append(p.m_buffer, c)),
         s \in HasCommand => IsCommand(p.message.command)
  PROVE  Consumed(Push(p, s, c))
  <1> DEFINE q == Push(p, s, c)
             b == Append(p.m_buffer, c)
  <1>1. q = [p EXCEPT !.m_state = s, !.m_buffer = b] /\ p \in Parser
    BY DEF Push, Open, ParserInv
  <1>2. b \in Text
    BY OpenIs, AppendProperties DEF Text
  <1> HIDE DEF b
  <1>3. q.m_state = s /\ q.m_buffer = b /\ q.message = p.message /\ q.result = p.result
    BY <1>1 DEF Parser
  <1>4. q \in Parser
    BY <1>1, <1>2 DEF Parser
  <1> HIDE DEF q
  <1>5. Consumed(q)
    BY <1>3, <1>4 DEF Consumed, Open, ParserInv, b
  <1> QED BY <1>5 DEF q

LEMMA TokenOK ==
  ASSUME NEW p, Open(p), NEW s \in ParseState, BufferIn(s, <<>>),
         NEW msg, Partial(msg), s \in HasCommand => IsCommand(msg.command)
  PROVE  Consumed(Token(p, s, msg))
  <1> DEFINE q == Token(p, s, msg)
  <1>1. q = [p EXCEPT !.m_state = s, !.m_buffer = <<>>, !.message = msg] /\ p \in Parser
    BY DEF Token, Open, ParserInv
  <1>2. <<>> \in Text /\ msg \in Message
    BY DEF Text, Partial
  <1>3. q \in Parser
    BY <1>1, <1>2 DEF Parser
  <1>4. q.m_state = s /\ q.m_buffer = <<>> /\ q.message = msg /\ q.result = p.result
    BY <1>1 DEF Parser
  <1> HIDE DEF q
  <1>5. Consumed(q)
    BY <1>3, <1>4 DEF Consumed, Open, ParserInv
  <1> QED BY <1>5 DEF q


-----------------------------------------------------------------------------
(* The buffer.                                                             *)

LEMMA NothingBuffered ==
  ASSUME NEW s \in ParseState, s \notin {"TagValue", "CommandName", "CommandNumber"}
  PROVE  BufferIn(s, <<>>)
  <1>1. <<>> \in Seq(KeyByte) /\ <<>> \in Seq(PrefixByte) /\ <<>> \in Seq(ParamByte)
    BY EmptySeq
  <1> QED BY <1>1 DEF BufferIn

\* A token of which every byte is of one kind grows.
LEMMA TokenGrows ==
  ASSUME NEW b, NEW c \in Byte
  PROVE  /\ b \in Seq(KeyByte) /\ c \in KeyByte => BufferIn("TagKey", Append(b, c))
         /\ b \in Seq(PrefixByte) /\ c \in PrefixByte => BufferIn("Prefix", Append(b, c))
         /\ b \in Seq(ParamByte) /\ c \in ParamByte =>
               BufferIn("Param", Append(b, c)) /\ BufferIn("Trailing", Append(b, c))
  <1>1. /\ b \in Seq(KeyByte) /\ c \in KeyByte => Append(b, c) \in Seq(KeyByte)
        /\ b \in Seq(PrefixByte) /\ c \in PrefixByte => Append(b, c) \in Seq(PrefixByte)
        /\ b \in Seq(ParamByte) /\ c \in ParamByte => Append(b, c) \in Seq(ParamByte)
    BY AppendProperties
  <1> QED BY <1>1 DEF BufferIn, Empty

LEMMA CommandGrows ==
  ASSUME NEW b \in Text, NEW c \in Byte
  PROVE  /\ IsLetter(c) /\ (b = <<>> \/ IsLetters(b)) => BufferIn("CommandName", Append(b, c))
         /\ IsDigit(c) /\ (b = <<>> \/ IsDigits(b)) /\ Len(b) < 3 =>
               BufferIn("CommandNumber", Append(b, c))
  <1>1. Len(b) \in Nat
    BY LenProperties DEF Text
  <1>2. /\ Append(b, c) \in Text /\ Len(Append(b, c)) = Len(b) + 1 /\ Append(b, c) # <<>>
        /\ \A k \in 1..Len(b) : Append(b, c)[k] = b[k]
        /\ Append(b, c)[Len(b) + 1] = c
    BY AppendProperties DEF Text
  <1> DEFINE t == Append(b, c)
  <1> HIDE DEF t
  <1>3. ASSUME IsLetter(c), b = <<>> \/ IsLetters(b) PROVE IsLetters(t)
    <2>1. \A k \in 1..Len(b) : IsLetter(b[k])
      BY <1>3 DEF IsLetters
    <2> QED BY <1>1, <1>2, <1>3, <2>1 DEF IsLetters, t
  <1>4. ASSUME IsDigit(c), b = <<>> \/ IsDigits(b), Len(b) < 3 PROVE IsDigits(t)
    <2>1. \A k \in 1..Len(b) : IsDigit(b[k])
      BY <1>4 DEF IsDigits
    <2> QED BY <1>1, <1>2, <1>4, <2>1 DEF IsDigits, t
  <1> QED BY <1>3, <1>4 DEF BufferIn, Empty, t

LEMMA TagGrows ==
  ASSUME NEW b \in Text, NEW c \in Byte
  PROVE  /\ b \in Seq(KeyByte) /\ b # <<>> /\ c = "=" => BufferIn("TagValue", Append(b, c))
         /\ IsTagText(b) /\ c \in ValueByte \cup {"="} => BufferIn("TagValue", Append(b, c))
  <1>1. Len(b) \in Nat /\ (b # <<>> => Len(b) > 0)
    BY LenProperties, EmptySeq DEF Text
  <1> DEFINE t == Append(b, c)
  <1>2. /\ Len(t) = Len(b) + 1 /\ t[Len(b) + 1] = c
        /\ \A k \in 1..Len(b) : t[k] = b[k]
    BY AppendProperties DEF Text
  <1> HIDE DEF t
  <1>3. ASSUME b \in Seq(KeyByte), b # <<>>, c = "=" PROVE IsTagText(t)
    <2>1. \A i \in 1..Len(b) : b[i] \in KeyByte
      BY <1>3, ElementOfSeq
    <2>2. Len(b) + 1 \in 2..Len(t)
      BY <1>1, <1>2, <1>3
    <2> QED BY <1>1, <1>2, <1>3, <2>1, <2>2 DEF IsTagText
  <1>4. ASSUME IsTagText(b), c \in ValueByte \cup {"="} PROVE IsTagText(t)
    <2>1. PICK e \in 2..Len(b) :
             /\ b[e] = "="
             /\ \A i \in 1..e - 1 : b[i] \in KeyByte
             /\ \A i \in e + 1..Len(b) : b[i] \in ValueByte \cup {"="}
      BY <1>4 DEF IsTagText
    <2>2. e \in 2..Len(t) /\ t[e] = "=" /\ \A i \in 1..e - 1 : t[i] \in KeyByte
      BY <1>1, <1>2, <2>1
    <2>3. \A i \in e + 1..Len(t) : t[i] \in ValueByte \cup {"="}
      BY <1>1, <1>2, <1>4, <2>1
    <2> QED BY <2>2, <2>3 DEF IsTagText
  <1> QED BY <1>3, <1>4 DEF BufferIn, Empty, t



-----------------------------------------------------------------------------
(* irc::Message.                                                           *)

LEMMA MessageIs ==
  Message = [tags : Seq(Tag), prefix : Seq(PrefixByte), command : Text, params : Seq(Seq(ParamByte))]
  BY DEF Message, Tag, KeyText, ValueText, Text

\* A change of a message that concerns neither its prefix nor its command.
SameHead(m, msg) ==
    /\ m \in Message /\ m.prefix = msg.prefix /\ m.command = msg.command
    /\ DistinctKeys(msg.tags) => DistinctKeys(m.tags)

\* A step that keeps the head of the message keeps what is known of it.
LEMMA HeadOK ==
  ASSUME NEW msg, Partial(msg), NEW m, SameHead(m, msg)
  PROVE  Partial(m) /\ (IsCommand(msg.command) => IsCommand(m.command))
  BY DEF SameHead, Partial

\* TagIndex finds the tag with the key, if there is one.
LEMMA TagIndexIs ==
  ASSUME NEW msg, msg.tags \in Seq(Tag), NEW key
  PROVE  /\ Len(msg.tags) \in Nat /\ TagIndex(msg, key) \in 0..Len(msg.tags)
         /\ TagIndex(msg, key) = 0 => \A i \in 1..Len(msg.tags) : msg.tags[i].key # key
         /\ TagIndex(msg, key) # 0 => msg.tags[TagIndex(msg, key)].key = key
         /\ (\A i \in 1..Len(msg.tags) : msg.tags[i].key # key) => TagIndex(msg, key) = 0
  <1>1. Len(msg.tags) \in Nat
    BY LenProperties
  <1> DEFINE found == {i \in 1..Len(msg.tags) : msg.tags[i].key = key}
  <1>2. found \in SUBSET (1..Len(msg.tags)) /\ found \in SUBSET Nat
    BY <1>1
  <1>3. TagIndex(msg, key) = IF found # {} THEN Min(found) ELSE 0
    BY DEF TagIndex, SelectInSeq
  <1>4. found # {} => Min(found) \in found
    <2> HIDE DEF found
    <2> QED BY <1>2, MinIsMinimal
  <1>5. Min(found) \in found => Min(found) # 0
    BY <1>1
  <1>6. \A i \in found : i \in 1..Len(msg.tags) /\ msg.tags[i].key = key
    OBVIOUS
  <1>7. found = {} <=> \A i \in 1..Len(msg.tags) : msg.tags[i].key # key
    OBVIOUS
  <1> HIDE DEF found
  <1> QED BY <1>1, <1>2, <1>3, <1>4, <1>5, <1>6, <1>7, SelectedIsIndex

LEMMA AddTagOK ==
  ASSUME NEW msg \in Message, NEW key \in KeyText, NEW value \in ValueText
  PROVE  SameHead(AddTag(msg, key, value), msg)
  <1> DEFINE i == TagIndex(msg, key)
             new == [key |-> key, value |-> value]
             tags == msg.tags
  <1>0. tags \in Seq(Tag)
    BY MessageIs
  <1>1. /\ Len(tags) \in Nat /\ i \in 0..Len(tags)
        /\ i = 0 => \A k \in 1..Len(tags) : tags[k].key # key
    BY <1>0, TagIndexIs
  <1>2. CASE i = 0
    <2>1. AddTag(msg, key, value) = [msg EXCEPT !.tags = Append(@, new)]
      BY <1>2 DEF AddTag
    <2>2. new \in Tag /\ new.key = key
      BY DEF Tag
    <2> HIDE DEF new
    <2>3. /\ Append(tags, new) \in Seq(Tag) /\ Len(Append(tags, new)) = Len(tags) + 1
          /\ \A k \in 1..Len(tags) : Append(tags, new)[k] = tags[k]
          /\ Append(tags, new)[Len(tags) + 1] = new
      BY <1>0, <2>2, AppendProperties
    <2>4. DistinctKeys(tags) => DistinctKeys(Append(tags, new))
      <3> DEFINE t == Append(tags, new)
      <3>1. /\ \A k \in 1..Len(t) : k \in 1..Len(tags) \/ k = Len(tags) + 1
            /\ \A k \in 1..Len(tags) : t[k] = tags[k] /\ tags[k].key # key
            /\ t[Len(tags) + 1].key = key
        BY <1>1, <1>2, <2>2, <2>3
      <3> HIDE DEF t, tags
      <3>2. DistinctKeys(tags) => DistinctKeys(t)
        BY <3>1 DEF DistinctKeys
      <3> QED BY <3>2 DEF t
    <2>5. [msg EXCEPT !.tags = Append(@, new)].tags = Append(tags, new)
      BY MessageIs
    <2> QED BY <2>1, <2>3, <2>4, <2>5, MessageIs DEF SameHead
  <1>3. CASE i # 0
    <2>1. AddTag(msg, key, value) = [msg EXCEPT !.tags[i].value = value]
      BY <1>3 DEF AddTag
    <2>2. i \in 1..Len(tags) /\ tags[i] \in Tag
      BY <1>0, <1>1, <1>3, ElementOfSeq
    <2> HIDE DEF i
    <2> DEFINE set == [tags[i] EXCEPT !.value = value]
               t == [tags EXCEPT ![i] = set]
    <2>3. set \in Tag /\ set.key = tags[i].key
      BY <2>2 DEF Tag
    <2>4. AddTag(msg, key, value) = [msg EXCEPT !.tags = t]
      BY <2>1
    <2> HIDE DEF set
    <2>5. t \in Seq(Tag) /\ Len(t) = Len(tags) /\ \A k \in 1..Len(tags) : t[k].key = tags[k].key
      <3>1. t \in Seq(Tag) /\ Len(t) = Len(tags)
            /\ \A k \in 1..Len(tags) : t[k] = IF k = i THEN set ELSE tags[k]
        BY <1>0, <2>2, <2>3, ExceptSeq
      <3> QED BY <2>3, <3>1
    <2> HIDE DEF t
    <2>6. DistinctKeys(tags) => DistinctKeys(t)
      BY <2>5 DEF DistinctKeys
    <2> QED BY <2>4, <2>5, <2>6, MessageIs DEF SameHead
  <1> QED BY <1>2, <1>3

LEMMA AddParamOK ==
  ASSUME NEW msg \in Message, NEW param \in Seq(ParamByte)
  PROVE  SameHead(AddParam(msg, param), msg)
  <1>1. msg.params \in Seq(Seq(ParamByte))
    BY MessageIs
  <1>2. Append(msg.params, param) \in Seq(Seq(ParamByte))
    BY <1>1, AppendProperties
  <1>3. AddParam(msg, param) = [msg EXCEPT !.params = Append(msg.params, param)]
    BY DEF AddParam
  <1> QED BY <1>2, <1>3, MessageIs DEF SameHead

\* What AddSplitTag makes of a buffer, if its key ends at e.
LEMMA SplitTag ==
  ASSUME NEW b \in Text, NEW e \in 1..Len(b), b[e] = "=",
         \A i \in 1..e - 1 : b[i] \in KeyByte,
         NEW p, p.m_buffer = b
  PROVE  \E n \in e..Len(b) :
            /\ AddSplitTag(p) = AddTag(p.message, SubSeq(b, 1, e - 1), SubSeq(b, e + 1, n))
            /\ \A i \in e + 1..n : b[i] # "="
            /\ (\A i \in e + 1..Len(b) : b[i] # "=") => n = Len(b)
  <1> DEFINE eqs(t) == {i \in 1..Len(t) : t[i] = "="}
             eq  == IF eqs(b) # {} THEN Min(eqs(b)) ELSE 0
             tail == SubSeq(b, eq + 1, Len(b))
             eq2 == IF eqs(tail) # {} THEN Min(eqs(tail)) ELSE 0
  <1>1. Len(b) \in Nat /\ \A i \in 1..Len(b) : b[i] \in Byte
    BY LenProperties, ElementOfSeq DEF Text
  <1>2. AddSplitTag(p) = AddTag(p.message, SubSeq(b, 1, eq - 1),
               IF eq2 = 0 THEN tail ELSE SubSeq(tail, 1, eq2 - 1))
    BY DEF AddSplitTag, SelectInSeq
  <1>3. eq = e
    <2>1. eqs(b) \in SUBSET Nat /\ e \in eqs(b)
      BY <1>1
    <2>2. Min(eqs(b)) \in eqs(b) /\ \A i \in eqs(b) : Min(eqs(b)) =< i
      BY <2>1, MinIsMinimal
    <2>3. \A i \in eqs(b) : i >= e
      BY <1>1 DEF KeyByte, IsTagKeyChar, IsLetter, IsDigit
    <2> QED BY <1>1, <2>1, <2>2, <2>3
  <1> HIDE DEF eq
  <1>4. /\ tail \in Text /\ Len(tail) = Len(b) - e
        /\ \A i \in 1..Len(b) - e : tail[i] = b[e + i]
    <2>1. \A i \in e + 1..Len(b) : b[i] \in Byte
      BY <1>1
    <2>2. /\ SubSeq(b, e + 1, Len(b)) \in Text
          /\ Len(SubSeq(b, e + 1, Len(b))) = IF e + 1 <= Len(b) THEN Len(b) - (e + 1) + 1 ELSE 0
          /\ \A i \in 1..Len(b) - (e + 1) + 1 : SubSeq(b, e + 1, Len(b))[i] = b[e + 1 + i - 1]
      BY <1>1, <2>1, SubSeqProperties DEF Text
    <2> QED BY <1>1, <1>3, <2>2
  <1>t. tail = SubSeq(b, e + 1, Len(b))
    BY <1>3
  <1> HIDE DEF tail
  <1>5. CASE eqs(tail) = {}
    <2>1. eq2 = 0
      BY <1>5
    <2>2. \A i \in e + 1..Len(b) : b[i] # "="
      <3> SUFFICES ASSUME NEW i \in e + 1..Len(b), b[i] = "=" PROVE FALSE
        OBVIOUS
      <3>1. i - e \in 1..Len(b) - e /\ e + (i - e) = i
        BY <1>1
      <3>2. i - e \in eqs(tail)
        BY <1>4, <3>1
      <3> QED BY <1>5, <3>2
    <2>3. AddSplitTag(p) = AddTag(p.message, SubSeq(b, 1, e - 1), SubSeq(b, e + 1, Len(b)))
      BY <1>2, <1>3, <1>t, <2>1
    <2> QED BY <1>1, <2>2, <2>3
  <1>6. CASE eqs(tail) # {}
    <2>1. eqs(tail) \in SUBSET Nat
      BY <1>1, <1>4
    <2>2. eq2 \in eqs(tail) /\ \A i \in eqs(tail) : eq2 =< i
      BY <1>6, <2>1, MinIsMinimal
    <2> HIDE DEF eq2
    <2>3. eq2 \in 1..Len(b) - e /\ b[e + eq2] = "="
      BY <1>1, <1>4, <2>2
    <2> DEFINE n == e + eq2 - 1
    <2>4. n \in e..Len(b) /\ n \in Nat
      BY <1>1, <2>3
    <2>5. \A i \in e + 1..n : b[i] # "="
      <3> SUFFICES ASSUME NEW i \in e + 1..n, b[i] = "=" PROVE FALSE
        OBVIOUS
      <3>1. i - e \in 1..Len(b) - e /\ e + (i - e) = i /\ i - e < eq2
        BY <1>1, <2>3
      <3>2. i - e \in eqs(tail)
        BY <1>4, <3>1
      <3> QED BY <1>1, <2>2, <2>3, <3>1, <3>2
    <2>6. SubSeq(tail, 1, eq2 - 1) = SubSeq(b, e + 1, n)
      <3>1. \A i \in 1..eq2 - 1 : tail[i] \in Byte /\ tail[i] = b[e + i]
        BY <1>1, <1>4, <2>3
      <3>2. \A i \in e + 1..n : b[i] \in Byte
        BY <1>1, <2>4
      <3>3. /\ SubSeq(tail, 1, eq2 - 1) \in Text
            /\ Len(SubSeq(tail, 1, eq2 - 1)) = IF 1 <= eq2 - 1 THEN eq2 - 1 - 1 + 1 ELSE 0
            /\ \A i \in 1..eq2 - 1 - 1 + 1 : SubSeq(tail, 1, eq2 - 1)[i] = tail[1 + i - 1]
        BY <2>3, <3>1, SubSeqProperties DEF Text
      <3>4. /\ SubSeq(b, e + 1, n) \in Text
            /\ Len(SubSeq(b, e + 1, n)) = IF e + 1 <= n THEN n - (e + 1) + 1 ELSE 0
            /\ \A i \in 1..n - (e + 1) + 1 : SubSeq(b, e + 1, n)[i] = b[e + 1 + i - 1]
        BY <1>1, <2>4, <3>2, SubSeqProperties DEF Text
      <3> DEFINE u == SubSeq(tail, 1, eq2 - 1)
                 v == SubSeq(b, e + 1, n)
      <3>5. u \in Text /\ v \in Text /\ Len(u) = eq2 - 1 /\ Len(v) = eq2 - 1
        BY <1>1, <2>3, <3>3, <3>4
      <3>6. \A i \in 1..eq2 - 1 : u[i] = v[i]
        BY <1>1, <2>3, <3>1, <3>3, <3>4
      <3> HIDE DEF u, v
      <3>7. u = v
        BY <3>5, <3>6, SeqEqual DEF Text
      <3> QED BY <3>7 DEF u, v
    <2>7. eq2 # 0
      BY <1>1, <2>3
    <2>8. AddSplitTag(p) = AddTag(p.message, SubSeq(b, 1, e - 1), SubSeq(b, e + 1, n))
      BY <1>2, <1>3, <2>6, <2>7 DEF eq2
    <2>9. n # Len(b) => ~(\A i \in e + 1..Len(b) : b[i] # "=")
      <3>1. e + eq2 \in e + 1..Len(b)
        BY <1>1, <2>3
      <3> QED BY <2>3, <3>1
    <2> HIDE DEF n
    <2> QED BY <2>4, <2>5, <2>8, <2>9
  <1> QED BY <1>5, <1>6

LEMMA AddSplitTagOK ==
  ASSUME NEW p \in Parser, IsTagText(p.m_buffer)
  PROVE  SameHead(AddSplitTag(p), p.message)
  <1> DEFINE b == p.m_buffer
  <1>1. b \in Text /\ Len(b) \in Nat /\ p.message \in Message
    BY LenProperties DEF Parser, Text
  <1> HIDE DEF b
  <1>2. PICK e \in 2..Len(b) :
          /\ b[e] = "="
          /\ \A i \in 1..e - 1 : b[i] \in KeyByte
          /\ \A i \in e + 1..Len(b) : b[i] \in ValueByte \cup {"="}
    BY DEF IsTagText, b
  <1>3. e \in 1..Len(b) /\ p.m_buffer = b
    BY <1>1, <1>2 DEF b
  <1>4. PICK n \in e..Len(b) :
          /\ AddSplitTag(p) = AddTag(p.message, SubSeq(b, 1, e - 1), SubSeq(b, e + 1, n))
          /\ \A i \in e + 1..n : b[i] # "="
    BY <1>1, <1>2, <1>3, SplitTag
  <1>5. SubSeq(b, 1, e - 1) \in Seq(KeyByte) /\ Len(SubSeq(b, 1, e - 1)) = e - 1
    BY <1>1, <1>2, SubSeqProperties
  <1>6. SubSeq(b, 1, e - 1) # <<>>
    BY <1>1, <1>2, <1>5, EmptySeq
  <1>7. \A i \in e + 1..n : b[i] \in ValueByte
    BY <1>1, <1>2, <1>4
  <1>8. SubSeq(b, e + 1, n) \in Seq(ValueByte)
    BY <1>1, <1>2, <1>4, <1>7, SubSeqProperties
  <1> QED BY <1>1, <1>4, <1>5, <1>6, <1>8, AddTagOK DEF KeyText, ValueText



-----------------------------------------------------------------------------
(* Consume, state by state.                                                *)

LEMMA CommandNameOrNumberOK ==
  ASSUME NEW p, Open(p), NEW c \in Byte, p.m_buffer = <<>>
  PROVE  Consumed(InCommandNameOrNumber(p, c))
  <1>1. Consumed(Reject(p))
    BY RejectOK, OpenIs
  <1>2. p.m_buffer \in Text /\ Len(p.m_buffer) < 3
    BY OpenIs
  <1>3. ASSUME IsLetter(c) PROVE Consumed(Push(p, "CommandName", c))
    BY <1>2, <1>3, CommandGrows, PushOK DEF ParseState, HasCommand
  <1>4. ASSUME IsDigit(c) PROVE Consumed(Push(p, "CommandNumber", c))
    BY <1>2, <1>4, CommandGrows, PushOK DEF ParseState, HasCommand
  <1> QED BY <1>1, <1>3, <1>4 DEF InCommandNameOrNumber

LEMMA StartOK ==
  ASSUME NEW p, Open(p), NEW c \in Byte, p.m_state \in {"Start", "AfterTags", "CommandNameOrNumber"}
  PROVE  /\ Consumed(InStart(p, c)) /\ Consumed(InAfterTags(p, c))
         /\ Consumed(InCommandNameOrNumber(p, c))
  <1>1. p.m_buffer = <<>>
    BY DEF Open, ParserInv, BufferIn, Empty
  <1>2. Consumed(Goto(p, "TagKey")) /\ Consumed(Goto(p, "Prefix"))
    BY <1>1, GotoOK, NothingBuffered DEF ParseState, HasCommand
  <1>3. Consumed(InCommandNameOrNumber(p, c))
    BY <1>1, CommandNameOrNumberOK
  <1> QED BY <1>2, <1>3, OpenIs DEF InStart, InAfterTags

LEMMA TagKeyOK ==
  ASSUME NEW p, Open(p), NEW c \in Byte, p.m_state = "TagKey"
  PROVE  Consumed(InTagKey(p, c))
  <1>0. p.m_buffer \in Seq(KeyByte)
    BY DEF Open, ParserInv, BufferIn
  <1>1. Consumed(Reject(p))
    BY RejectOK, OpenIs
  <1>2. ASSUME IsTagKeyChar(c) PROVE Consumed(Push(p, "TagKey", c))
    <2>1. c \in KeyByte
      BY <1>2 DEF KeyByte
    <2> QED BY <1>0, <2>1, TokenGrows, PushOK DEF ParseState, HasCommand
  <1>3. ASSUME c = "=", p.m_buffer # <<>> PROVE Consumed(Push(p, "TagValue", c))
    BY <1>0, <1>3, OpenIs, TagGrows, PushOK DEF ParseState, HasCommand
  <1>4. Consumed(Token(p, "AfterTags",
             IF p.m_buffer = <<>> THEN p.message ELSE EmplaceTag(p.message, p.m_buffer, <<>>)))
    <2> DEFINE m == IF p.m_buffer = <<>> THEN p.message ELSE EmplaceTag(p.message, p.m_buffer, <<>>)
    <2>1. <<>> \in ValueText /\ (p.m_buffer # <<>> => p.m_buffer \in KeyText)
      BY <1>0, EmptySeq DEF ValueText, KeyText
    <2>2. /\ p.m_buffer # <<>> => SameHead(AddTag(p.message, p.m_buffer, <<>>), p.message)
          /\ SameHead(p.message, p.message)
      BY <2>1, AddTagOK, OpenIs DEF SameHead
    <2>3. SameHead(m, p.message)
      BY <2>2 DEF EmplaceTag
    <2> HIDE DEF m
    <2>4. Partial(m)
      BY <2>3, HeadOK, OpenIs
    <2>5. Consumed(Token(p, "AfterTags", m))
      BY <2>4, TokenOK, NothingBuffered DEF ParseState, HasCommand
    <2> QED BY <2>5 DEF m
  <1> QED BY <1>1, <1>2, <1>3, <1>4 DEF InTagKey

LEMMA TagValueOK ==
  ASSUME NEW p, Open(p), NEW c \in Byte, c # "NUL", p.m_state = "TagValue"
  PROVE  Consumed(InTagValue(p, c))
  <1>0. IsTagText(p.m_buffer)
    BY DEF Open, ParserInv, BufferIn
  <1>1. Consumed(Reject(p))
    BY RejectOK, OpenIs
  <1>2. Partial(AddSplitTag(p))
    BY <1>0, AddSplitTagOK, HeadOK, OpenIs
  <1>3. Consumed(Token(p, "AfterTags", AddSplitTag(p))) /\ Consumed(Token(p, "TagKey", AddSplitTag(p)))
    BY <1>2, TokenOK, NothingBuffered DEF ParseState, HasCommand
  <1>4. ASSUME c \notin {"CR", "LF", " ", ";"} PROVE Consumed(Push(p, "TagValue", c))
    <2>1. c \in ValueByte \cup {"="}
      BY <1>4 DEF ValueByte
    <2> QED BY <1>0, <2>1, OpenIs, TagGrows, PushOK DEF ParseState, HasCommand
  <1> QED BY <1>1, <1>3, <1>4 DEF InTagValue

LEMMA PrefixStateOK ==
  ASSUME NEW p, Open(p), NEW c \in Byte, p.m_state = "Prefix"
  PROVE  Consumed(InPrefix(p, c))
  <1>0. p.m_buffer \in Seq(PrefixByte)
    BY DEF Open, ParserInv, BufferIn
  <1>1. Consumed(Reject(p))
    BY RejectOK, OpenIs
  <1>2. ASSUME IsPrefixChar(c) PROVE Consumed(Push(p, "Prefix", c))
    <2>1. c \in PrefixByte
      BY <1>2 DEF PrefixByte
    <2> QED BY <1>0, <2>1, TokenGrows, PushOK DEF ParseState, HasCommand
  <1>3. ASSUME IsValidPrefix(p.m_buffer) PROVE Consumed(Token(p, "CommandNameOrNumber", SetPrefix(p)))
    <2>1. /\ SetPrefix(p) \in Message /\ SetPrefix(p).prefix = p.m_buffer
          /\ SetPrefix(p).tags = p.message.tags
      BY <1>0, OpenIs, MessageIs DEF SetPrefix
    <2>2. Partial(SetPrefix(p))
      BY <1>3, <2>1, OpenIs DEF Partial
    <2> QED BY <2>2, TokenOK, NothingBuffered DEF ParseState, HasCommand
  <1> QED BY <1>1, <1>2, <1>3 DEF InPrefix

LEMMA SetCommandOK ==
  ASSUME NEW p, Open(p), IsCommand(p.m_buffer), NEW c
  PROVE  Consumed(Token(p, AfterToken(c), SetCommand(p)))
  <1>1. /\ SetCommand(p) \in Message /\ SetCommand(p).command = p.m_buffer
        /\ SetCommand(p).prefix = p.message.prefix /\ SetCommand(p).tags = p.message.tags
    BY OpenIs, MessageIs DEF SetCommand
  <1>2. Partial(SetCommand(p)) /\ IsCommand(SetCommand(p).command)
    BY <1>1, OpenIs DEF Partial
  <1>3. AfterToken(c) \in {"ParamStart", "Cr"}
    BY DEF AfterToken
  <1> QED BY <1>2, <1>3, TokenOK, NothingBuffered DEF ParseState

LEMMA CommandNameOK ==
  ASSUME NEW p, Open(p), NEW c \in Byte, p.m_state = "CommandName"
  PROVE  Consumed(InCommandName(p, c))
  <1>1. Consumed(Reject(p))
    BY RejectOK, OpenIs
  <1>2. IsLetters(p.m_buffer)
    BY DEF Open, ParserInv, BufferIn
  <1>3. Consumed(Token(p, AfterToken(c), SetCommand(p)))
    BY <1>2, SetCommandOK DEF IsCommand, IsLetters
  <1>4. ASSUME IsLetter(c) PROVE Consumed(Push(p, "CommandName", c))
    BY <1>2, <1>4, OpenIs, CommandGrows, PushOK DEF ParseState, HasCommand
  <1> QED BY <1>1, <1>3, <1>4 DEF InCommandName

LEMMA CommandNumberOK ==
  ASSUME NEW p, Open(p), NEW c \in Byte, p.m_state = "CommandNumber"
  PROVE  Consumed(InCommandNumber(p, c))
  <1>1. Consumed(Reject(p))
    BY RejectOK, OpenIs
  <1>2. IsDigits(p.m_buffer)
    BY DEF Open, ParserInv, BufferIn
  <1>3. ASSUME Len(p.m_buffer) = 3 PROVE Consumed(Token(p, AfterToken(c), SetCommand(p)))
    BY <1>2, <1>3, SetCommandOK DEF IsCommand, IsDigits
  <1>4. ASSUME IsDigit(c), Len(p.m_buffer) < 3 PROVE Consumed(Push(p, "CommandNumber", c))
    BY <1>2, <1>4, OpenIs, CommandGrows, PushOK DEF ParseState, HasCommand
  <1> QED BY <1>1, <1>3, <1>4 DEF InCommandNumber

LEMMA ParamStartOK ==
  ASSUME NEW p, Open(p), NEW c \in Byte, p.m_state = "ParamStart"
  PROVE  Consumed(InParamStart(p, c))
  <1>1. IsCommand(p.message.command) /\ p.m_buffer = <<>> /\ p.m_buffer \in Seq(ParamByte)
    BY EmptySeq DEF Open, ParserInv, BufferIn, Empty, HasCommand
  <1>2. Consumed(Goto(p, "Trailing")) /\ Consumed(Goto(p, "Cr"))
    BY <1>1, GotoOK, NothingBuffered DEF ParseState
  <1>3. ASSUME IsParamStartChar(c) PROVE Consumed(Push(p, "Param", c))
    <2>1. c \in ParamByte
      BY <1>3 DEF ParamByte
    <2> QED BY <1>1, <2>1, TokenGrows, PushOK DEF ParseState
  <1> QED BY <1>2, <1>3, OpenIs DEF InParamStart

LEMMA ParamOK ==
  ASSUME NEW p, Open(p), NEW c \in Byte, p.m_state \in {"Param", "Trailing"}
  PROVE  /\ Consumed(InParam(p, c)) /\ Consumed(InTrailing(p, c))
  <1>1. Consumed(Reject(p))
    BY RejectOK, OpenIs
  <1>2. IsCommand(p.message.command) /\ p.m_buffer \in Seq(ParamByte)
    BY DEF Open, ParserInv, BufferIn, HasCommand
  <1>3. ASSUME IsParamStartChar(c) \/ c \in {":", " "}
        PROVE  Consumed(Push(p, "Param", c)) /\ Consumed(Push(p, "Trailing", c))
    <2>1. c \in ParamByte
      BY <1>3 DEF ParamByte
    <2> QED BY <1>2, <2>1, TokenGrows, PushOK DEF ParseState
  <1> DEFINE m == AddParam(p.message, p.m_buffer)
  <1>4. Partial(m) /\ IsCommand(m.command)
    <2>1. SameHead(m, p.message)
      BY <1>2, AddParamOK, OpenIs
    <2> HIDE DEF m
    <2> QED BY <1>2, <2>1, HeadOK, OpenIs
  <1>5. /\ Consumed(Token(p, "Cr", AddParam(p.message, p.m_buffer)))
        /\ Consumed(Token(p, AfterToken(c), AddParam(p.message, p.m_buffer)))
    <2>1. AfterToken(c) \in {"ParamStart", "Cr"}
      BY DEF AfterToken
    <2> QED BY <1>4, <2>1, TokenOK, NothingBuffered DEF ParseState
  <1>6. Consumed(InParam(p, c))
    BY <1>1, <1>3, <1>5 DEF InParam
  <1>7. Consumed(InTrailing(p, c))
    BY <1>1, <1>3, <1>5 DEF InTrailing
  <1> QED BY <1>6, <1>7

\* At the end of the line.
LEMMA EndOK ==
  ASSUME NEW p, Open(p), NEW c \in Byte, p.m_state \in {"Cr", "Complete"}
  PROVE  /\ Consumed(InCr(p, c))
         /\ p.m_state = "Complete" => Consumed([p EXCEPT !.result = "Complete"])
  <1>1. Consumed(Reject(p))
    BY RejectOK, OpenIs
  <1>2. /\ IsCommand(p.message.command) /\ p \in Parser /\ Partial(p.message)
        /\ p.m_buffer = <<>>
    BY DEF Open, ParserInv, HasCommand, BufferIn, Empty
  <1>b. BufferIn("Complete", <<>>)
    BY NothingBuffered DEF ParseState
  <1>3. ASSUME NEW q, \/ q = [p EXCEPT !.m_state = "Complete", !.result = "Complete"]
                      \/ q = [p EXCEPT !.result = "Complete"] /\ p.m_state = "Complete"
        PROVE  Consumed(q)
    <2>1. q \in Parser
      BY <1>2, <1>3 DEF Parser, ParseState
    <2>2. q.m_state = "Complete" /\ q.message = p.message /\ q.m_buffer = <<>>
      BY <1>2, <1>3 DEF Parser
    <2> QED BY <1>2, <1>b, <2>1, <2>2 DEF Consumed, ParserInv
  <1> QED BY <1>1, <1>3 DEF InCr

LEMMA ConsumeOK ==
  ASSUME NEW p, Open(p), NEW c \in Byte
  PROVE  Consumed(Consume(p, c))
  <1>1. p.m_state \in ParseState
    BY OpenIs DEF Parser
  <1>2. CASE c = "NUL"
    BY <1>2, RejectOK, OpenIs DEF Consume
  <1>3. CASE c # "NUL" /\ p.m_state \in {"Start", "AfterTags", "CommandNameOrNumber"}
    BY <1>3, StartOK DEF Consume
  <1>4. CASE c # "NUL" /\ p.m_state \in {"TagKey", "TagValue", "Prefix"}
    BY <1>4, TagKeyOK, TagValueOK, PrefixStateOK DEF Consume
  <1>5. CASE c # "NUL" /\ p.m_state \in {"CommandName", "CommandNumber"}
    BY <1>5, CommandNameOK, CommandNumberOK DEF Consume
  <1>6. CASE c # "NUL" /\ p.m_state \in {"ParamStart", "Param", "Trailing"}
    BY <1>6, ParamStartOK, ParamOK DEF Consume
  <1>7. CASE c # "NUL" /\ p.m_state \in {"Cr", "Complete"}
    BY <1>7, EndOK DEF Consume
  <1> QED BY <1>1, <1>2, <1>3, <1>4, <1>5, <1>6, <1>7 DEF ParseState

-----------------------------------------------------------------------------
(* The loop over a chunk.                                                  *)

Reading == INSTANCE FoldProofs WITH Op <- ReadByte
Parsing == INSTANCE FoldProofs WITH Op <- ParseByte

Reads(loop, chunk) == FoldLeft(ReadByte, loop, chunk)
Run(p, text)       == FoldLeft(ParseByte, p, text)

LEMMA ReadsIsAFold == ASSUME NEW loop, NEW chunk PROVE Reads(loop, chunk) = Reading!Fold(loop, chunk)
  BY DEF Reads, FoldLeft, MapThenFoldSet, Max,
         Reading!Fold, Reading!FoldLeft, Reading!MapThenFoldSet, Reading!Max

LEMMA RunIsAFold == ASSUME NEW p, NEW text PROVE Run(p, text) = Parsing!Fold(p, text)
  BY DEF Run, FoldLeft, MapThenFoldSet, Max,
         Parsing!Fold, Parsing!FoldLeft, Parsing!MapThenFoldSet, Parsing!Max

\* What the observers may be given.
Notified == {n \in [message : Message, lines : SUBSET Nat] : WellFormed(n.message)}

LoopState ==
    {loop \in [parser : Parser, lines : SUBSET Nat, notified : Seq(Notified), broken : BOOLEAN] :
       Open(loop.parser)}

WireByte == [byte : Byte, line : Nat]

LEMMA EmptyMessageOK == Partial(EmptyMessage) /\ <<>> \in Text
  <1>1. /\ <<>> \in Text /\ <<>> \in Seq(Tag) /\ <<>> \in Seq(PrefixByte)
        /\ <<>> \in Seq(Seq(ParamByte))
    BY EmptySeq DEF Text
  <1>2. EmptyMessage \in Message
    BY <1>1, MessageIs DEF EmptyMessage
  <1>3. EmptyMessage.tags = <<>> /\ EmptyMessage.prefix = <<>> /\ DistinctKeys(<<>>)
    BY DEF EmptyMessage, DistinctKeys
  <1> QED BY <1>1, <1>2, <1>3 DEF Partial

LEMMA FreshOK == Open(Fresh)
  <1> DEFINE q == Fresh
  <1>1. /\ q \in Parser /\ q.m_state = "Start" /\ q.m_buffer = <<>> /\ q.message = EmptyMessage
        /\ q.result = "Incomplete"
    BY EmptyMessageOK DEF Fresh, Parser, ParseState, Partial
  <1>2. BufferIn("Start", <<>>)
    BY NothingBuffered DEF ParseState
  <1> HIDE DEF q
  <1>3. Open(q)
    BY <1>1, <1>2, EmptyMessageOK DEF Open, ParserInv, HasCommand
  <1> QED BY <1>3 DEF q

\* The parser is reset and the message is cleared.
LEMMA AfterCompleteIsFresh ==
  ASSUME NEW p \in Parser
  PROVE  AfterComplete(p) = Fresh
  <1> DEFINE q == AfterComplete(p)
  <1>1. EmptyMessage \in Message /\ <<>> \in Text
    BY EmptyMessageOK DEF Partial
  <1>2. /\ q \in Parser /\ Fresh \in Parser
        /\ q.m_state = "Start" /\ q.m_buffer = <<>> /\ q.message = EmptyMessage /\ q.result = "Incomplete"
    BY <1>1 DEF AfterComplete, Reset, Parser, ParseState, Fresh
  <1>3. q.m_state = Fresh.m_state /\ q.m_buffer = Fresh.m_buffer /\ q.message = Fresh.message
        /\ q.result = Fresh.result
    BY <1>2 DEF Fresh
  <1> HIDE DEF q
  <1>4. q = Fresh
    BY <1>2, <1>3 DEF Parser
  <1> QED BY <1>4 DEF q

LEMMA ReadByteOK ==
  ASSUME NEW loop \in LoopState, NEW b \in WireByte
  PROVE  ReadByte(loop, b) \in LoopState
  <1> DEFINE p == Consume(loop.parser, b.byte)
             from == loop.lines \cup {b.line}
             given == [message |-> p.message, lines |-> from]
  <1>1. /\ loop \in [parser : Parser, lines : SUBSET Nat, notified : Seq(Notified), broken : BOOLEAN]
        /\ Open(loop.parser) /\ from \in SUBSET Nat /\ b.byte \in Byte
    BY DEF LoopState, WireByte
  <1>2. Consumed(p)
    BY <1>1, ConsumeOK
  <1> HIDE DEF p, from
  <1>3. p \in Parser /\ ParserInv(p) /\ p.result \in {"Incomplete", "Complete", "Invalid"}
    BY <1>2 DEF Consumed, ParserInv, Parser
  <1>4. CASE loop.broken
    BY <1>4 DEF ReadByte
  <1>5. CASE ~loop.broken /\ p.result = "Invalid"
    <2>1. ReadByte(loop, b) = [loop EXCEPT !.broken = TRUE]
      BY <1>5 DEF ReadByte, p
    <2> QED BY <1>1, <2>1 DEF LoopState
  <1>6. CASE ~loop.broken /\ p.result = "Incomplete"
    <2>1. ReadByte(loop, b) = [loop EXCEPT !.parser = p, !.lines = from]
      BY <1>6 DEF ReadByte, p, from
    <2>2. Open(p)
      BY <1>3, <1>6 DEF Open
    <2> QED BY <1>1, <1>3, <2>1, <2>2 DEF LoopState
  <1>7. CASE ~loop.broken /\ p.result = "Complete"
    <2>1. ReadByte(loop, b) = [loop EXCEPT !.parser = Fresh, !.lines = {},
                                   !.notified = Append(@, given)]
      BY <1>3, <1>7, AfterCompleteIsFresh DEF ReadByte, p, from
    <2>2. p.message \in Message /\ Partial(p.message) /\ IsCommand(p.message.command)
      BY <1>2, <1>3, <1>7 DEF Consumed, ParserInv, Parser, HasCommand
    <2>3. WellFormed(p.message)
      BY <2>2 DEF WellFormed, Partial, DistinctKeys
    <2>4. given \in Notified
      BY <1>1, <2>2, <2>3 DEF Notified
    <2> HIDE DEF given
    <2>5. Append(loop.notified, given) \in Seq(Notified)
      BY <1>1, <2>4, AppendProperties
    <2>6. Open(Fresh) /\ Fresh \in Parser
      BY FreshOK DEF Open, ParserInv
    <2> QED BY <1>1, <2>1, <2>5, <2>6 DEF LoopState
  <1> QED BY <1>3, <1>4, <1>5, <1>6, <1>7

LEMMA ChunkOK ==
  ASSUME NEW base \in LoopState, NEW chunk \in Seq(WireByte)
  PROVE  Reads(base, chunk) \in LoopState
  BY ReadsIsAFold, ReadByteOK, Reading!FoldStays

\* However a text is cut, the loop and the parser make the same of it.
LEMMA ReadsOf ==
  ASSUME NEW base, NEW s \in Seq(WireByte)
  PROVE  /\ Reads(base, <<>>) = base
         /\ \A b \in WireByte : Reads(base, Append(s, b)) = ReadByte(Reads(base, s), b)
         /\ \A t \in Seq(WireByte) : Reads(base, s \o t) = Reads(Reads(base, s), t)
  <1>1. Reads(base, <<>>) = base
    BY ReadsIsAFold, Reading!FoldOfNothing
  <1>2. ASSUME NEW b \in WireByte PROVE Reads(base, Append(s, b)) = ReadByte(Reads(base, s), b)
    BY ReadsIsAFold, Reading!FoldOfOneMore
  <1>3. ASSUME NEW t \in Seq(WireByte) PROVE Reads(base, s \o t) = Reads(Reads(base, s), t)
    BY ReadsIsAFold, Reading!FoldOfConcat
  <1> QED BY <1>1, <1>2, <1>3

LEMMA RunOf ==
  ASSUME NEW p, NEW s \in Text
  PROVE  /\ Run(p, <<>>) = p
         /\ \A c \in Byte : Run(p, Append(s, c)) = ParseByte(Run(p, s), c)
         /\ \A t \in Text : Run(p, s \o t) = Run(Run(p, s), t)
  <1>1. Run(p, <<>>) = p
    BY RunIsAFold, Parsing!FoldOfNothing
  <1>2. ASSUME NEW c \in Byte PROVE Run(p, Append(s, c)) = ParseByte(Run(p, s), c)
    BY RunIsAFold, Parsing!FoldOfOneMore DEF Text
  <1>3. ASSUME NEW t \in Text PROVE Run(p, s \o t) = Run(Run(p, s), t)
    BY RunIsAFold, Parsing!FoldOfConcat DEF Text
  <1> QED BY <1>1, <1>2, <1>3

-----------------------------------------------------------------------------
(* What the parser makes of a token.                                       *)

\* A parser that has not rejected or completed anything.
At(s, b, m) == [m_state |-> s, m_buffer |-> b, message |-> m, result |-> "Incomplete"]

LEMMA AtPush ==
  ASSUME NEW s, NEW b, NEW m, NEW t, NEW c
  PROVE  Push(At(s, b, m), t, c) = At(t, Append(b, c), m)
  <1> DEFINE p == At(s, b, m)
             a == Append(b, c)
             q == Push(p, t, c)
             r == At(t, a, m)
             R == [m_state : {s, t}, m_buffer : {b, a}, message : {m}, result : {"Incomplete"}]
  <1> HIDE DEF a
  <1>1. p \in R /\ r \in R /\ p.m_buffer = b
    BY DEF At
  <1>2. r.m_state = t /\ r.m_buffer = a /\ r.message = m /\ r.result = "Incomplete"
    BY DEF At
  <1> HIDE DEF p, r
  <1>3. q = [p EXCEPT !.m_state = t, !.m_buffer = a]
    BY <1>1 DEF Push, a
  <1>4. q \in R /\ q.m_state = t /\ q.m_buffer = a /\ q.message = m /\ q.result = "Incomplete"
    BY <1>1, <1>3
  <1> HIDE DEF q
  <1>5. q = r
    BY <1>1, <1>2, <1>4
  <1> QED BY <1>5 DEF p, q, r, a

LEMMA AtToken ==
  ASSUME NEW s, NEW b, NEW m, NEW t, NEW n
  PROVE  Token(At(s, b, m), t, n) = At(t, <<>>, n)
  <1> DEFINE p == At(s, b, m)
             q == Token(p, t, n)
             r == At(t, <<>>, n)
             R == [m_state : {s, t}, m_buffer : {b, <<>>}, message : {m, n}, result : {"Incomplete"}]
  <1>1. p \in R /\ r \in R
    BY DEF At
  <1>2. r.m_state = t /\ r.m_buffer = <<>> /\ r.message = n /\ r.result = "Incomplete"
    BY DEF At
  <1> HIDE DEF p, r
  <1>3. q \in R /\ q.m_state = t /\ q.m_buffer = <<>> /\ q.message = n /\ q.result = "Incomplete"
    BY <1>1 DEF Token
  <1> HIDE DEF q
  <1>4. q = r
    BY <1>1, <1>2, <1>3
  <1> QED BY <1>4 DEF p, q, r

LEMMA AtIs ==
  ASSUME NEW s, NEW b, NEW m
  PROVE  /\ Fresh = At("Start", <<>>, EmptyMessage)
         /\ At(s, b, m).m_state = s /\ At(s, b, m).m_buffer = b
         /\ At(s, b, m).message = m /\ At(s, b, m).result = "Incomplete"
         /\ \A c : ParseByte(At(s, b, m), c) = Consume(At(s, b, m), c)
         /\ \A t : Goto(At(s, b, m), t) = At(t, b, m)
         /\ \A t, c : Push(At(s, b, m), t, c) = At(t, Append(b, c), m)
         /\ \A t, n : Token(At(s, b, m), t, n) = At(t, <<>>, n)
  <1>1. At(s, b, m).m_state = s /\ At(s, b, m).m_buffer = b
        /\ At(s, b, m).message = m /\ At(s, b, m).result = "Incomplete"
    BY DEF At
  <1>2. Fresh = At("Start", <<>>, EmptyMessage)
    BY DEF At, Fresh
  <1>3. ASSUME NEW t PROVE Goto(At(s, b, m), t) = At(t, b, m)
    BY DEF At, Goto
  <1>4. ASSUME NEW c PROVE ParseByte(At(s, b, m), c) = Consume(At(s, b, m), c)
    BY <1>1 DEF ParseByte
  <1> QED BY <1>1, <1>2, <1>3, <1>4, AtPush, AtToken

LEMMA RunOfConcat ==
  ASSUME NEW p, NEW s \in Text, NEW t \in Text
  PROVE  Run(p, s \o t) = Run(Run(p, s), t) /\ s \o t \in Text
  BY RunOf, ConcatProperties DEF Text

LEMMA RunOfByte ==
  ASSUME NEW p, NEW c \in Byte
  PROVE  Run(p, <<c>>) = ParseByte(p, c)
  <1>1. <<>> \in Text /\ Append(<<>>, c) = <<c>>
    BY DEF Text
  <1>2. Run(p, Append(<<>>, c)) = ParseByte(Run(p, <<>>), c)
    BY <1>1, RunOf
  <1> QED BY <1>1, <1>2, RunOf

LEMMA RunThenByte ==
  ASSUME NEW p, NEW s \in Text, NEW c \in Byte
  PROVE  /\ <<c>> \in Text /\ s \o <<c>> \in Text
         /\ Run(p, s \o <<c>>) = ParseByte(Run(p, s), c)
         /\ Run(p, <<c>> \o s) = Run(ParseByte(p, c), s) /\ <<c>> \o s \in Text
  <1>1. <<c>> \in Text
    BY DEF Text
  <1>2. /\ Run(p, s \o <<c>>) = Run(Run(p, s), <<c>>) /\ s \o <<c>> \in Text
        /\ Run(p, <<c>> \o s) = Run(Run(p, <<c>>), s) /\ <<c>> \o s \in Text
    BY <1>1, RunOfConcat
  <1> QED BY <1>1, <1>2, RunOfByte

\* A state that takes the bytes of C into the buffer and stays.
Takes(s, C, m) ==
    \A b \in Text : \A c \in C : Consume(At(s, b, m), c) = At(s, Append(b, c), m)

LEMMA RunTakes ==
  ASSUME NEW s, NEW C \in SUBSET Byte, NEW m, Takes(s, C, m), NEW b \in Text, NEW text \in Seq(C)
  PROVE  Run(At(s, b, m), text) = At(s, b \o text, m) /\ b \o text \in Text
  <1> DEFINE T == {t \in Seq(C) : Run(At(s, b, m), t) = At(s, b \o t, m)}
  <1>0. ASSUME NEW t \in Seq(C) PROVE t \in Text /\ b \o t \in Text
    <2>1. t \in Text
      BY SeqMonotonic DEF Text
    <2> QED BY <2>1, ConcatProperties DEF Text
  <1>1. <<>> \in T
    <2>1. <<>> \in Seq(C) /\ b \o <<>> = b /\ <<>> \in Text
      BY EmptySeq, ConcatEmptySeq DEF Text
    <2> QED BY <2>1, RunOf
  <1>2. ASSUME NEW t \in T, NEW c \in C PROVE Append(t, c) \in T
    <2>1. t \in Seq(C) /\ Run(At(s, b, m), t) = At(s, b \o t, m) /\ c \in Byte
      OBVIOUS
    <2>2. t \in Text /\ b \o t \in Text /\ Append(t, c) \in Seq(C)
      BY <1>0, <2>1, AppendProperties
    <2>3. Run(At(s, b, m), Append(t, c)) = ParseByte(At(s, b \o t, m), c)
      BY <2>1, <2>2, RunOf
    <2>4. ParseByte(At(s, b \o t, m), c) = At(s, Append(b \o t, c), m)
      <3> DEFINE u == b \o t
      <3>1. u \in Text
        BY <2>2
      <3> HIDE DEF u
      <3>2. ParseByte(At(s, u, m), c) = At(s, Append(u, c), m)
        BY <3>1, AtIs DEF Takes
      <3> QED BY <3>2 DEF u
    <2>5. Append(b \o t, c) = b \o Append(t, c)
      <3>1. <<c>> \in Seq(Byte) /\ t \in Seq(Byte) /\ b \in Seq(Byte) /\ b \o t \in Seq(Byte)
        BY <2>1, <2>2 DEF Text
      <3>2. Append(b \o t, c) = (b \o t) \o <<c>> /\ Append(t, c) = t \o <<c>>
        BY <2>1, <3>1, AppendIsConcat
      <3> QED BY <3>1, <3>2, ConcatAssociative
    <2> QED BY <2>2, <2>3, <2>4, <2>5
  <1> HIDE DEF T
  <1>3. T \in SUBSET Seq(C)
    BY DEF T
  <1>4. T = Seq(C)
    BY <1>1, <1>2, <1>3, SeqInduction
  <1> QED BY <1>0, <1>4 DEF T

LEMMA RunTakesAll ==
  ASSUME NEW s, NEW C \in SUBSET Byte, NEW m, Takes(s, C, m), NEW text \in Seq(C)
  PROVE  Run(At(s, <<>>, m), text) = At(s, text, m)
  <1>1. <<>> \in Text /\ <<>> \o text = text
    BY EmptySeq, ConcatEmptySeq DEF Text
  <1>2. Run(At(s, <<>>, m), text) = At(s, <<>> \o text, m)
    BY <1>1, RunTakes, Zenon
  <1> QED BY <1>1, <1>2

Letter == {c \in Byte : IsLetter(c)}

LEMMA TokensAreTaken ==
  ASSUME NEW m
  PROVE  /\ Takes("TagKey", KeyByte, m) /\ Takes("TagValue", ValueByte, m)
         /\ Takes("Prefix", PrefixByte, m) /\ Takes("CommandName", Letter, m)
         /\ Takes("Param", ParamByte \ {" "}, m) /\ Takes("Trailing", ParamByte, m)
  <1>1. ASSUME NEW p, p.m_state = "TagKey", NEW c \in KeyByte
        PROVE  Consume(p, c) = Push(p, "TagKey", c)
    BY <1>1 DEF KeyByte, IsTagKeyChar, IsLetter, IsDigit, Consume, InTagKey
  <1>2. ASSUME NEW p, p.m_state = "TagValue", NEW c \in ValueByte
        PROVE  Consume(p, c) = Push(p, "TagValue", c)
    BY <1>2 DEF ValueByte, Consume, InTagValue
  <1>3. ASSUME NEW p, p.m_state = "Prefix", NEW c \in PrefixByte
        PROVE  Consume(p, c) = Push(p, "Prefix", c)
    BY <1>3 DEF PrefixByte, IsPrefixChar, IsLetter, IsDigit, IsSpecial, Consume, InPrefix
  <1>4. ASSUME NEW p, p.m_state = "CommandName", NEW c \in Letter
        PROVE  Consume(p, c) = Push(p, "CommandName", c)
    BY <1>4 DEF Letter, IsLetter, Consume, InCommandName
  <1>5. ASSUME NEW p, p.m_state = "Param", NEW c \in ParamByte \ {" "}
        PROVE  Consume(p, c) = Push(p, "Param", c)
    BY <1>5 DEF ParamByte, IsParamStartChar, Consume, InParam
  <1>6. ASSUME NEW p, p.m_state = "Trailing", NEW c \in ParamByte
        PROVE  Consume(p, c) = Push(p, "Trailing", c)
    BY <1>6 DEF ParamByte, IsParamStartChar, Consume, InTrailing
  <1>7. ASSUME NEW s, NEW C, \A p : p.m_state = s => \A c \in C : Consume(p, c) = Push(p, s, c)
        PROVE  Takes(s, C, m)
    <2>1. ASSUME NEW b \in Text, NEW c \in C PROVE Consume(At(s, b, m), c) = At(s, Append(b, c), m)
      <3>1. Consume(At(s, b, m), c) = Push(At(s, b, m), s, c)
        BY <1>7, AtIs
      <3> QED BY <3>1, AtPush
    <2> QED BY <2>1 DEF Takes
  <1> QED BY <1>1, <1>2, <1>3, <1>4, <1>5, <1>6, <1>7

-----------------------------------------------------------------------------
(* Texts put together.                                                     *)

\* What FlattenSeq has put together after each of the texts.
Flattened(seqs, f) ==
    /\ f[0] = <<>> /\ f[Len(seqs)] = FlattenSeq(seqs)
    /\ \A i \in 0..Len(seqs) : f[i] \in Text
    /\ \A i \in 1..Len(seqs) : f[i] = f[i - 1] \o seqs[i]

LEMMA FlattenIs ==
  ASSUME NEW seqs \in Seq(Text)
  PROVE  \E f : Flattened(seqs, f)
  <1> DEFINE n == Len(seqs)
             On(k, g) == g = [i \in 1..k |-> IF i = 1 THEN seqs[i] ELSE g[i - 1] \o seqs[i]]
             T == {k \in Nat : \E g : On(k, g)}
  <1>1. 0 \in T
    <2>1. On(0, [i \in 1..0 |-> <<>>])
      OBVIOUS
    <2> QED BY <2>1
  <1>2. ASSUME NEW k \in T PROVE k + 1 \in T
    <2>1. k \in Nat
      OBVIOUS
    <2>2. PICK g : On(k, g)
      OBVIOUS
    <2> DEFINE h == [i \in 1..k + 1 |-> IF i = 1 THEN seqs[i] ELSE g[i - 1] \o seqs[i]]
    <2>3. ASSUME NEW i \in 1..k PROVE h[i] = g[i]
      <3>1. i \in 1..k + 1
        BY <2>1
      <3> QED BY <2>2, <3>1
    <2>4. ASSUME NEW i \in 1..k + 1, i # 1 PROVE h[i - 1] = g[i - 1]
      <3>1. i - 1 \in 1..k
        BY <2>1, <2>4
      <3> QED BY <2>3, <3>1
    <2>5. On(k + 1, h)
      BY <2>4
    <2> HIDE DEF h, On
    <2>6. \E g1 : On(k + 1, g1)
      BY <2>5
    <2> QED BY <2>1, <2>6
  <1>3. T = Nat
    <2> HIDE DEF T
    <2>1. T \in SUBSET Nat
      BY DEF T
    <2> QED BY <1>1, <1>2, <2>1, SetInduction
  <1>4. n \in Nat /\ n \in T /\ \A i \in 1..n : seqs[i] \in Seq(Byte)
    BY <1>3, LenProperties, ElementOfSeq DEF Text
  <1> DEFINE g == CHOOSE h : On(n, h)
             f == [i \in 0..n |-> IF i = 0 THEN <<>> ELSE g[i]]
  <1>5. On(n, g)
    <2>1. \E h : On(n, h)
      BY <1>4
    <2> HIDE DEF On
    <2> QED BY <2>1
  <1>6. FlattenSeq(seqs) = IF n = 0 THEN seqs ELSE g[n]
    BY DEF FlattenSeq
  <1> HIDE DEF g, T
  <1>7. \A i \in 1..n : g[i] = IF i = 1 THEN seqs[i] ELSE g[i - 1] \o seqs[i]
    BY <1>5
  <1> HIDE DEF On
  <1>8. f[0] = <<>> /\ \A i \in 1..n : f[i] = g[i]
    BY <1>4
  <1> HIDE DEF f
  <1>9. n = 0 => seqs = <<>>
    BY EmptySeq
  <1>10. f[n] = FlattenSeq(seqs)
    BY <1>4, <1>6, <1>8, <1>9
  <1>11. ASSUME NEW i \in 1..n PROVE f[i] = f[i - 1] \o seqs[i]
    <2>1. CASE i = 1
      <3>1. f[i] = seqs[1] /\ f[i - 1] = <<>> /\ seqs[1] \in Seq(Byte)
        BY <1>4, <1>7, <1>8, <2>1
      <3>2. <<>> \o seqs[1] = seqs[1]
        BY <3>1, ConcatEmptySeq
      <3> QED BY <2>1, <3>1, <3>2
    <2>2. CASE i # 1
      <3>1. i - 1 \in 1..n
        BY <1>4, <2>2
      <3>2. f[i] = g[i] /\ f[i - 1] = g[i - 1] /\ g[i] = g[i - 1] \o seqs[i]
        BY <1>7, <1>8, <2>2, <3>1, Zenon
      <3> QED BY <3>2
    <2> QED BY <2>1, <2>2
  <1>12. \A i \in 0..n : f[i] \in Text
    <2> DEFINE U == {k \in Nat : k <= n => f[k] \in Seq(Byte)}
    <2>1. 0 \in U
      BY <1>8, EmptySeq
    <2>2. ASSUME NEW k \in U PROVE k + 1 \in U
      <3>1. k \in Nat /\ (k <= n => f[k] \in Seq(Byte))
        OBVIOUS
      <3>2. ASSUME k + 1 <= n PROVE f[k + 1] \in Seq(Byte)
        <4>1. k <= n /\ k + 1 \in 1..n /\ (k + 1) - 1 = k
          BY <1>4, <3>1, <3>2
        <4>2. f[k + 1] = f[k] \o seqs[k + 1] /\ seqs[k + 1] \in Seq(Byte)
          BY <1>4, <1>11, <4>1
        <4> QED BY <3>1, <4>1, <4>2, ConcatProperties
      <3> QED BY <3>1, <3>2
    <2> HIDE DEF U
    <2>3. U \in SUBSET Nat
      BY DEF U
    <2>4. U = Nat
      BY <2>1, <2>2, <2>3, SetInduction
    <2> QED BY <1>4, <2>4 DEF U, Text
  <1>13. Flattened(seqs, f)
    BY <1>8, <1>10, <1>11, <1>12 DEF Flattened
  <1> QED BY <1>13

-----------------------------------------------------------------------------
(* What the parser makes of serialized tags.                               *)

Msg(t, x, c, a) == [tags |-> t, prefix |-> x, command |-> c, params |-> a]

LEMMA MsgIs ==
  ASSUME NEW t, NEW x, NEW c, NEW a
  PROVE  /\ EmptyMessage = Msg(<<>>, <<>>, <<>>, <<>>)
         /\ Msg(t, x, c, a).tags = t /\ Msg(t, x, c, a).params = a
         /\ \A u : [Msg(t, x, c, a) EXCEPT !.tags = u] = Msg(u, x, c, a)
         /\ \A u : [Msg(t, x, c, a) EXCEPT !.prefix = u] = Msg(t, u, c, a)
         /\ \A u : [Msg(t, x, c, a) EXCEPT !.command = u] = Msg(t, x, u, a)
         /\ \A u : [Msg(t, x, c, a) EXCEPT !.params = u] = Msg(t, x, c, u)
  BY DEF EmptyMessage, Msg

LEMMA MessageIsMsg ==
  ASSUME NEW msg \in Message
  PROVE  msg = Msg(msg.tags, msg.prefix, msg.command, msg.params)
  BY DEF Message, Msg

\* A tag with a new key is added at the end.
LEMMA AddNewTag ==
  ASSUME NEW tags \in Seq(Tag), NEW tag \in Tag, \A i \in 1..Len(tags) : tags[i].key # tag.key
  PROVE  /\ AddTag(Msg(tags, <<>>, <<>>, <<>>), tag.key, tag.value) = Msg(Append(tags, tag), <<>>, <<>>, <<>>)
         /\ EmplaceTag(Msg(tags, <<>>, <<>>, <<>>), tag.key, tag.value) = Msg(Append(tags, tag), <<>>, <<>>, <<>>)
  <1> DEFINE m == Msg(tags, <<>>, <<>>, <<>>)
  <1>1. m.tags = tags
    BY MsgIs
  <1>2. tag = [key |-> tag.key, value |-> tag.value]
    BY DEF Tag
  <1>3. \A u : [m EXCEPT !.tags = u] = Msg(u, <<>>, <<>>, <<>>)
    BY MsgIs
  <1> HIDE DEF m
  <1>4. TagIndex(m, tag.key) = 0
    BY <1>1, TagIndexIs
  <1>5. AddTag(m, tag.key, tag.value) = [m EXCEPT !.tags = Append(@, tag)]
    BY <1>2, <1>4 DEF AddTag
  <1>6. AddTag(m, tag.key, tag.value) = Msg(Append(tags, tag), <<>>, <<>>, <<>>)
    BY <1>1, <1>3, <1>5
  <1> QED BY <1>4, <1>6 DEF EmplaceTag, m

LEMMA TagTexts ==
  ASSUME NEW key \in KeyText, NEW value \in ValueText
  PROVE  /\ key \in Seq(KeyByte) /\ key # <<>> /\ value \in Seq(ValueByte)
         /\ key \in Seq(Byte) /\ value \in Seq(Byte)
         /\ <<"=">> \in Seq(Byte) /\ Len(<<"=">>) = 1 /\ <<"=">>[1] = "=" /\ "=" \in Byte
         /\ Len(key) \in Nat /\ Len(value) \in Nat
         /\ \A i \in 1..Len(key) : key[i] \in KeyByte
         /\ \A i \in 1..Len(value) : value[i] \in ValueByte /\ value[i] # "="
  <1>1. key \in Seq(KeyByte) /\ key # <<>> /\ value \in Seq(ValueByte)
    BY DEF KeyText, ValueText
  <1>2. key \in Seq(Byte) /\ value \in Seq(Byte)
    BY <1>1, BytesAreBytes, SeqMonotonic
  <1>3. "=" \in Byte
    BY DEF Byte
  <1>4. <<"=">> \in Seq(Byte) /\ Len(<<"=">>) = 1 /\ <<"=">>[1] = "="
    BY <1>3
  <1>5. Len(key) \in Nat /\ Len(value) \in Nat
    BY <1>1, LenProperties
  <1>6. /\ \A i \in 1..Len(key) : key[i] \in KeyByte
        /\ \A i \in 1..Len(value) : value[i] \in ValueByte
    BY <1>1, ElementOfSeq
  <1>7. "=" \notin ValueByte
    BY DEF ValueByte
  <1> QED BY <1>1, <1>2, <1>3, <1>4, <1>5, <1>6, <1>7

\* AddSplitTag takes apart what the serializer put together.
LEMMA SplitsAsWritten ==
  ASSUME NEW key \in KeyText, NEW value \in ValueText, NEW p, p.m_buffer = (key \o <<"=">>) \o value
  PROVE  AddSplitTag(p) = AddTag(p.message, key, value)
  <1> DEFINE e == Len(key) + 1
             b == (key \o <<"=">>) \o value
  <1>1. /\ key \in Seq(Byte) /\ value \in Seq(Byte) /\ <<"=">> \in Seq(Byte) /\ Len(<<"=">>) = 1
        /\ Len(key) \in Nat /\ Len(value) \in Nat /\ <<"=">>[1] = "="
    BY TagTexts
  <1>2. /\ \A i \in 1..Len(key) : key[i] \in KeyByte
        /\ \A i \in 1..Len(value) : value[i] \in ValueByte /\ value[i] # "="
    BY TagTexts
  <1> DEFINE k == key \o <<"=">>
  <1>3. /\ k \in Seq(Byte) /\ Len(k) = e
        /\ \A i \in 1..Len(key) + 1 : k[i] = IF i <= Len(key) THEN key[i] ELSE <<"=">>[i - Len(key)]
    BY <1>1, ConcatProperties
  <1>4. k[e] = "=" /\ \A i \in 1..Len(key) : k[i] = key[i]
    BY <1>1, <1>3
  <1> HIDE DEF k
  <1>5. /\ b \in Seq(Byte) /\ Len(b) = e + Len(value)
        /\ \A i \in 1..e + Len(value) : b[i] = IF i <= e THEN k[i] ELSE value[i - e]
    <2>1. b = k \o value
      BY DEF k
    <2> QED BY <1>1, <1>3, <2>1, ConcatProperties
  <1> HIDE DEF b
  <1>6. /\ e \in 1..Len(b) /\ e - 1 = Len(key) /\ b[e] = "="
        /\ \A i \in 1..e - 1 : b[i] = key[i]
        /\ \A i \in e + 1..Len(b) : b[i] = value[i - e] /\ i - e \in 1..Len(value)
    <2>1. e \in Nat /\ e \in 1..Len(b) /\ e - 1 = Len(key)
      BY <1>1, <1>5
    <2> HIDE DEF e
    <2>2. b[e] = "=" /\ \A i \in 1..e - 1 : b[i] = key[i]
      <3>1. \A i \in 1..e : b[i] = k[i]
        BY <1>1, <1>5, <2>1
      <3> QED BY <1>1, <1>4, <2>1, <3>1
    <2>3. \A i \in e + 1..Len(b) : b[i] = value[i - e] /\ i - e \in 1..Len(value)
      BY <1>1, <1>5, <2>1
    <2> QED BY <2>1, <2>2, <2>3
  <1> HIDE DEF e
  <1>7. \A i \in e + 1..Len(b) : b[i] # "="
    BY <1>2, <1>6
  <1>8. AddSplitTag(p) = AddTag(p.message, SubSeq(b, 1, e - 1), SubSeq(b, e + 1, Len(b)))
    <2>1. b \in Text /\ p.m_buffer = b /\ \A i \in 1..e - 1 : b[i] \in KeyByte
      BY <1>2, <1>5, <1>6 DEF Text, b
    <2>2. PICK n \in e..Len(b) :
            /\ AddSplitTag(p) = AddTag(p.message, SubSeq(b, 1, e - 1), SubSeq(b, e + 1, n))
            /\ \A i \in e + 1..n : b[i] # "="
            /\ (\A i \in e + 1..Len(b) : b[i] # "=") => n = Len(b)
      BY <1>6, <2>1, SplitTag
    <2> QED BY <1>7, <2>2
  <1>9. SubSeq(b, 1, e - 1) = key
    <2>1. \A i \in 1..e - 1 : b[i] \in Byte
      BY <1>1, <1>5, <1>6
    <2>2. /\ SubSeq(b, 1, e - 1) \in Seq(Byte)
          /\ Len(SubSeq(b, 1, e - 1)) = IF 1 <= e - 1 THEN e - 1 - 1 + 1 ELSE 0
          /\ \A i \in 1..e - 1 - 1 + 1 : SubSeq(b, 1, e - 1)[i] = b[1 + i - 1]
      BY <1>6, <2>1, SubSeqProperties
    <2> DEFINE u == SubSeq(b, 1, e - 1)
    <2>3. u \in Seq(Byte) /\ Len(u) = Len(key) /\ \A i \in 1..Len(u) : u[i] = key[i]
      BY <1>1, <1>6, <2>2
    <2> HIDE DEF u
    <2>4. u = key
      BY <1>1, <2>3, SeqEqual
    <2> QED BY <2>4 DEF u
  <1>10. SubSeq(b, e + 1, Len(b)) = value
    <2>1. Len(b) \in Nat /\ e \in Nat /\ \A i \in e + 1..Len(b) : b[i] \in Byte
      BY <1>1, <1>5, <1>6
    <2>2. /\ SubSeq(b, e + 1, Len(b)) \in Seq(Byte)
          /\ Len(SubSeq(b, e + 1, Len(b))) = IF e + 1 <= Len(b) THEN Len(b) - (e + 1) + 1 ELSE 0
          /\ \A i \in 1..Len(b) - (e + 1) + 1 : SubSeq(b, e + 1, Len(b))[i] = b[e + 1 + i - 1]
      BY <2>1, SubSeqProperties
    <2> DEFINE u == SubSeq(b, e + 1, Len(b))
    <2>3. u \in Seq(Byte) /\ Len(u) = Len(value)
      BY <1>1, <1>5, <2>1, <2>2
    <2>4. ASSUME NEW i \in 1..Len(u) PROVE u[i] = value[i]
      <3>1. i \in 1..Len(b) - (e + 1) + 1 /\ e + 1 + i - 1 = e + i /\ e + i \in e + 1..Len(b) /\ (e + i) - e = i
        BY <1>1, <1>5, <2>1, <2>3
      <3>2. u[i] = b[e + i]
        BY <2>2, <3>1
      <3> QED BY <1>6, <3>1, <3>2
    <2> HIDE DEF u
    <2>5. u = value
      BY <1>1, <2>3, <2>4, SeqEqual
    <2> QED BY <2>5 DEF u
  <1> QED BY <1>8, <1>9, <1>10

\* What follows the key of a tag.
AfterKey(value) == IF value = <<>> THEN <<>> ELSE <<"=">> \o value

\* A serialized tag, and what ends it.
LEMMA TagIsRead ==
  ASSUME NEW tags \in Seq(Tag), NEW tag \in Tag, \A i \in 1..Len(tags) : tags[i].key # tag.key
  PROVE  LET m == Msg(tags, <<>>, <<>>, <<>>)
             n == Msg(Append(tags, tag), <<>>, <<>>, <<>>)
             q == Run(Run(At("TagKey", <<>>, m), tag.key), AfterKey(tag.value))
         IN  /\ AfterKey(tag.value) \in Text
             /\ tag.value # <<>> => ParseByte(q, ";") = At("TagKey", <<>>, n)
             /\ ParseByte(q, " ") = At("AfterTags", <<>>, n)
  <1> DEFINE m == Msg(tags, <<>>, <<>>, <<>>)
             n == Msg(Append(tags, tag), <<>>, <<>>, <<>>)
             key == tag.key
             value == tag.value
             q == Run(Run(At("TagKey", <<>>, m), key), AfterKey(value))
  <1>1. AddTag(m, key, value) = n /\ EmplaceTag(m, key, value) = n
    BY AddNewTag
  <1> HIDE DEF m, n
  <1>2. /\ key \in KeyText /\ value \in ValueText /\ key \in Seq(KeyByte) /\ key # <<>>
        /\ value \in Seq(ValueByte) /\ key \in Text /\ value \in Text /\ <<>> \in Text
        /\ <<"=">> \in Text /\ "=" \in Byte
    <2>1. key \in KeyText /\ value \in ValueText
      BY DEF Tag
    <2> HIDE DEF key, value
    <2> QED BY <2>1, TagTexts, EmptySeq DEF Text
  <1> HIDE DEF key, value
  <1>3. AfterKey(value) \in Text
    BY <1>2, ConcatProperties DEF AfterKey, Text
  <1>4. Run(At("TagKey", <<>>, m), key) = At("TagKey", key, m)
    <2>1. Takes("TagKey", KeyByte, m) /\ KeyByte \in SUBSET Byte
      BY BytesAreBytes, TokensAreTaken
    <2> QED BY <1>2, <2>1, RunTakesAll, Zenon
  <1>5. CASE value = <<>>
    <2>1. q = At("TagKey", key, m)
      BY <1>2, <1>4, <1>5, RunOf DEF AfterKey
    <2> HIDE DEF q
    <2> DEFINE p == At("TagKey", key, m)
    <2>2. q = p
      BY <2>1
    <2>3. /\ p.m_state = "TagKey" /\ p.m_buffer = key /\ p.message = m
          /\ \A t, x : Token(p, t, x) = At(t, <<>>, x)
          /\ \A c : ParseByte(p, c) = Consume(p, c)
      BY AtIs
    <2> HIDE DEF p
    <2>4. Consume(p, " ") = Token(p, "AfterTags", EmplaceTag(m, key, <<>>))
      BY <1>2, <2>3 DEF Consume, InTagKey, IsTagKeyChar, IsLetter, IsDigit
    <2>5. ParseByte(q, " ") = At("AfterTags", <<>>, n)
      BY <1>1, <1>5, <2>2, <2>3, <2>4
    <2> QED BY <1>3, <1>5, <2>5 DEF q, m, n, key, value
  <1>6. CASE value # <<>>
    <2> DEFINE b == (key \o <<"=">>) \o value
               p == At("TagValue", b, m)
    <2>1. AfterKey(value) = <<"=">> \o value
      BY <1>6 DEF AfterKey
    <2>2. q = Run(Run(At("TagKey", key, m), <<"=">>), value)
      BY <1>2, <1>4, <2>1, RunOf
    <2>3. Run(At("TagKey", key, m), <<"=">>) = At("TagValue", key \o <<"=">>, m)
      <3> DEFINE r == At("TagKey", key, m)
      <3>1. Run(r, <<"=">>) = Consume(r, "=")
        BY <1>2, RunOfByte, AtIs
      <3>2. r.m_state = "TagKey" /\ r.m_buffer = key /\ \A t, x : Push(r, t, x) = At(t, Append(key, x), m)
        BY AtIs
      <3> HIDE DEF r
      <3>3. Consume(r, "=") = Push(r, "TagValue", "=")
        BY <1>2, <3>2 DEF Consume, InTagKey, IsTagKeyChar, IsLetter, IsDigit
      <3>4. Append(key, "=") = key \o <<"=">>
        BY <1>2, AppendIsConcat DEF Text
      <3> QED BY <3>1, <3>2, <3>3, <3>4 DEF r
    <2>4. q = p
      <3> DEFINE k == key \o <<"=">>
      <3>1. k \in Text
        BY <1>2, ConcatProperties DEF Text
      <3>2. q = Run(At("TagValue", k, m), value)
        BY <2>2, <2>3
      <3> HIDE DEF k
      <3>3. Run(At("TagValue", k, m), value) = At("TagValue", k \o value, m)
        <4>1. Takes("TagValue", ValueByte, m) /\ ValueByte \in SUBSET Byte
          BY BytesAreBytes, TokensAreTaken
        <4> QED BY <1>2, <3>1, <4>1, RunTakes
      <3> QED BY <3>2, <3>3 DEF k
    <2> HIDE DEF b, q
    <2>5. /\ p.m_state = "TagValue" /\ p.m_buffer = b /\ p.message = m
          /\ \A t, x : Token(p, t, x) = At(t, <<>>, x)
          /\ \A c : ParseByte(p, c) = Consume(p, c)
      BY AtIs
    <2> HIDE DEF p
    <2>6. AddSplitTag(p) = n
      BY <1>1, <1>2, <2>5, SplitsAsWritten DEF b
    <2>7. Consume(p, ";") = At("TagKey", <<>>, n) /\ Consume(p, " ") = At("AfterTags", <<>>, n)
      BY <2>5, <2>6 DEF Consume, InTagValue
    <2> QED BY <1>3, <2>4, <2>5, <2>7 DEF q, m, n, key, value
  <1> QED BY <1>5, <1>6

\* The first k elements of a sequence, and one more.
LEMMA FrontIs ==
  ASSUME NEW S, NEW seq \in Seq(S), NEW k \in 0..Len(seq)
  PROVE  /\ SubSeq(seq, 1, k) \in Seq(S) /\ Len(SubSeq(seq, 1, k)) = k
         /\ \A i \in 1..k : SubSeq(seq, 1, k)[i] = seq[i]
         /\ SubSeq(seq, 1, 0) = <<>> /\ SubSeq(seq, 1, Len(seq)) = seq
         /\ k < Len(seq) => Append(SubSeq(seq, 1, k), seq[k + 1]) = SubSeq(seq, 1, k + 1)
  <1>1. Len(seq) \in Nat /\ k \in Nat /\ \A i \in 1..Len(seq) : seq[i] \in S
    BY LenProperties, ElementOfSeq
  <1>2. ASSUME NEW j \in 0..Len(seq)
        PROVE  /\ SubSeq(seq, 1, j) \in Seq(S) /\ Len(SubSeq(seq, 1, j)) = j
               /\ \A i \in 1..j : SubSeq(seq, 1, j)[i] = seq[i]
    <2>1. j \in Int /\ \A i \in 1..j : seq[i] \in S
      BY <1>1
    <2>2. /\ SubSeq(seq, 1, j) \in Seq(S)
          /\ Len(SubSeq(seq, 1, j)) = IF 1 <= j THEN j - 1 + 1 ELSE 0
          /\ \A i \in 1..j - 1 + 1 : SubSeq(seq, 1, j)[i] = seq[1 + i - 1]
      BY <2>1, SubSeqProperties
    <2> QED BY <1>1, <2>1, <2>2
  <1>3. SubSeq(seq, 1, 0) = <<>> /\ SubSeq(seq, 1, Len(seq)) = seq
    BY SubSeqEmpty, SubSeqFull
  <1>4. ASSUME k < Len(seq) PROVE Append(SubSeq(seq, 1, k), seq[k + 1]) = SubSeq(seq, 1, k + 1)
    <2> DEFINE u == SubSeq(seq, 1, k)
               v == SubSeq(seq, 1, k + 1)
               w == Append(u, seq[k + 1])
    <2>0. k + 1 \in 0..Len(seq) /\ seq[k + 1] \in S
      BY <1>1, <1>4
    <2>1. u \in Seq(S) /\ Len(u) = k /\ \A i \in 1..k : u[i] = seq[i]
      BY <1>2
    <2>2. v \in Seq(S) /\ Len(v) = k + 1 /\ \A i \in 1..k + 1 : v[i] = seq[i]
      BY <1>2, <2>0
    <2> HIDE DEF u, v
    <2>3. w \in Seq(S) /\ Len(w) = k + 1 /\ (\A i \in 1..k : w[i] = u[i]) /\ w[k + 1] = seq[k + 1]
      BY <2>0, <2>1, AppendProperties
    <2> HIDE DEF w
    <2>4. \A i \in 1..Len(w) : w[i] = v[i]
      BY <1>1, <2>1, <2>2, <2>3
    <2>5. w = v
      BY <2>2, <2>3, <2>4, SeqEqual
    <2> QED BY <2>5 DEF u, v, w
  <1> QED BY <1>2, <1>3, <1>4

TagPiece(tags, i) ==
    ((IF i = 1 THEN <<"@">> ELSE <<";">>) \o tags[i].key) \o AfterKey(tags[i].value)

LEMMA TagPieceOK ==
  ASSUME NEW tags \in Seq(Tag), NEW i \in 1..Len(tags)
  PROVE  /\ tags[i] \in Tag /\ tags[i].key \in Text /\ AfterKey(tags[i].value) \in Text
         /\ TagPiece(tags, i) \in Text
         /\ \A p : Run(p, TagPiece(tags, i)) =
                     Run(Run(ParseByte(p, IF i = 1 THEN "@" ELSE ";"), tags[i].key), AfterKey(tags[i].value))
  <1> DEFINE key == tags[i].key
             rest == AfterKey(tags[i].value)
             c == IF i = 1 THEN "@" ELSE ";"
  <1>1. tags[i] \in Tag
    BY ElementOfSeq
  <1>2. key \in Text /\ rest \in Text
    <2>1. key \in KeyText /\ tags[i].value \in ValueText
      BY <1>1 DEF Tag
    <2> DEFINE value == tags[i].value
    <2> HIDE DEF key, value
    <2>2. key \in Text /\ value \in Text /\ <<"=">> \in Text /\ <<>> \in Text
      BY <2>1, TagTexts, EmptySeq DEF Text, value
    <2>3. AfterKey(value) \in Text
      BY <2>2, ConcatProperties DEF AfterKey, Text
    <2> QED BY <2>2, <2>3 DEF value
  <1>3. TagPiece(tags, i) = (<<c>> \o key) \o rest
    BY DEF TagPiece
  <1>4. c \in Byte
    BY DEF Byte
  <1> HIDE DEF key, rest, c
  <1>5. <<c>> \in Text
    BY <1>4 DEF Text
  <1>6. <<c>> \o key \in Text /\ (<<c>> \o key) \o rest \in Text
    BY <1>2, <1>5, ConcatProperties DEF Text
  <1>7. ASSUME NEW p PROVE Run(p, (<<c>> \o key) \o rest) = Run(Run(ParseByte(p, c), key), rest)
    <2>1. Run(p, (<<c>> \o key) \o rest) = Run(Run(p, <<c>> \o key), rest)
      BY <1>2, <1>6, RunOfConcat
    <2>2. Run(p, <<c>> \o key) = Run(Run(p, <<c>>), key)
      BY <1>2, <1>5, RunOfConcat
    <2>3. Run(p, <<c>>) = ParseByte(p, c)
      BY <1>4, RunOfByte
    <2> QED BY <2>1, <2>2, <2>3
  <1> QED BY <1>1, <1>2, <1>3, <1>6, <1>7 DEF key, rest, c

\* The message after the first i tags.
TagsUpTo(tags, i) == Msg(SubSeq(tags, 1, i), <<>>, <<>>, <<>>)

\* The byte before the tag after the first i.
TagMark(i) == IF i = 0 THEN "@" ELSE ";"

\* The tags that can be written: only the last may have no value.
NoBareTag(tags) == \A i \in 1..Len(tags) - 1 : tags[i].value # <<>>

LEMMA OneMoreTagIsRead ==
  ASSUME NEW tags \in Seq(Tag), DistinctKeys(tags), NoBareTag(tags),
         NEW k \in Nat, k < Len(tags), NEW p,
         ParseByte(p, TagMark(k)) = At("TagKey", <<>>, TagsUpTo(tags, k))
  PROVE  LET r == Run(p, TagPiece(tags, k + 1))
         IN  /\ k + 1 < Len(tags) => ParseByte(r, ";") = At("TagKey", <<>>, TagsUpTo(tags, k + 1))
             /\ ParseByte(r, " ") = At("AfterTags", <<>>, TagsUpTo(tags, k + 1))
  <1> DEFINE n == Len(tags)
             j == k + 1
             front == SubSeq(tags, 1, k)
             tag == tags[j]
             m == Msg(front, <<>>, <<>>, <<>>)
             m1 == Msg(Append(front, tag), <<>>, <<>>, <<>>)
             r == Run(Run(At("TagKey", <<>>, m), tag.key), AfterKey(tag.value))
  <1>0. n \in Nat
    BY LenProperties
  <1>1. n \in Nat /\ k \in 0..n /\ j \in 1..n /\ j \in Nat /\ (j = 1 <=> k = 0)
    BY <1>0
  <1>2. /\ front \in Seq(Tag) /\ Len(front) = k /\ (\A i \in 1..k : front[i] = tags[i])
        /\ Append(front, tag) = SubSeq(tags, 1, j)
    BY <1>1, FrontIs
  <1>3. \A i \in 1..k : i \in 1..n /\ i # j
    BY <1>1
  <1>4. \A i \in 1..Len(front) : front[i].key # tag.key
    <2> HIDE DEF front, j
    <2> QED BY <1>1, <1>2, <1>3 DEF DistinctKeys
  <1>5. tag \in Tag
    BY <1>1, ElementOfSeq
  <1>6. j < n => tag.value # <<>>
    <2>1. j < n => j \in 1..n - 1
      BY <1>1
    <2> HIDE DEF j
    <2> QED BY <2>1 DEF NoBareTag
  <1>7. Run(p, TagPiece(tags, j)) = r
    <2> DEFINE c == IF j = 1 THEN "@" ELSE ";"
    <2>1. Run(p, TagPiece(tags, j)) = Run(Run(ParseByte(p, c), tag.key), AfterKey(tag.value))
      <3> HIDE DEF j
      <3> QED BY <1>1, TagPieceOK
    <2>2. ParseByte(p, c) = At("TagKey", <<>>, m)
      BY <1>1 DEF TagsUpTo, TagMark
    <2> HIDE DEF c, j
    <2> QED BY <2>1, <2>2
  <1>8. /\ tag.value # <<>> => ParseByte(r, ";") = At("TagKey", <<>>, m1)
        /\ ParseByte(r, " ") = At("AfterTags", <<>>, m1)
    <2> HIDE DEF front, tag
    <2> QED BY <1>2, <1>4, <1>5, TagIsRead
  <1>9. m1 = TagsUpTo(tags, j)
    BY <1>2 DEF TagsUpTo
  <1> HIDE DEF r, m1, tag, j
  <1> QED BY <1>6, <1>7, <1>8, <1>9 DEF j

\* What the serializer writes of tags that the wire format can carry is read as
\* the same tags.
LEMMA TagsAreRead ==
  ASSUME NEW tags \in Seq(Tag), DistinctKeys(tags), NoBareTag(tags)
  PROVE  /\ SerializeTags(tags) \in Text
         /\ \E s \in {"Start", "AfterTags"} :
              Run(Fresh, SerializeTags(tags)) = At(s, <<>>, Msg(tags, <<>>, <<>>, <<>>))
  <1>1. CASE tags = <<>>
    <2>1. SerializeTags(tags) = <<>> /\ <<>> \in Text
      BY <1>1, EmptySeq DEF SerializeTags, Text
    <2>2. Run(Fresh, <<>>) = Fresh
      BY <2>1, RunOf
    <2>3. Fresh = At("Start", <<>>, Msg(tags, <<>>, <<>>, <<>>))
      BY <1>1, AtIs, MsgIs
    <2> QED BY <2>1, <2>2, <2>3
  <1>2. CASE tags # <<>>
    <2> DEFINE n == Len(tags)
               seqs == [i \in 1..n |-> TagPiece(tags, i)]
    <2>1. SerializeTags(tags) = FlattenSeq(seqs) \o <<" ">>
      BY <1>2 DEF SerializeTags, MapFlatten, AfterKey, TagPiece
    <2>2. n \in Nat /\ n > 0
      BY <1>2, LenProperties, EmptySeq
    <2>3. seqs \in Seq(Text) /\ Len(seqs) = n /\ \A i \in 1..n : seqs[i] = TagPiece(tags, i)
      <3>1. \A i \in 1..n : TagPiece(tags, i) \in Text
        BY TagPieceOK
      <3> QED BY <2>2, <3>1, IsASeq
    <2> HIDE DEF seqs
    <2>4. PICK f : Flattened(seqs, f)
      BY <2>3, FlattenIs
    <2>5. /\ f[0] = <<>> /\ f[n] = FlattenSeq(seqs) /\ \A i \in 0..n : f[i] \in Text
          /\ \A i \in 1..n : f[i] = f[i - 1] \o TagPiece(tags, i)
      BY <2>3, <2>4 DEF Flattened
    <2> DEFINE q(i) == Run(Fresh, f[i])
               Begins(i) == i < n => ParseByte(q(i), TagMark(i)) = At("TagKey", <<>>, TagsUpTo(tags, i))
               Ends(i) == i > 0 => ParseByte(q(i), " ") = At("AfterTags", <<>>, TagsUpTo(tags, i))
               T == {i \in Nat : i <= n => Begins(i) /\ Ends(i)}
    <2>6. Begins(0) /\ Ends(0)
      <3>1. q(0) = Fresh
        BY <2>5, RunOf, EmptySeq DEF Text
      <3> DEFINE p == At("Start", <<>>, EmptyMessage)
      <3>2. /\ Fresh = p /\ p.m_state = "Start" /\ \A c : ParseByte(p, c) = Consume(p, c)
            /\ \A t : Goto(p, t) = At(t, <<>>, EmptyMessage)
        BY AtIs
      <3> HIDE DEF p
      <3>3. Consume(p, "@") = Goto(p, "TagKey")
        BY <3>2 DEF Consume, InStart
      <3>4. TagsUpTo(tags, 0) = EmptyMessage
        <4>1. SubSeq(tags, 1, 0) = <<>>
          BY SubSeqEmpty
        <4> QED BY <4>1, MsgIs DEF TagsUpTo
      <3> HIDE DEF q
      <3>5. ParseByte(q(0), "@") = At("TagKey", <<>>, TagsUpTo(tags, 0))
        BY <3>1, <3>2, <3>3, <3>4
      <3> QED BY <3>5 DEF TagMark
    <2>7. ASSUME NEW k \in Nat, k + 1 <= n, Begins(k) PROVE Begins(k + 1) /\ Ends(k + 1)
      <3>1. k < n /\ k \in 0..n /\ k + 1 \in 1..n /\ (k + 1) - 1 = k /\ k + 1 # 0
        <4> HIDE DEF n
        <4> QED BY <2>2, <2>7
      <3>2. q(k + 1) = Run(q(k), TagPiece(tags, k + 1))
        <4>1. f[k + 1] = f[k] \o TagPiece(tags, k + 1) /\ f[k] \in Text
          BY <2>5, <3>1
        <4>2. TagPiece(tags, k + 1) \in Text
          BY <3>1, TagPieceOK
        <4> QED BY <4>1, <4>2, RunOfConcat
      <3> DEFINE p == q(k)
                 r == Run(p, TagPiece(tags, k + 1))
      <3>3. ParseByte(p, TagMark(k)) = At("TagKey", <<>>, TagsUpTo(tags, k))
        BY <2>7, <3>1
      <3>4. r = q(k + 1)
        BY <3>2
      <3> HIDE DEF p, q
      <3>5. /\ k + 1 < n => ParseByte(r, ";") = At("TagKey", <<>>, TagsUpTo(tags, k + 1))
            /\ ParseByte(r, " ") = At("AfterTags", <<>>, TagsUpTo(tags, k + 1))
        BY <3>1, <3>3, OneMoreTagIsRead
      <3>6. TagMark(k + 1) = ";"
        BY <3>1 DEF TagMark
      <3> HIDE DEF r
      <3> QED BY <3>4, <3>5, <3>6
    <2> HIDE DEF Begins, Ends
    <2>8. n \in T
      <3>1. 0 \in T
        BY <2>6
      <3>2. ASSUME NEW k \in T PROVE k + 1 \in T
        <4>1. k \in Nat /\ (k <= n => Begins(k))
          OBVIOUS
        <4>2. k + 1 <= n => Begins(k + 1) /\ Ends(k + 1)
          BY <2>2, <2>7, <4>1
        <4> QED BY <4>1, <4>2
      <3> HIDE DEF T
      <3>3. T \in SUBSET Nat
        BY DEF T
      <3> QED BY <2>2, <3>1, <3>2, <3>3, SetInduction
    <2>9. Ends(n)
      BY <2>2, <2>8
    <2>10. ParseByte(q(n), " ") = At("AfterTags", <<>>, Msg(tags, <<>>, <<>>, <<>>))
      <3>1. SubSeq(tags, 1, n) = tags
        BY SubSeqFull
      <3> HIDE DEF q
      <3> QED BY <2>2, <2>9, <3>1 DEF Ends, TagsUpTo
    <2>11. " " \in Byte /\ f[n] \in Text
      BY <2>2, <2>5 DEF Byte
    <2>12. f[n] \o <<" ">> \in Text /\ Run(Fresh, f[n] \o <<" ">>) = ParseByte(q(n), " ")
      <3> DEFINE c == " "
                 t == f[n]
      <3>1. c \in Byte /\ t \in Text
        BY <2>11
      <3> HIDE DEF c, t
      <3>2. t \o <<c>> \in Text /\ Run(Fresh, t \o <<c>>) = ParseByte(Run(Fresh, t), c)
        BY <3>1, RunThenByte
      <3> QED BY <3>2 DEF c, t
    <2> HIDE DEF q
    <2> QED BY <2>1, <2>5, <2>10, <2>12
  <1> QED BY <1>1, <1>2

-----------------------------------------------------------------------------
(* What the parser makes of a serialized prefix and command.               *)

PrefixPiece(prefix) == IF prefix = <<>> THEN <<>> ELSE <<":">> \o prefix \o <<" ">>

LEMMA PrefixIsRead ==
  ASSUME NEW tags, NEW prefix \in Seq(PrefixByte), prefix = <<>> \/ IsValidPrefix(prefix),
         NEW s \in {"Start", "AfterTags"}
  PROVE  /\ PrefixPiece(prefix) \in Text
         /\ \E u \in {"Start", "AfterTags", "CommandNameOrNumber"} :
              Run(At(s, <<>>, Msg(tags, <<>>, <<>>, <<>>)), PrefixPiece(prefix)) =
                At(u, <<>>, Msg(tags, prefix, <<>>, <<>>))
  <1> DEFINE m == Msg(tags, <<>>, <<>>, <<>>)
             n == Msg(tags, prefix, <<>>, <<>>)
             p == At(s, <<>>, m)
             colon == ":"
             space == " "
  <1>1. CASE prefix = <<>>
    <2>1. PrefixPiece(prefix) = <<>> /\ <<>> \in Text
      BY <1>1, EmptySeq DEF PrefixPiece, Text
    <2>2. Run(p, <<>>) = p /\ m = n
      BY <1>1, <2>1, RunOf
    <2> HIDE DEF m, n
    <2> QED BY <2>1, <2>2 DEF m, n
  <1>2. CASE prefix # <<>>
    <2>1. PrefixPiece(prefix) = (<<colon>> \o prefix) \o <<space>> /\ colon \in Byte /\ space \in Byte
      BY <1>2 DEF PrefixPiece, Byte
    <2>2. prefix \in Text
      BY BytesAreBytes, SeqMonotonic DEF Text
    <2>3. ParseByte(p, colon) = At("Prefix", <<>>, m)
      <3>1. /\ p.m_state = s /\ \A t : Goto(p, t) = At(t, <<>>, m)
            /\ \A c : ParseByte(p, c) = Consume(p, c)
        BY AtIs
      <3> HIDE DEF p
      <3>2. Consume(p, colon) = Goto(p, "Prefix")
        BY <3>1 DEF Consume, InStart, InAfterTags
      <3> HIDE DEF colon
      <3> QED BY <3>1, <3>2
    <2> DEFINE r == At("Prefix", prefix, m)
    <2>4. Run(At("Prefix", <<>>, m), prefix) = r
      <3>1. Takes("Prefix", PrefixByte, m) /\ PrefixByte \in SUBSET Byte
        BY BytesAreBytes, TokensAreTaken
      <3> QED BY <3>1, RunTakesAll, Zenon
    <2>5. ParseByte(r, space) = At("CommandNameOrNumber", <<>>, n)
      <3>1. /\ r.m_state = "Prefix" /\ r.m_buffer = prefix /\ r.message = m
            /\ \A t, x : Token(r, t, x) = At(t, <<>>, x)
            /\ \A c : ParseByte(r, c) = Consume(r, c)
        BY AtIs
      <3>2. [m EXCEPT !.prefix = prefix] = n
        BY MsgIs
      <3> HIDE DEF r, m, n
      <3>3. Consume(r, space) = Token(r, "CommandNameOrNumber", SetPrefix(r))
        BY <1>2, <3>1 DEF Consume, InPrefix, IsPrefixChar, IsLetter, IsDigit, IsSpecial
      <3>4. SetPrefix(r) = n
        BY <3>1, <3>2 DEF SetPrefix
      <3> HIDE DEF space
      <3> QED BY <3>1, <3>3, <3>4
    <2> HIDE DEF p, m, n, colon, space
    <2>6. <<colon>> \o prefix \in Text /\ Run(p, <<colon>> \o prefix) = Run(ParseByte(p, colon), prefix)
      BY <2>1, <2>2, RunThenByte
    <2> HIDE DEF r
    <2>7. /\ (<<colon>> \o prefix) \o <<space>> \in Text
          /\ Run(p, (<<colon>> \o prefix) \o <<space>>) = ParseByte(r, space)
      <3> DEFINE t == <<colon>> \o prefix
      <3>1. t \in Text /\ Run(p, t) = r
        BY <2>3, <2>4, <2>6
      <3> HIDE DEF t
      <3>2. t \o <<space>> \in Text /\ Run(p, t \o <<space>>) = ParseByte(Run(p, t), space)
        BY <2>1, <3>1, RunThenByte
      <3> QED BY <3>1, <3>2 DEF t
    <2> QED BY <2>1, <2>5, <2>7 DEF p, m, n
  <1> QED BY <1>1, <1>2

\* The first byte of a command.
LEMMA CommandBegins ==
  ASSUME NEW m, NEW u \in {"Start", "AfterTags", "CommandNameOrNumber"}, NEW c
  PROVE  /\ IsLetter(c) => ParseByte(At(u, <<>>, m), c) = At("CommandName", <<c>>, m)
         /\ IsDigit(c) => ParseByte(At(u, <<>>, m), c) = At("CommandNumber", <<c>>, m)
  <1> DEFINE nothing == <<>>
             p == At(u, nothing, m)
  <1> HIDE DEF nothing
  <1>1. /\ p.m_state = u /\ \A t, x : Push(p, t, x) = At(t, Append(nothing, x), m)
        /\ \A x : ParseByte(p, x) = Consume(p, x)
    BY AtIs
  <1>2. Append(nothing, c) = <<c>>
    BY DEF nothing
  <1> HIDE DEF p
  <1>3. /\ IsLetter(c) => Consume(p, c) = Push(p, "CommandName", c)
        /\ IsDigit(c) => Consume(p, c) = Push(p, "CommandNumber", c)
    BY <1>1 DEF Consume, InStart, InAfterTags, InCommandNameOrNumber, IsLetter, IsDigit
  <1>4. ParseByte(p, c) = Consume(p, c)
    BY <1>1
  <1>5. \A t : Push(p, t, c) = At(t, <<c>>, m)
    BY <1>1, <1>2
  <1> QED BY <1>3, <1>4, <1>5 DEF p, nothing

\* A parser that takes a space or the end of the line for the end of a token.
TokenEnds(p, m) ==
    ParseByte(p, " ") = At("ParamStart", <<>>, m) /\ ParseByte(p, "CR") = At("Cr", <<>>, m)

LEMMA CommandIsRead ==
  ASSUME NEW tags, NEW prefix, NEW command \in Text, IsCommand(command),
         NEW u \in {"Start", "AfterTags", "CommandNameOrNumber"}
  PROVE  TokenEnds(Run(At(u, <<>>, Msg(tags, prefix, <<>>, <<>>)), command),
                   Msg(tags, prefix, command, <<>>))
  <1> DEFINE m == Msg(tags, prefix, <<>>, <<>>)
             n == Msg(tags, prefix, command, <<>>)
             p == At(u, <<>>, m)
  <1>0. [m EXCEPT !.command = command] = n
    BY MsgIs
  <1> HIDE DEF m, n
  <1>1. command # <<>> /\ command \in Seq(Byte) /\ Len(command) \in Nat /\ Len(command) > 0
    BY LenProperties, EmptySeq DEF IsCommand, Text
  <1>2. \A i \in 1..Len(command) : command[i] \in Byte
    BY <1>1, ElementOfSeq
  <1>3. CASE \A k \in 1..Len(command) : IsLetter(command[k])
    <2>1. command \in Seq(Letter)
      <3>1. \A i \in 1..Len(command) : command[i] \in Letter
        BY <1>2, <1>3 DEF Letter
      <3>2. command = [i \in 1..Len(command) |-> command[i]]
        BY <1>1, LenProperties
      <3>3. [i \in 1..Len(command) |-> command[i]] \in Seq(Letter)
        BY <1>1, <3>1, IsASeq
      <3> QED BY <3>2, <3>3
    <2> DEFINE c == Head(command)
               t == Tail(command)
    <2>2. c \in Letter /\ t \in Seq(Letter) /\ command = <<c>> \o t
      BY <1>1, <2>1, HeadTailProperties
    <2> HIDE DEF c, t
    <2>3. c \in Byte /\ IsLetter(c) /\ t \in Text /\ <<c>> \in Text /\ Letter \in SUBSET Byte
      <3>1. c \in Byte /\ IsLetter(c) /\ Letter \in SUBSET Byte
        BY <2>2 DEF Letter
      <3>2. t \in Text
        BY <2>2, <3>1, SeqMonotonic DEF Text
      <3> QED BY <3>1, <3>2, RunThenByte
    <2>4. Run(p, command) = Run(At("CommandName", <<c>>, m), t)
      <3>1. Run(p, <<c>> \o t) = Run(ParseByte(p, c), t)
        BY <2>3, RunThenByte
      <3>2. ParseByte(p, c) = At("CommandName", <<c>>, m)
        BY <2>3, CommandBegins
      <3> QED BY <2>2, <3>1, <3>2
    <2> DEFINE r == At("CommandName", command, m)
    <2>5. Run(p, command) = r
      <3>1. Takes("CommandName", Letter, m)
        BY TokensAreTaken
      <3>2. Run(At("CommandName", <<c>>, m), t) = At("CommandName", <<c>> \o t, m)
        <4> DEFINE first == <<c>>
        <4>1. first \in Text
          BY <2>3
        <4> HIDE DEF first
        <4>2. Run(At("CommandName", first, m), t) = At("CommandName", first \o t, m)
          BY <2>2, <2>3, <3>1, <4>1, RunTakes
        <4> QED BY <4>2 DEF first
      <3> QED BY <2>2, <2>4, <3>2
    <2>6. /\ r.m_state = "CommandName" /\ r.m_buffer = command /\ r.message = m
          /\ \A x, y : Token(r, x, y) = At(x, <<>>, y)
          /\ \A x : ParseByte(r, x) = Consume(r, x)
      BY AtIs
    <2> HIDE DEF r, p
    <2>7. /\ Consume(r, " ") = Token(r, "ParamStart", SetCommand(r))
          /\ Consume(r, "CR") = Token(r, "Cr", SetCommand(r))
      BY <2>6 DEF Consume, InCommandName, IsLetter, AfterToken
    <2>8. SetCommand(r) = n
      BY <1>0, <2>6 DEF SetCommand
    <2>9. TokenEnds(r, n)
      BY <2>6, <2>7, <2>8 DEF TokenEnds
    <2> QED BY <2>5, <2>9 DEF p, m, n
  <1>4. CASE Len(command) = 3 /\ \A k \in 1..3 : IsDigit(command[k])
    <2> DEFINE d == "1"
               one == <<d>>
               two == Append(one, d)
               three == Append(two, d)
               r == At("CommandNumber", command, m)
    <2>1. d \in Byte /\ IsDigit(d) /\ \A k \in 1..3 : command[k] = d
      BY <1>4 DEF Byte, IsDigit
    <2> HIDE DEF d
    <2>2. one \in Seq(Byte) /\ Len(one) = 1 /\ one[1] = d
      BY <2>1
    <2>3. two \in Seq(Byte) /\ Len(two) = 2 /\ two[1] = d /\ two[2] = d
      <3> HIDE DEF one
      <3>1. /\ two \in Seq(Byte) /\ Len(two) = Len(one) + 1 /\ two[Len(one) + 1] = d
            /\ \A i \in 1..Len(one) : two[i] = one[i]
        <4>1. one \in Seq(Byte) /\ d \in Byte
          BY <2>1, <2>2
        <4> QED BY <4>1, AppendProperties
      <3> HIDE DEF two
      <3> QED BY <2>2, <3>1
    <2>s. command = three
      <3> HIDE DEF two
      <3>1. /\ three \in Seq(Byte) /\ Len(three) = Len(two) + 1 /\ three[Len(two) + 1] = d
            /\ \A i \in 1..Len(two) : three[i] = two[i]
        <4>1. two \in Seq(Byte) /\ d \in Byte
          BY <2>1, <2>3
        <4> QED BY <4>1, AppendProperties
      <3> HIDE DEF three
      <3>2. Len(three) = 3 /\ \A i \in 1..3 : three[i] = d
        BY <2>3, <3>1
      <3> QED BY <1>1, <1>4, <2>1, <3>1, <3>2, SeqEqual
    <2>4. Run(p, one) = At("CommandNumber", one, m)
      <3>1. Run(p, one) = ParseByte(p, d)
        BY <2>1, RunOfByte
      <3> QED BY <2>1, <3>1, CommandBegins
    <2> HIDE DEF one, two, three, p
    <2>5. ASSUME NEW b \in Text, Len(b) < 3
          PROVE  ParseByte(At("CommandNumber", b, m), d) = At("CommandNumber", Append(b, d), m)
      <3> DEFINE q == At("CommandNumber", b, m)
      <3>1. /\ q.m_state = "CommandNumber" /\ q.m_buffer = b
            /\ \A x, y : Push(q, x, y) = At(x, Append(b, y), m)
            /\ \A x : ParseByte(q, x) = Consume(q, x)
        BY AtIs
      <3> HIDE DEF q
      <3>2. Consume(q, d) = Push(q, "CommandNumber", d)
        BY <2>1, <2>5, <3>1 DEF Consume, InCommandNumber, IsDigit
      <3> QED BY <3>1, <3>2 DEF q
    <2>6. Run(p, command) = r
      <3>1. one \in Text /\ two \in Text /\ Len(one) < 3 /\ Len(two) < 3
        BY <2>2, <2>3 DEF Text
      <3>2. Run(p, Append(one, d)) = ParseByte(Run(p, one), d)
        BY <2>1, <3>1, RunOf, Zenon
      <3>3. Run(p, two) = At("CommandNumber", two, m)
        BY <2>4, <2>5, <3>1, <3>2, Zenon DEF two
      <3>4. Run(p, Append(two, d)) = ParseByte(Run(p, two), d)
        BY <2>1, <3>1, RunOf, Zenon
      <3>5. Run(p, three) = At("CommandNumber", three, m)
        BY <2>5, <3>1, <3>3, <3>4, Zenon DEF three
      <3> HIDE DEF three
      <3> QED BY <2>s, <3>5
    <2>7. /\ r.m_state = "CommandNumber" /\ r.m_buffer = command /\ r.message = m
          /\ \A x, y : Token(r, x, y) = At(x, <<>>, y)
          /\ \A x : ParseByte(r, x) = Consume(r, x)
      BY AtIs
    <2> HIDE DEF r, p
    <2>8. /\ Consume(r, " ") = Token(r, "ParamStart", SetCommand(r))
          /\ Consume(r, "CR") = Token(r, "Cr", SetCommand(r))
      BY <1>4, <2>7 DEF Consume, InCommandNumber, IsDigit, AfterToken
    <2>9. SetCommand(r) = n
      BY <1>0, <2>7 DEF SetCommand
    <2>10. TokenEnds(r, n)
      BY <2>7, <2>8, <2>9 DEF TokenEnds
    <2> QED BY <2>6, <2>10 DEF p, m, n
  <1> QED BY <1>3, <1>4 DEF IsCommand

-----------------------------------------------------------------------------
(* What the parser makes of serialized parameters.                         *)

\* A parameter without a marker.
LEMMA PlainParamIsRead ==
  ASSUME NEW t, NEW x, NEW c, NEW a, NEW param \in Seq(ParamByte), ~RequiresTrailingMarker(param)
  PROVE  TokenEnds(Run(At("ParamStart", <<>>, Msg(t, x, c, a)), param), Msg(t, x, c, Append(a, param)))
  <1> DEFINE m == Msg(t, x, c, a)
             n == Msg(t, x, c, Append(a, param))
             nothing == <<>>
             p == At("ParamStart", nothing, m)
             r == At("Param", param, m)
             Plain == ParamByte \ {" "}
  <1>0. AddParam(m, param) = n
    <2>1. m.params = a /\ \A u : [m EXCEPT !.params = u] = Msg(t, x, c, u)
      BY MsgIs
    <2> HIDE DEF m
    <2> QED BY <2>1 DEF AddParam
  <1> HIDE DEF m, n, nothing
  <1>1. param # <<>> /\ param[1] # ":" /\ \A i \in 1..Len(param) : param[i] \in Plain
    <2>1. param # <<>> /\ param[1] # ":" /\ ~Contains(param, " ")
      BY DEF RequiresTrailingMarker
    <2>2. \A i \in 1..Len(param) : param[i] \in ParamByte
      BY ElementOfSeq
    <2>3. \A i \in 1..Len(param) : param[i] # " "
      BY <2>1, LenProperties DEF Contains
    <2> QED BY <2>1, <2>2, <2>3
  <1> HIDE DEF Plain
  <1>2. param \in Seq(Plain)
    <2>1. Len(param) \in Nat /\ param = [i \in 1..Len(param) |-> param[i]]
      BY LenProperties
    <2>2. [i \in 1..Len(param) |-> param[i]] \in Seq(Plain)
      BY <1>1, <2>1, IsASeq
    <2> QED BY <2>1, <2>2
  <1>3. Plain \in SUBSET Byte
    BY BytesAreBytes DEF Plain
  <1> DEFINE b == Head(param)
             rest == Tail(param)
  <1>4. b \in Plain /\ rest \in Seq(Plain) /\ param = <<b>> \o rest /\ b = param[1]
    BY <1>1, <1>2, HeadTailProperties
  <1> HIDE DEF b, rest
  <1>5. b \in Byte /\ rest \in Text /\ <<b>> \in Text
    <2>1. b \in Byte /\ rest \in Text
      BY <1>3, <1>4, SeqMonotonic DEF Text
    <2> QED BY <2>1, RunThenByte
  <1>6. ParseByte(p, b) = At("Param", <<b>>, m)
    <2>1. /\ p.m_state = "ParamStart" /\ \A u, y : Push(p, u, y) = At(u, Append(nothing, y), m)
          /\ \A y : ParseByte(p, y) = Consume(p, y)
      BY AtIs
    <2>2. Append(nothing, b) = <<b>>
      BY DEF nothing
    <2> HIDE DEF p
    <2>3. b # ":" /\ IsParamStartChar(b) /\ b # "NUL"
      BY <1>1, <1>4 DEF Plain, ParamByte, IsParamStartChar
    <2>4. Consume(p, b) = Push(p, "Param", b)
      BY <2>1, <2>3 DEF Consume, InParamStart, IsParamStartChar
    <2> QED BY <2>1, <2>2, <2>4
  <1>7. Run(p, param) = r
    <2> DEFINE first == <<b>>
    <2>1. Run(p, first \o rest) = Run(At("Param", first, m), rest)
      <3> HIDE DEF p
      <3>1. Run(p, <<b>> \o rest) = Run(ParseByte(p, b), rest)
        BY <1>5, RunThenByte
      <3> QED BY <1>6, <3>1
    <2>2. Takes("Param", Plain, m)
      BY TokensAreTaken DEF Plain
    <2>3. first \in Text
      BY <1>5
    <2> HIDE DEF first
    <2>4. Run(At("Param", first, m), rest) = At("Param", first \o rest, m)
      BY <1>3, <1>4, <2>2, <2>3, RunTakes
    <2> QED BY <1>4, <2>1, <2>4 DEF first
  <1>8. /\ r.m_state = "Param" /\ r.m_buffer = param /\ r.message = m
        /\ \A u, y : Token(r, u, y) = At(u, <<>>, y)
        /\ \A y : ParseByte(r, y) = Consume(r, y)
    BY AtIs
  <1> HIDE DEF r, p
  <1>9. /\ Consume(r, " ") = Token(r, "ParamStart", AddParam(r.message, r.m_buffer))
        /\ Consume(r, "CR") = Token(r, "Cr", AddParam(r.message, r.m_buffer))
    BY <1>8 DEF Consume, InParam, AfterToken, IsParamStartChar
  <1>10. TokenEnds(r, n)
    BY <1>0, <1>8, <1>9 DEF TokenEnds
  <1> QED BY <1>7, <1>10 DEF p, m, n, nothing

LineEnds(p, m) == ParseByte(p, "CR") = At("Cr", <<>>, m)

\* A parameter after the marker, of any bytes a parameter may have.
LEMMA TrailingParamIsRead ==
  ASSUME NEW t, NEW x, NEW c, NEW a, NEW param \in Seq(ParamByte)
  PROVE  LineEnds(Run(ParseByte(At("ParamStart", <<>>, Msg(t, x, c, a)), ":"), param),
                  Msg(t, x, c, Append(a, param)))
  <1> DEFINE m == Msg(t, x, c, a)
             n == Msg(t, x, c, Append(a, param))
             nothing == <<>>
             p == At("ParamStart", nothing, m)
             r == At("Trailing", param, m)
  <1>0. AddParam(m, param) = n
    <2>1. m.params = a /\ \A u : [m EXCEPT !.params = u] = Msg(t, x, c, u)
      BY MsgIs
    <2> HIDE DEF m
    <2> QED BY <2>1 DEF AddParam
  <1> HIDE DEF m, n, nothing
  <1>1. ParseByte(p, ":") = At("Trailing", nothing, m)
    <2>1. /\ p.m_state = "ParamStart" /\ \A u : Goto(p, u) = At(u, nothing, m)
          /\ \A y : ParseByte(p, y) = Consume(p, y)
      BY AtIs
    <2> HIDE DEF p
    <2>2. Consume(p, ":") = Goto(p, "Trailing")
      BY <2>1 DEF Consume, InParamStart, IsParamStartChar
    <2> QED BY <2>1, <2>2
  <1>2. Run(At("Trailing", nothing, m), param) = r
    <2>1. Takes("Trailing", ParamByte, m) /\ ParamByte \in SUBSET Byte
      BY TokensAreTaken, BytesAreBytes
    <2> QED BY <2>1, RunTakesAll, Zenon DEF nothing
  <1>3. /\ r.m_state = "Trailing" /\ r.m_buffer = param /\ r.message = m
        /\ \A u, y : Token(r, u, y) = At(u, <<>>, y)
        /\ \A y : ParseByte(r, y) = Consume(r, y)
    BY AtIs
  <1> HIDE DEF r, p
  <1>4. Consume(r, "CR") = Token(r, "Cr", AddParam(r.message, r.m_buffer))
    BY <1>3 DEF Consume, InTrailing, IsParamStartChar
  <1>5. LineEnds(r, n)
    BY <1>0, <1>3, <1>4 DEF LineEnds
  <1> QED BY <1>1, <1>2, <1>5 DEF p, m, n, nothing

ParamMark(params, i) == IF i = Len(params) /\ RequiresTrailingMarker(params[i]) THEN <<":">> ELSE <<>>

ParamPiece(params, i) == <<" ">> \o ParamMark(params, i) \o params[i]

\* The parameters that can be written: only the last may need the marker.
NoMarkerInside(params) == \A i \in 1..Len(params) - 1 : ~RequiresTrailingMarker(params[i])

LEMMA ParamPieceOK ==
  ASSUME NEW params \in Seq(Seq(ParamByte)), NEW i \in 1..Len(params)
  PROVE  /\ ParamPiece(params, i) \in Text
         /\ \A p : Run(p, ParamPiece(params, i)) =
                     Run(Run(ParseByte(p, " "), ParamMark(params, i)), params[i])
  <1> DEFINE space == " "
             mark == ParamMark(params, i)
             param == params[i]
  <1>1. space \in Byte /\ ":" \in Byte
    BY DEF Byte
  <1>2. param \in Text
    <2>1. param \in Seq(ParamByte)
      BY ElementOfSeq
    <2> QED BY <2>1, BytesAreBytes, SeqMonotonic DEF Text
  <1>3. mark \in Text
    <2>1. <<>> \in Text
      BY EmptySeq DEF Text
    <2> DEFINE colon == ":"
    <2>2. <<colon>> \in Text
      <3> HIDE DEF colon
      <3>1. colon \in Byte
        BY <1>1 DEF colon
      <3> QED BY <3>1 DEF Text
    <2> QED BY <2>1, <2>2 DEF ParamMark
  <1>4. ParamPiece(params, i) = (<<space>> \o mark) \o param
    BY DEF ParamPiece
  <1> HIDE DEF space, mark, param
  <1>5. ASSUME NEW p
        PROVE  /\ (<<space>> \o mark) \o param \in Text
               /\ Run(p, (<<space>> \o mark) \o param) = Run(Run(ParseByte(p, space), mark), param)
    <2> DEFINE s == <<space>> \o mark
    <2>1. s \in Text /\ Run(p, s) = Run(ParseByte(p, space), mark)
      BY <1>1, <1>3, RunThenByte
    <2> HIDE DEF s
    <2>2. s \o param \in Text /\ Run(p, s \o param) = Run(Run(p, s), param)
      BY <1>2, <2>1, RunOfConcat
    <2> QED BY <2>1, <2>2 DEF s
  <1> QED BY <1>4, <1>5 DEF space, mark, param

\* p has read all of a message's parameters up to here, and a space begins
\* the next one.
ParamBegins(p, m) == ParseByte(p, " ") = At("ParamStart", <<>>, m)

LEMMA NextIndex ==
  ASSUME NEW n \in Nat, NEW k \in Nat, k < n
  PROVE  /\ k \in 0..n /\ k + 1 \in 1..n /\ (k + 1) - 1 = k /\ k + 1 \in Nat
         /\ k + 1 < n => k + 1 \in 1..(n - 1)
         /\ k + 1 = n \/ k + 1 < n
         /\ k + 1 = n => ~(k + 1 < n)
  OBVIOUS

\* The message after the first i parameters.
ParamsUpTo(t, x, c, params, i) == Msg(t, x, c, SubSeq(params, 1, i))

LEMMA OneMoreParamIsRead ==
  ASSUME NEW t, NEW x, NEW c, NEW params \in Seq(Seq(ParamByte)), NoMarkerInside(params),
         NEW k \in Nat, k < Len(params), NEW p,
         ParamBegins(p, ParamsUpTo(t, x, c, params, k))
  PROVE  LET r == Run(p, ParamPiece(params, k + 1))
             n == ParamsUpTo(t, x, c, params, k + 1)
         IN  /\ LineEnds(r, n)
             /\ k + 1 < Len(params) => ParamBegins(r, n)
  <1> DEFINE j == k + 1
             param == params[j]
             front == SubSeq(params, 1, k)
             s == At("ParamStart", <<>>, Msg(t, x, c, front))
             n == Msg(t, x, c, Append(front, param))
             r == Run(p, ParamPiece(params, j))
  <1>0. Len(params) \in Nat
    BY LenProperties
  <1>1. /\ k \in 0..Len(params) /\ j \in 1..Len(params) /\ j \in Nat
        /\ j < Len(params) => j \in 1..(Len(params) - 1)
        /\ j = Len(params) \/ j < Len(params)
        /\ j = Len(params) => ~(j < Len(params))
    BY <1>0, NextIndex
  <1>2. Append(front, param) = SubSeq(params, 1, j)
    BY <1>1, FrontIs
  <1>3. param \in Seq(ParamByte)
    BY <1>1, ElementOfSeq
  <1>4. r = Run(Run(s, ParamMark(params, j)), param)
    <2> HIDE DEF j
    <2>1. Run(p, ParamPiece(params, j)) = Run(Run(ParseByte(p, " "), ParamMark(params, j)), params[j])
      BY <1>1, ParamPieceOK
    <2> QED BY <2>1 DEF ParamsUpTo, ParamBegins
  <1>5. j < Len(params) => ~RequiresTrailingMarker(param)
    <2> HIDE DEF j
    <2> QED BY <1>1 DEF NoMarkerInside
  <1> HIDE DEF j, param, front
  <1>6. CASE RequiresTrailingMarker(param)
    <2>1. j = Len(params)
      BY <1>1, <1>5, <1>6
    <2>2. ParamMark(params, j) = <<":">>
      BY <1>6, <2>1 DEF ParamMark, param
    <2>3. Run(s, <<":">>) = ParseByte(s, ":")
      <3> DEFINE colon == ":"
      <3>1. colon \in Byte
        BY DEF Byte
      <3> HIDE DEF colon, s
      <3>2. Run(s, <<colon>>) = ParseByte(s, colon)
        BY <3>1, RunOfByte
      <3> QED BY <3>2 DEF colon
    <2>4. LineEnds(Run(ParseByte(s, ":"), param), n)
      BY <1>3, TrailingParamIsRead
    <2> HIDE DEF s, r
    <2>5. LineEnds(r, n) /\ ~(j < Len(params))
      BY <1>1, <1>4, <2>1, <2>2, <2>3, <2>4
    <2> HIDE DEF n
    <2> QED BY <1>2, <2>5 DEF n, r, j, ParamsUpTo
  <1>7. CASE ~RequiresTrailingMarker(param)
    <2>1. ParamMark(params, j) = <<>>
      BY <1>7 DEF ParamMark, param
    <2>2. Run(s, <<>>) = s
      <3>1. <<>> \in Text
        BY EmptySeq DEF Text
      <3> HIDE DEF s
      <3> QED BY <3>1, RunOf
    <2>3. TokenEnds(Run(s, param), n)
      BY <1>3, <1>7, PlainParamIsRead
    <2> HIDE DEF s, r, n
    <2>4. TokenEnds(r, n)
      BY <1>4, <2>1, <2>2, <2>3
    <2> QED BY <1>2, <2>4 DEF TokenEnds, LineEnds, ParamBegins, n, r, j, ParamsUpTo
  <1> QED BY <1>6, <1>7

\* What the serializer writes of parameters that the wire format can carry is
\* read as the same parameters.
LEMMA ParamsAreRead ==
  ASSUME NEW t, NEW x, NEW c, NEW params \in Seq(Seq(ParamByte)), NoMarkerInside(params),
         NEW p, TokenEnds(p, Msg(t, x, c, <<>>))
  PROVE  /\ SerializeParams(params) \in Text
         /\ LineEnds(Run(p, SerializeParams(params)), Msg(t, x, c, params))
  <1> DEFINE n == Len(params)
             seqs == [i \in 1..n |-> ParamPiece(params, i)]
             M(i) == ParamsUpTo(t, x, c, params, i)
  <1>1. SerializeParams(params) = FlattenSeq(seqs)
    BY DEF SerializeParams, MapFlatten, ParamPiece, ParamMark
  <1>2. n \in Nat
    BY LenProperties
  <1>3. seqs \in Seq(Text) /\ Len(seqs) = n /\ \A i \in 1..n : seqs[i] = ParamPiece(params, i)
    <2>1. \A i \in 1..n : ParamPiece(params, i) \in Text
      BY ParamPieceOK
    <2> QED BY <1>2, <2>1, IsASeq
  <1> HIDE DEF seqs
  <1>4. PICK f : Flattened(seqs, f)
    BY <1>3, FlattenIs
  <1>5. /\ f[0] = <<>> /\ f[n] = FlattenSeq(seqs) /\ \A i \in 0..n : f[i] \in Text
        /\ \A i \in 1..n : f[i] = f[i - 1] \o ParamPiece(params, i)
    BY <1>3, <1>4 DEF Flattened
  <1> DEFINE q(i) == Run(p, f[i])
             Goes(i) == i < n => ParamBegins(q(i), M(i))
             Ends(i) == LineEnds(q(i), M(i))
             T == {i \in Nat : i <= n => Goes(i) /\ Ends(i)}
  <1>6. Goes(0) /\ Ends(0)
    <2>1. q(0) = p
      BY <1>5, RunOf, EmptySeq DEF Text
    <2>2. M(0) = Msg(t, x, c, <<>>)
      <3>1. SubSeq(params, 1, 0) = <<>>
        BY SubSeqEmpty
      <3> QED BY <3>1 DEF ParamsUpTo
    <2> HIDE DEF q, M
    <2> QED BY <2>1, <2>2 DEF TokenEnds, LineEnds, ParamBegins
  <1>7. ASSUME NEW k \in Nat, k < n, Goes(k) PROVE Goes(k + 1) /\ Ends(k + 1)
    <2>1. k < n /\ k \in 0..n /\ k + 1 \in 1..n /\ (k + 1) - 1 = k
      BY <1>2, <1>7, NextIndex
    <2>2. q(k + 1) = Run(q(k), ParamPiece(params, k + 1))
      <3>1. f[k + 1] = f[k] \o ParamPiece(params, k + 1) /\ f[k] \in Text
        BY <1>5, <2>1
      <3>2. ParamPiece(params, k + 1) \in Text
        BY <2>1, ParamPieceOK
      <3> QED BY <3>1, <3>2, RunOfConcat
    <2> DEFINE s == q(k)
               r == Run(s, ParamPiece(params, k + 1))
    <2>3. ParamBegins(s, M(k))
      BY <1>7, <2>1
    <2>4. r = q(k + 1)
      BY <2>2
    <2> HIDE DEF s, q
    <2>5. /\ LineEnds(r, M(k + 1))
          /\ k + 1 < n => ParamBegins(r, M(k + 1))
      BY <2>1, <2>3, OneMoreParamIsRead
    <2> HIDE DEF r, M
    <2> QED BY <2>4, <2>5
  <1> HIDE DEF Goes, Ends
  <1>8. n \in T
    <2>1. 0 \in T
      BY <1>6
    <2>2. ASSUME NEW k \in T PROVE k + 1 \in T
      <3>1. k \in Nat /\ (k <= n => Goes(k))
        OBVIOUS
      <3>2. k + 1 <= n => Goes(k + 1) /\ Ends(k + 1)
        BY <1>2, <1>7, <3>1
      <3> QED BY <3>1, <3>2
    <2> HIDE DEF T
    <2>3. T \in SUBSET Nat
      BY DEF T
    <2> QED BY <1>2, <2>1, <2>2, <2>3, SetInduction
  <1>9. Ends(n)
    BY <1>2, <1>8
  <1>10. M(n) = Msg(t, x, c, params) /\ f[n] \in Text
    <2>1. SubSeq(params, 1, n) = params
      BY SubSeqFull
    <2>2. M(n) = Msg(t, x, c, params)
      BY <2>1 DEF ParamsUpTo
    <2>3. n \in 0..n
      BY <1>2
    <2>4. f[n] \in Text
      BY <1>5, <2>3
    <2> QED BY <2>2, <2>4
  <1> QED BY <1>1, <1>5, <1>9, <1>10 DEF Ends

-----------------------------------------------------------------------------
(* A serialized message.                                                   *)

LEMMA TwoBytes ==
  ASSUME NEW c \in Byte, NEW d \in Byte
  PROVE  <<c, d>> = <<c>> \o <<d>>
  <1>1. <<c>> \in Seq(Byte)
    OBVIOUS
  <1>2. Append(<<c>>, d) = <<c>> \o <<d>>
    BY <1>1, AppendIsConcat
  <1>3. Append(<<c>>, d) = <<c, d>>
    <2>1. /\ Len(<<c, d>>) = 2 /\ <<c, d>>[1] = c /\ <<c, d>>[2] = d
          /\ Len(<<c>>) = 1 /\ <<c>>[1] = c /\ <<c, d>> \in Seq(Byte)
      OBVIOUS
    <2>2. /\ Append(<<c>>, d) \in Seq(Byte) /\ Len(Append(<<c>>, d)) = 2
          /\ Append(<<c>>, d)[1] = c /\ Append(<<c>>, d)[2] = d
      BY <1>1, <2>1, AppendProperties
    <2>3. \A i \in 1..2 : Append(<<c>>, d)[i] = <<c, d>>[i]
      BY <2>1, <2>2
    <2> QED BY <2>1, <2>2, <2>3, SeqEqual
  <1> QED BY <1>2, <1>3

LEMMA LfCompletes ==
  ASSUME NEW msg \in Message
  PROVE  LET p == Consume(At("Cr", <<>>, msg), "LF") IN
         p.result = "Complete" /\ p.message = msg /\ p \in Parser
  <1> DEFINE q == At("Cr", <<>>, msg)
             p == Consume(q, "LF")
  <1>1. q \in Parser
    <2>1. <<>> \in Text
      BY EmptyMessageOK
    <2> QED BY <2>1 DEF At, Parser, ParseState
  <1>2. q.m_state = "Cr" /\ q.message = msg
    BY AtIs
  <1> HIDE DEF q
  <1>3. p = [q EXCEPT !.m_state = "Complete", !.result = "Complete"]
    BY <1>2 DEF Consume, InCr
  <1>4. p.result = "Complete" /\ p.message = msg /\ p \in Parser
    BY <1>1, <1>2, <1>3 DEF Parser, ParseState
  <1> QED BY <1>4 DEF q

\* What the serializer writes of a message that the wire format can carry is
\* one line: up to its last byte the parser accepts it and goes on, and then
\* the parser has read the message and only the line feed is to come.
LEMMA LineIsRead ==
  ASSUME NEW msg, WellFormed(msg), Representable(msg)
  PROVE  \E s \in Text : /\ SerializeMessage(msg) = Append(s, "LF")
                         /\ Run(Fresh, s) = At("Cr", <<>>, msg)
  <1> DEFINE t == msg.tags
             x == msg.prefix
             c == msg.command
             a == msg.params
             textT == SerializeTags(t)
             textX == PrefixPiece(x)
             textA == SerializeParams(a)
             nothing == <<>>
             cr == "CR"
             lf == "LF"
  <1>1. /\ msg \in Message /\ msg = Msg(t, x, c, a)
        /\ t \in Seq(Tag) /\ x \in Seq(PrefixByte) /\ c \in Text /\ a \in Seq(Seq(ParamByte))
    <2>1. msg \in Message
      BY DEF WellFormed
    <2> QED BY <2>1, MessageIsMsg DEF Message, Tag, KeyText, ValueText, Text
  <1>2. /\ DistinctKeys(t) /\ NoBareTag(t) /\ NoMarkerInside(a) /\ IsCommand(c)
        /\ x = <<>> \/ IsValidPrefix(x)
    BY DEF WellFormed, Representable, DistinctKeys, NoBareTag, NoMarkerInside
  <1>3. SerializeMessage(msg) = (((textT \o textX) \o c) \o textA) \o <<cr, lf>>
    BY DEF SerializeMessage, PrefixPiece
  <1>4. cr \in Byte /\ lf \in Byte
    BY DEF Byte
  <1> HIDE DEF t, x, c, a, textT, textX, textA
  <1>5. /\ textT \in Text
        /\ \E s \in {"Start", "AfterTags"} : Run(Fresh, textT) = At(s, <<>>, Msg(t, <<>>, <<>>, <<>>))
    BY <1>1, <1>2, TagsAreRead, Zenon DEF textT
  <1>6. PICK s1 \in {"Start", "AfterTags"} : Run(Fresh, textT) = At(s1, <<>>, Msg(t, <<>>, <<>>, <<>>))
    BY <1>5, Zenon
  <1>7. /\ textX \in Text
        /\ \E u \in {"Start", "AfterTags", "CommandNameOrNumber"} :
             Run(At(s1, <<>>, Msg(t, <<>>, <<>>, <<>>)), textX) = At(u, <<>>, Msg(t, x, <<>>, <<>>))
    BY <1>1, <1>2, PrefixIsRead, Zenon DEF textX
  <1>8. PICK u \in {"Start", "AfterTags", "CommandNameOrNumber"} :
             Run(At(s1, <<>>, Msg(t, <<>>, <<>>, <<>>)), textX) = At(u, <<>>, Msg(t, x, <<>>, <<>>))
    BY <1>7, Zenon
  <1> DEFINE p == Run(At(u, <<>>, Msg(t, x, <<>>, <<>>)), c)
             head == (textT \o textX) \o c
             text == head \o textA
  <1>9. TokenEnds(p, Msg(t, x, c, <<>>))
    BY <1>1, <1>2, CommandIsRead, Zenon
  <1>10. head \in Text /\ Run(Fresh, head) = p
    <2> DEFINE h == textT \o textX
               q1 == At(s1, <<>>, Msg(t, <<>>, <<>>, <<>>))
               q2 == At(u, <<>>, Msg(t, x, <<>>, <<>>))
    <2>1. Run(Fresh, textT) = q1 /\ Run(q1, textX) = q2 /\ p = Run(q2, c)
      BY <1>6, <1>8, Zenon
    <2> HIDE DEF q1, q2, p
    <2>2. textT \o textX \in Text /\ Run(Fresh, textT \o textX) = Run(Run(Fresh, textT), textX)
      BY <1>5, <1>7, RunOfConcat
    <2>3. h \in Text /\ Run(Fresh, h) = q2
      BY <2>1, <2>2
    <2> HIDE DEF h
    <2>4. h \o c \in Text /\ Run(Fresh, h \o c) = Run(Run(Fresh, h), c)
      BY <1>1, <2>3, RunOfConcat
    <2> QED BY <2>1, <2>3, <2>4 DEF h
  <1> HIDE DEF p
  <1>11. textA \in Text /\ LineEnds(Run(p, textA), msg)
    BY <1>1, <1>2, <1>9, ParamsAreRead, Zenon DEF textA
  <1> HIDE DEF head
  <1>12. text \in Text /\ LineEnds(Run(Fresh, text), msg)
    <2>1. text \in Text /\ Run(Fresh, text) = Run(p, textA)
      BY <1>10, <1>11, RunOfConcat
    <2> QED BY <1>11, <2>1
  <1>13. SerializeMessage(msg) = text \o <<cr, lf>>
    BY <1>3 DEF head
  <1> HIDE DEF text, nothing, cr, lf
  <1>14. ASSUME NEW r \in Text
         PROVE  r \o <<cr, lf>> = Append(r \o <<cr>>, lf)
    <2>0. <<cr, lf>> = <<cr>> \o <<lf>>
      BY <1>4, TwoBytes
    <2>1. <<cr>> \in Text /\ <<lf>> \in Text /\ <<cr, lf>> = <<cr>> \o <<lf>>
      BY <1>4, <2>0 DEF Text
    <2>2. r \o (<<cr>> \o <<lf>>) = (r \o <<cr>>) \o <<lf>>
      BY <2>1, ConcatAssociative DEF Text
    <2>3. r \o <<cr>> \in Text
      BY <2>1, ConcatProperties DEF Text
    <2> DEFINE q == r \o <<cr>>
    <2> HIDE DEF q
    <2>4. q \o <<lf>> = Append(q, lf)
      BY <1>4, <2>3, AppendIsConcat DEF Text, q
    <2> QED BY <2>1, <2>2, <2>4 DEF q
  <1>15. /\ text \o <<cr>> \in Text
         /\ Run(Fresh, text \o <<cr>>) = ParseByte(Run(Fresh, text), cr)
    BY <1>4, <1>12, RunThenByte
  <1>16. SerializeMessage(msg) = Append(text \o <<cr>>, "LF")
    BY <1>12, <1>13, <1>14 DEF lf
  <1>17. Run(Fresh, text \o <<cr>>) = At("Cr", <<>>, msg)
    BY <1>12, <1>15, Zenon DEF LineEnds, cr
  <1> QED BY <1>15, <1>16, <1>17, Zenon

\* MessageParser::Parse reads what SerializeMessage writes of a message as the
\* same message: any message of the grammar that the wire format can carry.
THEOREM SerializedIsRead ==
  ASSUME NEW msg, WellFormed(msg), Representable(msg)
  PROVE  /\ SerializeMessage(msg) \in Text
         /\ LET p == Parse(SerializeMessage(msg)) IN p.result = "Complete" /\ p.message = msg
  <1> DEFINE lf == "LF"
             q == At("Cr", <<>>, msg)
             p == Parse(SerializeMessage(msg))
  <1>1. PICK s \in Text : SerializeMessage(msg) = Append(s, lf) /\ Run(Fresh, s) = q
    BY LineIsRead, Zenon
  <1>2. lf \in Byte
    BY DEF Byte
  <1>3. ParseByte(q, lf) = Consume(q, lf)
    <2>1. q.result = "Incomplete"
      BY AtIs
    <2> HIDE DEF q
    <2> QED BY <2>1 DEF ParseByte
  <1> HIDE DEF lf, q
  <1>4. SerializeMessage(msg) \in Text
    BY <1>1, <1>2, AppendProperties DEF Text
  <1>5. p = Consume(q, lf)
    <2>1. p = Run(Fresh, Append(s, lf))
      BY <1>1 DEF Parse, Run
    <2> QED BY <1>1, <1>2, <1>3, <2>1, RunOf
  <1>6. msg \in Message
    BY DEF WellFormed
  <1>7. Consume(q, lf).result = "Complete" /\ Consume(q, lf).message = msg
    BY <1>6, LfCompletes, Zenon DEF q, lf
  <1> QED BY <1>4, <1>5, <1>7

-----------------------------------------------------------------------------
(* The specification.                                                      *)

LoopInv ==
    /\ wire \in Seq(WireByte)
    /\ line \in Nat
    /\ lines \in SUBSET Nat
    /\ notified \in Seq(Notified)
    /\ Open(parser)

LEMMA OnLineOK ==
  ASSUME NEW text \in Seq(Byte), NEW l \in Nat
  PROVE  OnLine(text, l) \in Seq(WireByte)
  <1>1. Len(text) \in Nat /\ \A i \in 1..Len(text) : text[i] \in Byte
    BY LenProperties, ElementOfSeq
  <1>2. \A i \in 1..Len(text) : [byte |-> text[i], line |-> l] \in WireByte
    BY <1>1 DEF WireByte
  <1> HIDE DEF WireByte
  <1> QED BY <1>1, <1>2, IsASeq DEF OnLine

LEMMA InitOK ==
  ASSUME Init
  PROVE  LoopInv
  <1>1. wire = <<>> /\ parser = Fresh /\ lines = {} /\ notified = <<>> /\ line = 1
    BY DEF Init, LoopInit
  <1>2. <<>> \in Seq(WireByte) /\ <<>> \in Seq(Notified)
    BY EmptySeq
  <1> QED BY <1>1, <1>2, FreshOK DEF LoopInv

LEMMA SendOK ==
  ASSUME LoopInv, NEW text \in Seq(Byte), Send(text)
  PROVE  LoopInv'
  <1>1. wire' = wire \o OnLine(text, line) /\ line' = IF IsSuffix(CrLf, text) THEN line + 1 ELSE line
    BY DEF Send
  <1>2. parser' = parser /\ lines' = lines /\ notified' = notified
    BY DEF Send
  <1>3. wire' \in Seq(WireByte)
    BY <1>1, OnLineOK, ConcatProperties DEF LoopInv
  <1>4. line' \in Nat
    BY <1>1 DEF LoopInv
  <1> QED BY <1>2, <1>3, <1>4 DEF LoopInv

\* The loop's state when a chunk arrives.
LoopBase == [parser |-> parser, lines |-> lines, notified |-> notified, broken |-> FALSE]

LEMMA BaseOK ==
  ASSUME LoopInv
  PROVE  LoopBase \in LoopState
  BY DEF LoopInv, LoopState, Open, ParserInv, LoopBase

\* One read, as the loop over the chunk and the rest of the wire.
LEMMA ReadIs ==
  ASSUME LoopInv, NEW n \in 1..BufferSize, ReadSome(n)
  PROVE  \E chunk, rest \in Seq(WireByte) :
            /\ wire = chunk \o rest
            /\ wire' = rest
            /\ parser' = Reads(LoopBase, chunk).parser
            /\ lines' = Reads(LoopBase, chunk).lines
            /\ notified' = Reads(LoopBase, chunk).notified
  <1> DEFINE chunk == SubSeq(wire, 1, n)
             rest == SubSeq(wire, n + 1, Len(wire))
             loop == Reads(LoopBase, chunk)
  <1>1. /\ wire' = rest
        /\ parser' = loop.parser /\ lines' = loop.lines /\ notified' = loop.notified
    BY DEF ReadSome, Reads, LoopBase
  <1>2. n \in Nat /\ n >= 1 /\ n <= Len(wire) /\ wire \in Seq(WireByte) /\ Len(wire) \in Nat
    BY BufferAssumption, LenProperties DEF ReadSome, LoopInv
  <1>3. chunk \in Seq(WireByte) /\ rest \in Seq(WireByte)
    <2> HIDE DEF WireByte
    <2> QED BY <1>2, SubSeqProperties
  <1>4. chunk \o rest = wire
    <2>1. SubSeq(wire, 1, n) \o SubSeq(wire, n + 1, Len(wire)) = SubSeq(wire, 1, Len(wire))
      BY <1>2, ConcatAdjacentSubSeq
    <2> QED BY <1>2, <2>1, SubSeqFull
  <1> HIDE DEF chunk, rest
  <1> QED BY <1>1, <1>3, <1>4, Zenon

LEMMA ReadOK ==
  ASSUME LoopInv, NEW n \in 1..BufferSize, ReadSome(n), UNCHANGED clientVars
  PROVE  LoopInv'
  <1>1. PICK chunk, rest \in Seq(WireByte) :
            /\ wire' = rest
            /\ parser' = Reads(LoopBase, chunk).parser
            /\ lines' = Reads(LoopBase, chunk).lines
            /\ notified' = Reads(LoopBase, chunk).notified
    BY ReadIs, Zenon
  <1>2. line' = line
    BY DEF clientVars
  <1> DEFINE loop == Reads(LoopBase, chunk)
  <1>3. loop \in LoopState
    BY BaseOK, ChunkOK
  <1> HIDE DEF loop
  <1>4. Open(loop.parser) /\ loop.lines \in SUBSET Nat /\ loop.notified \in Seq(Notified)
    BY <1>3 DEF LoopState
  <1>5. parser' = loop.parser /\ lines' = loop.lines /\ notified' = loop.notified
    BY <1>1 DEF loop
  <1> QED BY <1>1, <1>2, <1>4, <1>5 DEF LoopInv

LEMMA NextOK ==
  ASSUME LoopInv, [Next]_vars
  PROVE  LoopInv'
  <1>1. CASE \E b \in Outgoing : SendMessage(b)
    <2>1. PICK b \in Outgoing : SendMessage(b)
      BY <1>1
    <2>2. SerializeMessage(Build(b)) \in Text
      BY ClientAssumption, SerializedIsRead
    <2>3. SerializeMessage(Build(b)) \in Seq(Byte) /\ Send(SerializeMessage(Build(b)))
      BY <2>1, <2>2 DEF SendMessage, Text
    <2> QED BY <2>3, SendOK
  <1>2. CASE \E text \in Fragment \cup {CrLf} : SendText(text)
    <2>1. PICK text \in Fragment \cup {CrLf} : SendText(text)
      BY <1>2
    <2>2. CrLf \in Seq(Byte)
      BY DEF CrLf, Byte
    <2>3. text \in Seq(Byte) /\ Send(text)
      BY <2>1, <2>2, ClientAssumption DEF SendText
    <2> QED BY <2>3, SendOK
  <1>3. CASE Read
    BY <1>3, ReadOK DEF Read
  <1>4. CASE UNCHANGED vars
    BY <1>4 DEF vars, loopVars, clientVars, LoopInv
  <1> QED BY <1>1, <1>2, <1>3, <1>4 DEF Next

LEMMA LoopInvIsWellFormed ==
  ASSUME LoopInv
  PROVE  NotifiedIsWellFormed
  <1>1. ASSUME NEW i \in 1..Len(notified) PROVE WellFormed(notified[i].message)
    <2>1. notified[i] \in Notified
      <3> HIDE DEF Notified
      <3> QED BY ElementOfSeq DEF LoopInv
    <2> QED BY <2>1 DEF Notified
  <1> QED BY <1>1 DEF NotifiedIsWellFormed

LEMMA WellFormedIsRelayed ==
  ASSUME NotifiedIsWellFormed
  PROVE  NotifiedCanBeRelayed
  <1>1. ASSUME NEW i \in 1..Len(notified), Representable(notified[i].message)
        PROVE  LET p == Parse(SerializeMessage(notified[i].message)) IN
               p.result = "Complete" /\ p.message = notified[i].message
    <2> DEFINE msg == notified[i].message
    <2>1. WellFormed(msg) /\ Representable(msg)
      BY <1>1 DEF NotifiedIsWellFormed
    <2> HIDE DEF msg
    <2>2. LET p == Parse(SerializeMessage(msg)) IN p.result = "Complete" /\ p.message = msg
      BY <2>1, SerializedIsRead
    <2> QED BY <2>2 DEF msg
  <1> QED BY <1>1 DEF NotifiedCanBeRelayed

LEMMA LoopInvHolds == Spec => []LoopInv
  <1>1. Init => LoopInv
    BY InitOK
  <1>2. LoopInv /\ [Next]_vars => LoopInv'
    BY NextOK
  <1> QED BY <1>1, <1>2, PTL DEF Spec

\* Whatever the client sends and however its bytes are cut into reads, what
\* RunReadLoop notifies is a message of the grammar (for every buffer size and
\* every set of texts).
THEOREM GivenIsWellFormed == Spec => []NotifiedIsWellFormed
  BY LoopInvHolds, LoopInvIsWellFormed, PTL

\* A message that RunReadLoop notifies, if the wire format can carry it, is
\* written by MessageSerializer as a line that MessageParser reads as the same
\* message.
THEOREM RelayedIsRead == Spec => []NotifiedCanBeRelayed
  BY LoopInvHolds, LoopInvIsWellFormed, WellFormedIsRelayed, PTL

-----------------------------------------------------------------------------
(* What the peer has sent is what the loop will have read.                 *)

\* One turn of the loop, case by case.
LEMMA ReadByteIs ==
  ASSUME NEW loop \in LoopState, NEW b \in WireByte
  PROVE  LET p == Consume(loop.parser, b.byte)
             r == ReadByte(loop, b)
             given == [message |-> p.message, lines |-> loop.lines \cup {b.line}]
         IN  /\ loop.broken => r = loop
             /\ ~loop.broken /\ p.result = "Invalid" => r.notified = loop.notified
             /\ ~loop.broken /\ p.result = "Incomplete" =>
                    ~r.broken /\ r.parser = p /\ r.notified = loop.notified
             /\ ~loop.broken /\ p.result = "Complete" =>
                    ~r.broken /\ r.parser = Fresh /\ r.notified = Append(loop.notified, given)
             /\ p.result \in {"Incomplete", "Complete", "Invalid"} /\ p \in Parser
             /\ p.result = "Complete" => given \in Notified
  <1> DEFINE p == Consume(loop.parser, b.byte)
             from == loop.lines \cup {b.line}
             given == [message |-> p.message, lines |-> from]
             r == ReadByte(loop, b)
  <1>1. /\ loop \in [parser : Parser, lines : SUBSET Nat, notified : Seq(Notified), broken : BOOLEAN]
        /\ Open(loop.parser) /\ from \in SUBSET Nat /\ b.byte \in Byte
    BY DEF LoopState, WireByte
  <1>2. Consumed(p)
    BY <1>1, ConsumeOK
  <1> HIDE DEF p, from
  <1>3. p \in Parser /\ ParserInv(p) /\ p.result \in {"Incomplete", "Complete", "Invalid"}
    BY <1>2 DEF Consumed, ParserInv, Parser
  <1>4. loop.broken => r = loop
    BY DEF ReadByte
  <1>5. ~loop.broken /\ p.result = "Invalid" => r.notified = loop.notified
    BY <1>1 DEF ReadByte, p
  <1>6. ASSUME ~loop.broken /\ p.result = "Incomplete"
        PROVE  ~r.broken /\ r.parser = p /\ r.notified = loop.notified
    <2>1. r = [loop EXCEPT !.parser = p, !.lines = from]
      BY <1>6 DEF ReadByte, p, from
    <2> HIDE DEF r
    <2> QED BY <1>1, <1>6, <2>1
  <1>7. ASSUME ~loop.broken /\ p.result = "Complete"
        PROVE  ~r.broken /\ r.parser = Fresh /\ r.notified = Append(loop.notified, given)
    <2>1. r = [loop EXCEPT !.parser = Fresh, !.lines = {}, !.notified = Append(@, given)]
      BY <1>3, <1>7, AfterCompleteIsFresh DEF ReadByte, p, from
    <2> HIDE DEF r, given
    <2> QED BY <1>1, <1>7, <2>1
  <1>8. ASSUME p.result = "Complete" PROVE given \in Notified
    <2>1. p.message \in Message /\ Partial(p.message) /\ IsCommand(p.message.command)
      BY <1>2, <1>3, <1>8 DEF Consumed, ParserInv, Parser, HasCommand
    <2>2. WellFormed(p.message)
      BY <2>1 DEF WellFormed, Partial, DistinctKeys
    <2> QED BY <1>1, <2>1, <2>2 DEF Notified
  <1> HIDE DEF r
  <1> QED BY <1>3, <1>4, <1>5, <1>6, <1>7, <1>8 DEF p, from, r

\* After an invalid byte the rest of the chunk is not looked at.
LEMMA BrokenStays ==
  ASSUME NEW loop \in LoopState, loop.broken, NEW chunk \in Seq(WireByte)
  PROVE  Reads(loop, chunk) = loop
  <1> DEFINE T == {s \in Seq(WireByte) : Reads(loop, s) = loop}
  <1>1. <<>> \in T
    BY EmptySeq, ReadsOf
  <1>2. ASSUME NEW s \in T, NEW b \in WireByte PROVE Append(s, b) \in T
    <2>1. s \in Seq(WireByte) /\ Append(s, b) \in Seq(WireByte)
      <3> HIDE DEF WireByte
      <3> QED BY AppendProperties
    <2>2. Reads(loop, Append(s, b)) = ReadByte(Reads(loop, s), b)
      BY <2>1, ReadsOf
    <2>3. ReadByte(loop, b) = loop
      BY ReadByteIs
    <2> QED BY <2>1, <2>2, <2>3
  <1> HIDE DEF T
  <1>3. T \in SUBSET Seq(WireByte)
    BY DEF T
  <1>4. T = Seq(WireByte)
    BY <1>1, <1>2, <1>3, SeqInduction
  <1> QED BY <1>4 DEF T

Extends(s, t) == Len(s) <= Len(t) /\ \A i \in 1..Len(s) : t[i] = s[i]

\* The loop only adds to what was notified.
LEMMA NotifiedGrows ==
  ASSUME NEW loop \in LoopState, NEW chunk \in Seq(WireByte)
  PROVE  Extends(loop.notified, Reads(loop, chunk).notified)
  <1> DEFINE old == loop.notified
             X == {r \in LoopState : Extends(old, r.notified)}
  <1>0. old \in Seq(Notified) /\ Len(old) \in Nat
    BY LenProperties DEF LoopState
  <1>1. loop \in X
    BY <1>0 DEF Extends
  <1>2. ASSUME NEW r \in X, NEW b \in WireByte PROVE ReadByte(r, b) \in X
    <2> DEFINE q == ReadByte(r, b)
               p == Consume(r.parser, b.byte)
               given == [message |-> p.message, lines |-> r.lines \cup {b.line}]
    <2>1. q \in LoopState /\ r \in LoopState /\ Extends(old, r.notified) /\ r.notified \in Seq(Notified)
      BY ReadByteOK DEF LoopState
    <2>2. \/ q = r \/ q.notified = r.notified
          \/ q.notified = Append(r.notified, given) /\ given \in Notified
      BY <2>1, ReadByteIs
    <2> HIDE DEF q, given
    <2>3. CASE q = r \/ q.notified = r.notified
      BY <2>1, <2>3 DEF q
    <2>4. CASE q.notified = Append(r.notified, given) /\ given \in Notified
      <3> DEFINE a == r.notified
      <3>1. /\ Len(Append(a, given)) = Len(a) + 1 /\ Len(a) \in Nat
            /\ \A i \in 1..Len(a) : Append(a, given)[i] = a[i]
        BY <2>1, <2>4, AppendProperties, LenProperties
      <3> HIDE DEF a, old
      <3>2. Extends(old, Append(a, given))
        BY <1>0, <2>1, <3>1 DEF Extends, a
      <3> QED BY <2>1, <2>4, <3>2 DEF q, a
    <2> QED BY <2>2, <2>3, <2>4
  <1> HIDE DEF X, WireByte
  <1>3. Reads(loop, chunk) \in X
    BY <1>1, <1>2, ReadsIsAFold, Reading!FoldStays
  <1> QED BY <1>3 DEF X

LEMMA OnLineOfOneMore ==
  ASSUME NEW s \in Text, NEW c \in Byte, NEW l \in Nat
  PROVE  OnLine(Append(s, c), l) = Append(OnLine(s, l), [byte |-> c, line |-> l])
  <1> DEFINE b == [byte |-> c, line |-> l]
             t == Append(s, c)
             u == OnLine(s, l)
  <1>1. /\ s \in Seq(Byte) /\ t \in Seq(Byte) /\ Len(s) \in Nat /\ Len(t) = Len(s) + 1
        /\ t[Len(s) + 1] = c /\ \A i \in 1..Len(s) : t[i] = s[i]
    BY AppendProperties, LenProperties DEF Text
  <1>2. b \in WireByte
    BY DEF WireByte
  <1>3. u \in Seq(WireByte) /\ OnLine(t, l) \in Seq(WireByte)
    BY <1>1, OnLineOK
  <1>4. /\ Len(OnLine(t, l)) = Len(s) + 1 /\ OnLine(t, l)[Len(s) + 1] = b
        /\ \A i \in 1..Len(s) : OnLine(t, l)[i] = [byte |-> s[i], line |-> l]
        /\ Len(u) = Len(s) /\ \A i \in 1..Len(s) : u[i] = [byte |-> s[i], line |-> l]
    <2> HIDE DEF t
    <2>1. DOMAIN OnLine(t, l) = 1..Len(t) /\ DOMAIN u = 1..Len(s)
      BY DEF OnLine
    <2>2. Len(OnLine(t, l)) = Len(t) /\ Len(u) = Len(s)
      BY <1>1, <1>3, <2>1, LenProperties
    <2> QED BY <1>1, <2>2 DEF OnLine
  <1> HIDE DEF b, t, u, WireByte
  <1>5. /\ Append(u, b) \in Seq(WireByte) /\ Len(Append(u, b)) = Len(s) + 1
        /\ Append(u, b)[Len(s) + 1] = b /\ \A i \in 1..Len(s) : Append(u, b)[i] = u[i]
    BY <1>2, <1>3, <1>4, AppendProperties
  <1>6. \A i \in 1..Len(s) + 1 : OnLine(t, l)[i] = Append(u, b)[i]
    <2> DEFINE n == Len(s)
    <2>1. n \in Nat
      BY <1>1
    <2>2. \A i \in 1..n : OnLine(t, l)[i] = Append(u, b)[i]
      BY <1>4, <1>5
    <2>3. OnLine(t, l)[n + 1] = Append(u, b)[n + 1]
      BY <1>4, <1>5
    <2> HIDE DEF n
    <2>4. \A i \in 1..n + 1 : i \in 1..n \/ i = n + 1
      BY <2>1
    <2>5. \A i \in 1..n + 1 : OnLine(t, l)[i] = Append(u, b)[i]
      BY <2>2, <2>3, <2>4, Zenon
    <2> QED BY <2>5 DEF n
  <1>7. OnLine(t, l) = Append(u, b)
    BY <1>3, <1>4, <1>5, <1>6, SeqEqual
  <1> QED BY <1>7 DEF t, u, b

\* While the parser wants more, the loop only feeds it.
Feeds(loop, text, l) ==
    LET r == Reads(loop, OnLine(text, l)) IN
    ~r.broken /\ r.parser = Run(loop.parser, text) /\ r.notified = loop.notified

LEMMA LoopFeedsParser ==
  ASSUME NEW loop \in LoopState, ~loop.broken, NEW l \in Nat, NEW text \in Text,
         Run(loop.parser, text).result = "Incomplete"
  PROVE  Feeds(loop, text, l)
  <1> DEFINE p == loop.parser
             T == {s \in Seq(Byte) : Run(p, s).result = "Incomplete" => Feeds(loop, s, l)}
  <1>1. <<>> \in T
    <2>1. OnLine(<<>>, l) = <<>>
      <3>1. <<>> \in Seq(Byte) /\ Len(<<>>) = 0
        OBVIOUS
      <3>2. OnLine(<<>>, l) \in Seq(WireByte) /\ DOMAIN OnLine(<<>>, l) = 1..0
        BY <3>1, OnLineOK DEF OnLine
      <3>3. Len(OnLine(<<>>, l)) = 0
        BY <3>2, LenProperties
      <3> HIDE DEF WireByte
      <3> QED BY <3>2, <3>3, EmptySeq
    <2>2. Reads(loop, <<>>) = loop /\ Run(p, <<>>) = p
      BY ReadsOf, RunOf, EmptySeq DEF Text
    <2>3. Feeds(loop, <<>>, l)
      BY <2>1, <2>2 DEF Feeds
    <2> HIDE DEF p
    <2> QED BY <2>3, EmptySeq
  <1>2. ASSUME NEW s \in T, NEW c \in Byte PROVE Append(s, c) \in T
    <2> DEFINE b == [byte |-> c, line |-> l]
               r == Reads(loop, OnLine(s, l))
               q == Run(p, s)
    <2>1. s \in Text /\ Append(s, c) \in Seq(Byte)
      BY AppendProperties DEF Text
    <2>2. Run(p, Append(s, c)) = ParseByte(q, c)
      BY <2>1, RunOf
    <2>3. b \in WireByte /\ b.byte = c
      BY DEF WireByte
    <2>4. OnLine(s, l) \in Seq(WireByte) /\ OnLine(Append(s, c), l) = Append(OnLine(s, l), b)
      BY <2>1, OnLineOK, OnLineOfOneMore DEF Text
    <2>5. r \in LoopState
      BY <2>4, ChunkOK
    <2> HIDE DEF b, r, q
    <2>6. Reads(loop, OnLine(Append(s, c), l)) = ReadByte(r, b)
      BY <2>3, <2>4, ReadsOf DEF r
    <2>7. ASSUME Run(p, Append(s, c)).result = "Incomplete" PROVE Feeds(loop, Append(s, c), l)
      <3>1. q.result = "Incomplete" /\ ParseByte(q, c) = Consume(q, c)
        BY <2>2, <2>7 DEF ParseByte
      <3>2. Feeds(loop, s, l)
        BY <3>1 DEF q
      <3>3. ~r.broken /\ r.parser = q /\ r.notified = loop.notified
        BY <3>2 DEF Feeds, r, q
      <3>4. Consume(r.parser, b.byte).result = "Incomplete" /\ Consume(r.parser, b.byte) = Consume(q, c)
        BY <2>2, <2>3, <2>7, <3>1, <3>3
      <3> DEFINE z == ReadByte(r, b)
      <3>5. ~z.broken /\ z.parser = Consume(q, c) /\ z.notified = loop.notified
        BY <2>3, <2>5, <3>3, <3>4, ReadByteIs
      <3> HIDE DEF z
      <3> QED BY <2>2, <2>6, <3>1, <3>5 DEF Feeds, z
    <2> QED BY <2>1, <2>7
  <1> HIDE DEF T
  <1>3. T \in SUBSET Seq(Byte)
    BY DEF T
  <1>4. T = Seq(Byte)
    BY <1>1, <1>2, <1>3, SeqInduction
  <1> QED BY <1>4 DEF T, Text

\* The loop reads a serialized message as that message, and is then ready for
\* the next.
LEMMA LoopReadsLine ==
  ASSUME NEW msg, WellFormed(msg), Representable(msg), NEW l \in Nat,
         NEW loop \in LoopState, ~loop.broken, loop.parser = Fresh
  PROVE  LET r == Reads(loop, OnLine(SerializeMessage(msg), l)) IN
         /\ ~r.broken /\ r.parser = Fresh
         /\ \E given \in Notified : given.message = msg /\ r.notified = Append(loop.notified, given)
  <1> DEFINE lf == "LF"
             q == At("Cr", <<>>, msg)
             text == SerializeMessage(msg)
             z == Reads(loop, OnLine(text, l))
  <1>1. PICK s \in Text : SerializeMessage(msg) = Append(s, lf) /\ Run(Fresh, s) = q
    BY LineIsRead, Zenon
  <1>2. lf \in Byte /\ q.result = "Incomplete"
    BY AtIs DEF Byte
  <1>3. msg \in Message
    BY DEF WellFormed
  <1>4. Consume(q, lf).result = "Complete" /\ Consume(q, lf).message = msg
    BY <1>3, LfCompletes, Zenon
  <1> HIDE DEF lf, q
  <1> DEFINE b == [byte |-> lf, line |-> l]
             r == Reads(loop, OnLine(s, l))
             given == [message |-> Consume(r.parser, b.byte).message, lines |-> r.lines \cup {b.line}]
  <1>5. Feeds(loop, s, l)
    BY <1>1, <1>2, LoopFeedsParser
  <1>6. ~r.broken /\ r.parser = q /\ r.notified = loop.notified
    BY <1>1, <1>5 DEF Feeds
  <1>7. b \in WireByte /\ b.byte = lf
    BY <1>2 DEF WireByte
  <1>8. OnLine(s, l) \in Seq(WireByte) /\ OnLine(text, l) = Append(OnLine(s, l), b)
    BY <1>1, <1>2, OnLineOK, OnLineOfOneMore DEF Text
  <1>9. r \in LoopState
    BY <1>8, ChunkOK
  <1> HIDE DEF b, r
  <1>10. z = ReadByte(r, b)
    BY <1>7, <1>8, ReadsOf DEF r
  <1> HIDE DEF z
  <1>11. Consume(r.parser, b.byte) = Consume(q, lf)
    BY <1>6, <1>7
  <1>12. ~z.broken /\ z.parser = Fresh /\ z.notified = Append(r.notified, given) /\ given \in Notified
    BY <1>4, <1>6, <1>7, <1>9, <1>10, <1>11, ReadByteIs
  <1>13. given.message = msg
    BY <1>4, <1>11
  <1> HIDE DEF given
  <1>14. \E g \in Notified : g.message = msg /\ z.notified = Append(loop.notified, g)
    BY <1>6, <1>12, <1>13, Zenon
  <1> QED BY <1>12, <1>14, Zenon DEF z

Messages(given) == [i \in 1..Len(given) |-> given[i].message]

LEMMA MessagesOK ==
  ASSUME NEW given \in Seq(Notified)
  PROVE  /\ Messages(given) \in Seq(Message) /\ Len(Messages(given)) = Len(given)
         /\ Len(given) \in Nat /\ \A i \in 1..Len(given) : Messages(given)[i] = given[i].message
  <1>1. Len(given) \in Nat
    BY LenProperties
  <1>2. \A i \in 1..Len(given) : given[i].message \in Message
    <2>1. \A i \in 1..Len(given) : given[i] \in Notified
      <3> HIDE DEF Notified
      <3> QED BY ElementOfSeq
    <2> QED BY <2>1 DEF Notified
  <1>3. Messages(given) \in Seq(Message)
    BY <1>1, <1>2, IsASeq DEF Messages
  <1>4. DOMAIN Messages(given) = 1..Len(given)
    BY DEF Messages
  <1>5. Len(Messages(given)) = Len(given)
    BY <1>1, <1>3, <1>4, LenProperties
  <1> QED BY <1>1, <1>3, <1>5 DEF Messages

LEMMA MessagesOfOneMore ==
  ASSUME NEW given \in Seq(Notified), NEW g \in Notified
  PROVE  Messages(Append(given, g)) = Append(Messages(given), g.message)
  <1> DEFINE n == Len(given)
             t == Append(given, g)
             old == Messages(given)
             new == Messages(t)
             m == g.message
  <1>1. /\ t \in Seq(Notified) /\ n \in Nat /\ Len(t) = n + 1
        /\ t[n + 1] = g /\ \A i \in 1..n : t[i] = given[i]
    <2> HIDE DEF Notified
    <2> QED BY AppendProperties, LenProperties
  <1>2. m \in Message
    BY DEF Notified
  <1>3. /\ old \in Seq(Message) /\ Len(old) = n /\ \A i \in 1..n : old[i] = given[i].message
    BY MessagesOK
  <1>4. /\ new \in Seq(Message) /\ Len(new) = n + 1 /\ \A i \in 1..n + 1 : new[i] = t[i].message
    BY <1>1, MessagesOK
  <1> HIDE DEF n, t, old, new, m
  <1>5. /\ Append(old, m) \in Seq(Message) /\ Len(Append(old, m)) = n + 1
        /\ Append(old, m)[n + 1] = m /\ \A i \in 1..n : Append(old, m)[i] = old[i]
    BY <1>2, <1>3, AppendProperties
  <1>6. \A i \in 1..n + 1 : new[i] = Append(old, m)[i]
    <2>1. \A i \in 1..n + 1 : i \in 1..n \/ i = n + 1
      BY <1>1
    <2>2. n + 1 \in 1..n + 1 /\ \A i \in 1..n : i \in 1..n + 1
      BY <1>1
    <2>3. new[n + 1] = Append(old, m)[n + 1]
      BY <1>1, <1>4, <1>5, <2>2 DEF m
    <2>4. ASSUME NEW i \in 1..n PROVE new[i] = Append(old, m)[i]
      BY <1>1, <1>3, <1>4, <1>5, <2>2
    <2> QED BY <2>1, <2>3, <2>4, Zenon
  <1>7. new = Append(old, m)
    BY <1>4, <1>5, <1>6, SeqEqual
  <1> QED BY <1>7 DEF new, old, t, m

\* Were the whole wire read now, in one chunk, the loop would end between two
\* messages and would have notified all that the peer sent.
PeerInv ==
    client = "peer" =>
        LET end == Reads(LoopBase, wire) IN
        ~end.broken /\ end.parser = Fresh /\ Messages(end.notified) = sent

LEMMA PeerInit ==
  ASSUME Init
  PROVE  PeerInv
  <1>1. wire = <<>> /\ parser = Fresh /\ notified = <<>> /\ sent = <<>>
    BY DEF Init, LoopInit
  <1>2. Reads(LoopBase, wire) = LoopBase
    BY <1>1, ReadsOf, EmptySeq
  <1>3. ~LoopBase.broken /\ LoopBase.parser = Fresh /\ LoopBase.notified = <<>>
    BY <1>1 DEF LoopBase
  <1>4. Messages(<<>>) = <<>>
    <2>1. <<>> \in Seq(Notified) /\ Len(<<>>) = 0
      BY EmptySeq
    <2>2. Messages(<<>>) \in Seq(Message) /\ Len(Messages(<<>>)) = 0
      BY <2>1, MessagesOK
    <2> QED BY <2>2, EmptySeq
  <1> QED BY <1>1, <1>2, <1>3, <1>4 DEF PeerInv

LEMMA PeerSend ==
  ASSUME LoopInv, PeerInv, NEW b \in Outgoing, SendMessage(b)
  PROVE  PeerInv'
  <1> DEFINE msg == Build(b)
             end == Reads(LoopBase, wire)
             bytes == OnLine(SerializeMessage(msg), line)
             new == Reads(end, bytes)
  <1>1. WellFormed(msg) /\ Representable(msg)
    BY ClientAssumption
  <1>2. /\ client = "peer" /\ wire' = wire \o bytes /\ sent' = Append(sent, msg)
        /\ parser' = parser /\ lines' = lines /\ notified' = notified
    BY DEF SendMessage, Send
  <1>3. wire \in Seq(WireByte) /\ line \in Nat
    BY DEF LoopInv
  <1>4. bytes \in Seq(WireByte)
    <2>1. SerializeMessage(msg) \in Seq(Byte)
      BY <1>1, SerializedIsRead DEF Text
    <2> QED BY <1>3, <2>1, OnLineOK
  <1>5. end \in LoopState
    BY <1>3, BaseOK, ChunkOK
  <1>6. ~end.broken /\ end.parser = Fresh /\ Messages(end.notified) = sent
    BY <1>2 DEF PeerInv
  <1>7. Reads(LoopBase, wire \o bytes) = new
    <2> HIDE DEF bytes
    <2> QED BY <1>3, <1>4, ReadsOf
  <1>8. LoopBase' = LoopBase
    BY <1>2 DEF LoopBase
  <1> HIDE DEF end, msg
  <1>9. /\ ~new.broken /\ new.parser = Fresh
        /\ \E given \in Notified : given.message = msg /\ new.notified = Append(end.notified, given)
    BY <1>1, <1>3, <1>5, <1>6, LoopReadsLine
  <1>10. PICK given \in Notified : given.message = msg /\ new.notified = Append(end.notified, given)
    BY <1>9, Zenon
  <1>11. end.notified \in Seq(Notified)
    BY <1>5 DEF LoopState
  <1> HIDE DEF new, bytes
  <1>12. Messages(new.notified) = Append(sent, msg)
    <2>1. Messages(Append(end.notified, given)) = Append(Messages(end.notified), given.message)
      BY <1>11, MessagesOfOneMore
    <2> QED BY <1>6, <1>10, <2>1
  <1>13. Reads(LoopBase, wire)' = new
    BY <1>2, <1>7, <1>8
  <1> QED BY <1>2, <1>9, <1>12, <1>13 DEF PeerInv

LEMMA PeerRead ==
  ASSUME LoopInv, PeerInv, NEW n \in 1..BufferSize, ReadSome(n), UNCHANGED clientVars
  PROVE  PeerInv'
  <1>1. PICK chunk, rest \in Seq(WireByte) :
            /\ wire = chunk \o rest
            /\ wire' = rest
            /\ parser' = Reads(LoopBase, chunk).parser
            /\ lines' = Reads(LoopBase, chunk).lines
            /\ notified' = Reads(LoopBase, chunk).notified
    BY ReadIs, Zenon
  <1>2. client' = client /\ sent' = sent
    BY DEF clientVars
  <1> DEFINE loop == Reads(LoopBase, chunk)
             end == Reads(LoopBase, wire)
  <1>3. loop \in LoopState
    BY BaseOK, ChunkOK
  <1>4. end = Reads(loop, rest)
    BY <1>1, ReadsOf
  <1>5. SUFFICES ASSUME client = "peer" PROVE PeerInv'
    BY <1>2 DEF PeerInv
  <1>6. ~end.broken /\ end.parser = Fresh /\ Messages(end.notified) = sent
    BY <1>5 DEF PeerInv
  <1> HIDE DEF loop, end
  <1>7. loop.broken = FALSE
    <2>1. CASE loop.broken
      <3>1. Reads(loop, rest) = loop
        BY <1>3, <2>1, BrokenStays
      <3> QED BY <1>4, <1>6, <2>1, <3>1
    <2>2. loop.broken \in BOOLEAN
      BY <1>3 DEF LoopState
    <2> QED BY <2>1, <2>2
  <1>8. parser' = loop.parser /\ lines' = loop.lines /\ notified' = loop.notified
    BY <1>1 DEF loop
  <1>9. LoopBase' = loop
    <2>1. loop = [parser |-> loop.parser, lines |-> loop.lines, notified |-> loop.notified,
                  broken |-> FALSE]
      BY <1>3, <1>7 DEF LoopState
    <2> QED BY <1>8, <2>1 DEF LoopBase
  <1>10. Reads(LoopBase, wire)' = end
    BY <1>1, <1>4, <1>9
  <1> QED BY <1>2, <1>6, <1>10 DEF PeerInv

LEMMA PeerNext ==
  ASSUME LoopInv, PeerInv, [Next]_vars
  PROVE  PeerInv'
  <1>1. CASE \E b \in Outgoing : SendMessage(b)
    BY <1>1, PeerSend
  <1>2. CASE \E text \in Fragment \cup {CrLf} : SendText(text)
    <2>1. client = "raw" /\ client' = client
      BY <1>2 DEF SendText, Send
    <2> QED BY <2>1 DEF PeerInv
  <1>3. CASE Read
    BY <1>3, PeerRead DEF Read
  <1>4. CASE UNCHANGED vars
    BY <1>4 DEF vars, loopVars, clientVars, PeerInv, LoopBase
  <1> QED BY <1>1, <1>2, <1>3, <1>4 DEF Next

LEMMA PeerInvIsRoundTrip ==
  ASSUME LoopInv, PeerInv
  PROVE  RoundTrip
  <1>1. SUFFICES ASSUME client = "peer"
                 PROVE  IsPrefix(Received, sent) /\ (wire = <<>> => Received = sent)
    BY DEF RoundTrip
  <1> DEFINE end == Reads(LoopBase, wire)
             all == end.notified
  <1>2. /\ Received = Messages(notified) /\ Messages(all) = sent
        /\ LoopBase \in LoopState /\ LoopBase.notified = notified
        /\ notified \in Seq(Notified) /\ wire \in Seq(WireByte)
    BY <1>1, BaseOK DEF PeerInv, Received, Messages, LoopInv, LoopBase
  <1>3. all \in Seq(Notified)
    <2>1. end \in LoopState
      BY <1>2, ChunkOK
    <2> QED BY <2>1 DEF LoopState
  <1>4. Extends(notified, all)
    BY <1>2, NotifiedGrows
  <1>5. wire = <<>> => all = notified
    BY <1>2, ReadsOf
  <1> HIDE DEF all
  <1>6. /\ Received \in Seq(Message) /\ Len(Received) = Len(notified) /\ Len(notified) \in Nat
        /\ \A i \in 1..Len(notified) : Received[i] = notified[i].message
    BY <1>2, MessagesOK
  <1>7. /\ sent \in Seq(Message) /\ Len(sent) = Len(all) /\ Len(all) \in Nat
        /\ \A i \in 1..Len(all) : sent[i] = all[i].message
    BY <1>2, <1>3, MessagesOK
  <1>8. /\ Len(Received) \in Nat /\ Len(Received) <= Len(sent)
        /\ \A i \in 1..Len(Received) : i \in 1..Len(sent) /\ sent[i] = Received[i]
    BY <1>4, <1>6, <1>7 DEF Extends
  <1>9. SubSeq(Received, 1, Len(Received)) = SubSeq(sent, 1, Len(Received))
    <2> DEFINE n == Len(Received)
               u == SubSeq(Received, 1, n)
               v == SubSeq(sent, 1, n)
    <2> HIDE DEF Message
    <2>1. u = Received
      BY <1>6, SubSeqFull
    <2>2. v \in Seq(Message) /\ Len(v) = n /\ \A i \in 1..n : v[i] = sent[i]
      <3>1. v = [i \in 1..n |-> sent[i]]
        BY <1>7, <1>8
      <3>2. \A i \in 1..n : sent[i] \in Message
        BY <1>7, <1>8, ElementOfSeq
      <3> HIDE DEF v, n
      <3>3. n \in Nat
        BY <1>8 DEF n
      <3> QED BY <3>1, <3>2, <3>3, IsASeq
    <2> HIDE DEF u, v
    <2>3. u = v
      BY <1>6, <1>8, <2>1, <2>2, SeqEqual
    <2> QED BY <2>3 DEF u, v
  <1>10. IsPrefix(Received, sent)
    BY <1>8, <1>9 DEF IsPrefix
  <1>11. wire = <<>> => Received = sent
    BY <1>2, <1>5
  <1> QED BY <1>10, <1>11

\* MessageParser reads what MessageSerializer writes: a peer's messages reach
\* the observers of the connection as they were sent, in order, none of them
\* changed, merged or lost, however the bytes are cut into reads (for every
\* buffer size, every number of messages and every set of messages that the
\* wire format can carry).
THEOREM ParserReadsSerializer == Spec => []RoundTrip
  <1>1. Init => PeerInv
    BY PeerInit
  <1>2. LoopInv /\ PeerInv /\ [Next]_vars => PeerInv'
    BY PeerNext
  <1>3. LoopInv /\ PeerInv => RoundTrip
    BY PeerInvIsRoundTrip
  <1> QED BY LoopInvHolds, <1>1, <1>2, <1>3, PTL DEF Spec
=============================================================================
