--------------------------- MODULE MCWireClients ---------------------------
(***************************************************************************)
(* Messages for the peer: commands of both kinds, every shape of prefix,   *)
(* and the parameters and tags at the edges of the wire format, a tag that *)
(* is set twice among them.  Fragments for the raw client: the bytes that  *)
(* have a part in the grammar or none anywhere, and pieces that reach its  *)
(* far states in a few sends.                                              *)
(***************************************************************************)
EXTENDS WireClients

Word == <<"a">>

Commands == {<<"a", "a">>, <<"1", "1", "1">>}
PrefixTexts == {<<>>, <<"a", "!", "a", "@", "a", ".", "a">>}
LastParams == {Word, <<>>, <<":", "a">>, <<"a", " ", ":">>, <<"a", ":">>}
ParamLists == {<<>>} \cup {<<l>> : l \in LastParams} \cup {<<Word, l>> : l \in LastParams}
TagLists ==
    LET Tag(k, v) == [key |-> k, value |-> v] IN
    {<<>>, <<Tag(Word, <<>>)>>,
     <<Tag(Word, <<"1">>), Tag(<<"1">>, <<>>), Tag(Word, <<"/", "[">>)>>}

MCOutgoing ==
    [tags : TagLists, prefix : PrefixTexts, command : {<<"a", "a">>}, params : ParamLists]
      \cup [tags : {<<>>}, prefix : {<<>>}, command : Commands, params : {<<>>, <<Word>>}]

MCFragment ==
    {<<c>> : c \in {"a", ":", " ", "LF", "NUL", "high"}}
      \cup {<<"@", "a">>, <<"=", "a">>, <<";", "a">>, <<" ", ":", "a", "@", "a", " ">>, <<"1", "1", "1">>}
=============================================================================
