------------------------- MODULE MessageSerializer -------------------------
(***************************************************************************)
(* server/MessageSerializer.cc: the wire format of a message, as the bytes *)
(* of MessageParser.  Both sinks run the same SerializeMessage, so its     *)
(* length is ComputeRequiredSpace.                                         *)
(***************************************************************************)
EXTENDS MessageParser

RequiresTrailingMarker(param) ==
    param = <<>> \/ param[1] = ":" \/ Contains(param, " ")

\* Elements of a sequence mapped to bytes, with the index at hand.
MapFlatten(s, Op(_)) == FlattenSeq([i \in 1..Len(s) |-> Op(i)])

SerializeTags(tags) ==
    LET Tag(i) ==
            (IF i = 1 THEN <<"@">> ELSE <<";">>) \o tags[i].key
              \o (IF tags[i].value = <<>> THEN <<>> ELSE <<"=">> \o tags[i].value)
    IN  IF tags = <<>> THEN <<>> ELSE MapFlatten(tags, Tag) \o <<" ">>

\* Mutant of SerializeParams: no marker before an empty parameter.
SerializeParamsBare(params) ==
    LET Param(i) ==
            <<" ">> \o (IF i = Len(params) /\ Contains(params[i], " ") THEN <<":">> ELSE <<>>)
                    \o params[i]
    IN  MapFlatten(params, Param)

SerializeParams(params) ==
    LET Param(i) ==
            <<" ">> \o (IF i = Len(params) /\ RequiresTrailingMarker(params[i])
                          THEN <<":">> ELSE <<>>)
                    \o params[i]
    IN  MapFlatten(params, Param)

SerializeMessage(msg) ==
    SerializeTags(msg.tags)
      \o (IF msg.prefix = <<>> THEN <<>> ELSE <<":">> \o msg.prefix \o <<" ">>)
      \o msg.command
      \o SerializeParams(msg.params)
      \o <<"CR", "LF">>
=============================================================================
