------------------------------ MODULE TomlValue ------------------------------
(***************************************************************************)
(* config/TomlConfig.{h,cc}: the values a TOML document becomes, and how a *)
(* path is looked up in them; and server/Server.cc's reading of the        *)
(* server's settings from a value.                                         *)
(*                                                                         *)
(* A document (toml::table, external) and the TomlValue made of it are     *)
(* trees.  Both are a function from paths, sequences of keys, to nodes     *)
(* [type, value]; the root is at <<>>, and a node that is not a table has  *)
(* nothing below it.  Only integers carry a value here, and what is in an  *)
(* array is left out.  The empty function is the null pointer.             *)
(***************************************************************************)
EXTENDS Integers, Sequences, SequencesExt

CONSTANTS
    Key,          \* the keys a document can have, strings
    WorkerBits,   \* the width of unsigned int
    PortBits      \* the width of std::uint16_t

ASSUME KeyAssumption == {"server", "num_workers", "port", "tls_port"} \subseteq Key

\* That a power of 2 is positive is said because the provers know nothing of ^.
ASSUME WidthAssumption ==
    /\ {WorkerBits, PortBits} \subseteq Nat \ {0}
    /\ {2 ^ WorkerBits, 2 ^ PortBits} \subseteq Nat \ {0}

Null == <<>>

\* A node carries an integer if its type says so, and what is above it is a table.
IsTree(table) ==
    /\ DOMAIN table \subseteq Seq(Key)
    /\ \A p \in DOMAIN table :
         /\ table[p].type = "integer" => table[p].value \in Int
         /\ \A n \in 0..Len(p) - 1 :
              SubSeq(p, 1, n) \in DOMAIN table /\ table[SubSeq(p, 1, n)].type = "table"

\* What the parser (external) makes of a text: its root is a table.
IsTable(table) == IsTree(table) /\ <<>> \in DOMAIN table /\ table[<<>>].type = "table"

\* The alternatives of TomlValue::Variant.
VariantType == {"boolean", "integer", "float", "string", "array", "table"}

\* Does NodeToVariant have a value for the node?  Not for the other types of
\* TOML, the dates and times.
NodeToVariant(node) == node.type \in VariantType

\* TomlMap::Create keeps the nodes that have a value.
Kept(table) == {p \in DOMAIN table : NodeToVariant(table[p])}

\* TomlValue::Create on the root, which is a table.
Create(table) == [p \in Kept(table) |-> table[p]]

Is(value, type) == value # Null /\ value[<<>>].type = type

\* TomlValue::AsMap, and AsInt64().value_or(0) on a pointer that may be null.
AsMap(value) == IF Is(value, "table") THEN value ELSE Null
AsInt64(value) == IF Is(value, "integer") THEN value[<<>>].value ELSE 0

\* TomlMap::Get.
Get(map, key) ==
    LET below == {p \in DOMAIN map : p # <<>> /\ Head(p) = key}
    IN [q \in {Tail(p) : p \in below} |-> map[<<key>> \o q]]

\* Mutant of Dig: at a value that is no table the loop stops and returns it.
DigStopsEarly(value, path) ==
    FoldLeft(LAMBDA cur, segment : IF AsMap(cur) = Null THEN cur ELSE Get(AsMap(cur), segment),
             value, path)

\* One AsMap and Get for each segment; null as soon as either gives null.
Dig(value, path) ==
    FoldLeft(LAMBDA cur, segment : IF AsMap(cur) = Null THEN Null ELSE Get(AsMap(cur), segment),
             value, path)

-----------------------------------------------------------------------------
\* ServerConfigData.
ServerConfigData ==
    [NumWorkers : 0..(2 ^ WorkerBits - 1), Port : 0..(2 ^ PortBits - 1), TlsPort : 0..(2 ^ PortBits - 1)]

\* ParseServerConfigFromValue succeeds for a table, whatever is in it.
Parses(value) == AsMap(value) # Null

\* A key that is missing, or no integer, counts as 0; an integer is cut to the
\* width of its member.
ParseServerConfigFromValue(value) ==
    [NumWorkers |-> AsInt64(Get(value, "num_workers")) % 2 ^ WorkerBits,
     Port       |-> AsInt64(Get(value, "port")) % 2 ^ PortBits,
     TlsPort    |-> AsInt64(Get(value, "tls_port")) % 2 ^ PortBits]
=============================================================================
