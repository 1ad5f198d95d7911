------------------------------ MODULE MCStartup ------------------------------
(***************************************************************************)
(* Documents for Startup: a proper one; one with settings out of range, of *)
(* a wrong type and of a type that is dropped; and one whose server        *)
(* section is no table, so that what the others have below it is gone.     *)
(***************************************************************************)
EXTENDS Startup

Table     == [type |-> "table", value |-> 0]
Number(n) == [type |-> "integer", value |-> n]
Str       == [type |-> "string", value |-> 0]
Date      == [type |-> "date", value |-> 0]

Root   == <<>> :> Table
Proper == Root @@ <<"server">> :> Table
                @@ <<"server", "num_workers">> :> Number(2) @@ <<"server", "port">> :> Number(5)
Odd    == Root @@ <<"server">> :> Table @@ <<"server", "num_workers">> :> Str
                @@ <<"server", "port">> :> Number(-1) @@ <<"server", "tls_port">> :> Date
Flat   == Root @@ <<"server">> :> Number(9)

Documents == {Proper, Odd, Flat}

\* The path of no segments, what ConfigPath("") makes, a table and a value.
Paths == {<<>>, <<"">>, <<"server">>, <<"server", "port">>}
=============================================================================
