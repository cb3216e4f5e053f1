----------------------------- MODULE MCControl -----------------------------
(***************************************************************************)
(* A small instance of Control: two forwarding lcores, two prefixes in one *)
(* bucket, a device for each element, port masks with and without holes.    *)
(***************************************************************************)
EXTENDS Control, TLC

CONSTANTS a, b, empty

MCPrefixes == {a, b}
MCHash     == (a :> 0) @@ (b :> 0)
MCMasks    == {{0, 1}, {0, 2}}

Msg(o, p, f) == [op |-> o, prefix |-> p, face |-> f]
MCMessages == {Msg(o, a, f) : o \in {"ADD", "DEL"}, f \in {0, 2}}
                \cup {Msg("ADD", b, 3), Msg("ADD", empty, 0),
                      Msg("undelimited", a, 0), Msg("overlong", a, 0)}
=============================================================================
