----------------------------- MODULE MCFibRace ------------------------------
(***************************************************************************)
(* A small instance of FibRace for TLC.  Prefixes a and ab nest, share the *)
(* only bucket and have the same CRC; each may have a route to each face.  *)
(***************************************************************************)
EXTENDS FibRace, TLC

CONSTANTS a, ab, n1

MCPrefixes == {a, ab}
MCCrc      == (a :> 1) @@ (ab :> 1)
MCLength   == (a :> 2) @@ (ab :> 4)
MCStarts   == (a :> {a, ab}) @@ (ab :> {ab})
MCFaces    == {1, 2}
MCNames    == {n1}
MCPath     == n1 :> <<a, ab>>
=============================================================================
