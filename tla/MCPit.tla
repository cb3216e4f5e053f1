------------------------------- MODULE MCPit -------------------------------
(***************************************************************************)
(* A small instance of Pit for TLC.  Names a, b and c share a bucket, a    *)
(* and b even share a CRC; d is in the other bucket.                       *)
(***************************************************************************)
EXTENDS Pit, TLC

CONSTANTS a, b, c, d, f1, f2

MCNames == {a, b, c, d}
MCCrc   == (a :> 4) @@ (b :> 4) @@ (c :> 2) @@ (d :> 3)
MCFaces == {f1, f2}

\* The state without what no operation reads: the fields of inactive ring
\* entries and of free table slots, and the last call with its answer.
LiveState == <<[s \in busy |-> entry[s]], [i \in Active |-> ring[i]],
               [i \in Window |-> born[i]], top, bottom, ttl, now>>

MCSymmetry == Permutations(MCFaces)
=============================================================================
