-------------------------------- MODULE MCCs --------------------------------
(***************************************************************************)
(* A small instance of Cs for TLC.  Names a, b and c share a bucket, a and *)
(* b even share a CRC; d is in the other bucket.                           *)
(***************************************************************************)
EXTENDS Cs, TLC

CONSTANTS a, b, c, d, m1, m2, m3, m4

MCNames == {a, b, c, d}
MCCrc   == (a :> 4) @@ (b :> 4) @@ (c :> 2) @@ (d :> 3)
MCMbufs == {m1, m2, m3, m4}

\* The state without what no operation reads, the fields of inactive ring
\* entries and of free table slots, but with the last call and its answer.
LiveState == <<[s \in busy |-> entry[s]], [i \in Active |-> ring[i]],
               top, bottom, ret, call>>

MCSymmetry == Permutations(MCMbufs)
=============================================================================
