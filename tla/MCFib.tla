-------------------------------- MODULE MCFib --------------------------------
(***************************************************************************)
(* A small instance of Fib for TLC.  Prefixes a and ab nest and share a    *)
(* bucket, ab and c even share a CRC; d is in the other bucket.  All names *)
(* fit in an entry, or c runs into one and ab into two entries behind.     *)
(***************************************************************************)
EXTENDS Fib, TLC

CONSTANTS a, ab, c, d, n1, n2, n3

MCPrefixes == {a, ab, c, d}
MCCrc      == (a :> 2) @@ (ab :> 4) @@ (c :> 4) @@ (d :> 3)
MCFits     == [p \in MCPrefixes |-> 0]
MCLong     == (a :> 0) @@ (ab :> 2) @@ (c :> 1) @@ (d :> 0)
MCFaces    == {0, 1}
MCNames    == {n1, n2, n3}
MCPath     == (n1 :> <<a, ab>>) @@ (n2 :> <<a, d>>) @@ (n3 :> <<c>>)

\* The state without what no operation reads: free table slots, entries no
\* slot points at, the last call and its answer.
LiveState == <<[s \in busy |-> entry[s]],
               [i \in Index \cap {entry[s].index : s \in busy} |-> fwd[i]],
               next_free>>
=============================================================================
