---------------------------- MODULE MCForwarder ----------------------------
(***************************************************************************)
(* Small instances of Forwarder for TLC.                                   *)
(***************************************************************************)
EXTENDS Forwarder, TLC

CONSTANTS a, b, m1, m2, m3, m4

MCNames == {a, b}
MCHash  == (a :> 0) @@ (b :> 0)
MCFaces == {0, 1}
MCMbufs == {m1, m2, m3, m4}
MCFew   == {m1, m2, m3}
MCApart == (a :> 0) @@ (b :> 1)

\* The state without what no step reads: counters, values returned, and the
\* addresses in the headers.
NoCounters == <<store, pending, ref, tx, nic, done, lent, lost>>
NoReturns  == <<store, pending, ref, mac, tx, nic, done, lent, lost>>

MCSymmetry == Permutations(Mbufs)
=============================================================================
