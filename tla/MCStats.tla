------------------------------ MODULE MCStats ------------------------------
(***************************************************************************)
(* A small instance of Stats: two forwarding lcores, or one when the core  *)
(* mask has a hole, and two counters that one packet may increment.        *)
(***************************************************************************)
EXTENDS Stats

MCCoreMasks == {{0, 1, 2}, {0, 1, 3}}
MCCounters  == <<"int_recv", "int_cs_hit">>

\* No property looks at what a report says that met traffic or a reset.
QuietReports ==
  <<IF print.pos.quiet /\ clean THEN print ELSE print.pos, print.part,
    enabled, mem, reset, resets, traffic, history>>
=============================================================================
