----------------------------- MODULE MCStartup -----------------------------
(***************************************************************************)
(* Small machines for Startup: up to four lcores on two sockets, up to     *)
(* two ports, masks with and without holes.                                *)
(***************************************************************************)
EXTENDS Startup

AllCoreMasks  == SUBSET (0 .. 3) \ {{}}
AllPortMasks  == SUBSET (0 .. 2)
=============================================================================
