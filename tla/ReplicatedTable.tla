--------------------------- MODULE ReplicatedTable ---------------------------
(***************************************************************************)
(* What the control plane promises (control_plane.c, and README.md: "To    *)
(* modify FIB use [...] fib-ctrl"): one table of routes that commands      *)
(* change, and a copy of it for every forwarding lcore.  The copies follow *)
(* a command one by one, in the order of the lcores, and all of them have  *)
(* followed before the next command counts.  When the router ends, the     *)
(* table is gone.  Module Control implements this specification.           *)
(***************************************************************************)
EXTENDS Integers, FiniteSets

CONSTANTS
  Prefixes, Faces, Hash, Ways, Capacity,  \* as in module RouteTable
  Forwarding,                             \* the forwarding lcores, numbers
  Commands                                \* records [op, prefix, face]

VARIABLES
  table,   \* the table: how often each route is in it, and routes ever added
  copy     \* copy[l]: the table of lcore l

vars == <<table, copy>>

\* The routes and limits of a table t are those of RouteTable.
T(t) == INSTANCE RouteTable WITH routes <- t.routes, added <- t.added,
                                 ret <- 0, call <- <<>>, Names <- {}, Path <- <<>>

Empty == [routes |-> [r \in Prefixes \X Faces |-> 0], added |-> 0]

\* Table t after the routes r came or went; n counts the additions.
Changed(t, r, d, n) == [t EXCEPT !.routes[r] = @ + d, !.added = @ + n]

\* Table t after command c, refusals included.
After(t, c) ==
  LET r == <<c.prefix, c.face>>
  IN CASE c.op = "ADD" /\ ~T(t)!Exhausted(c.prefix) -> Changed(t, r, 1, 1)
       [] c.op = "DEL" /\ t.routes[r] > 0           -> Changed(t, r, -1, 0)
       [] OTHER                                     -> t

Init == table = Empty /\ copy = [l \in Forwarding |-> Empty]

Command(c) ==
  /\ \A l \in Forwarding : copy[l] = table
  /\ table' = After(table, c)
  /\ UNCHANGED copy

Follow(l) ==
  /\ \A m \in Forwarding : m < l => copy[m] = table
  /\ copy' = [copy EXCEPT ![l] = table]
  /\ UNCHANGED table

Restart == table' = Empty /\ copy' = [l \in Forwarding |-> Empty]

Next == \/ \E c \in Commands : Command(c)
        \/ \E l \in Forwarding : Follow(l)
        \/ Restart

Spec == Init /\ [][Next]_vars
=============================================================================
