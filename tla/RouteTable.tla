----------------------------- MODULE RouteTable -----------------------------
(***************************************************************************)
(* What a FIB promises (lib/fib/fib.h and the caveats of README.md): a bag *)
(* of routes, each a prefix and a face.  A route may be added again and is *)
(* then to be deleted as often.  A lookup answers with a face of the       *)
(* longest prefix of the name that has a route, whichever of them.         *)
(*                                                                         *)
(* An addition is refused when the prefix's bucket is full, or when as many*)
(* routes as the table has entries were ever added: deleting a route does  *)
(* not give its entry back.  Module Fib implements this specification.     *)
(***************************************************************************)
EXTENDS Integers, FiniteSets

CONSTANTS
  Prefixes,  \* name prefixes a route may be for
  Faces,     \* next hops
  Names,     \* content names looked up
  Path,      \* Path[n]: the prefixes of n, shortest first
  Hash,      \* the bucket each prefix belongs to
  Ways,      \* slots per bucket
  Capacity   \* routes that can ever be added

\* errno.h
EINVAL == 22
ENOENT == 2
ENOSPC == 28

VARIABLES
  routes,    \* how many times each route is in the table
  added,     \* routes added so far
  ret,       \* what the last call returned: an error, 0, or a face
  call       \* the call that was made last, with its arguments

vars == <<routes, added, ret, call>>

Routes == Prefixes \X Faces

Init ==
  /\ routes = [r \in Routes |-> 0]
  /\ added = 0
  /\ ret = 0
  /\ call = <<>>

\* The faces p is routed to; how many routes share p's bucket.
NextHops(p) == {f \in Faces : routes[<<p, f>>] > 0}
Load(p)     == Cardinality({x \in Routes \X (1 .. Ways) :
                              /\ Hash[x[1][1]] = Hash[p]
                              /\ x[2] <= routes[x[1]]})

Exhausted(p) == added = Capacity \/ Load(p) = Ways

Add(p, f) ==
  /\ ~Exhausted(p)
  /\ routes' = [routes EXCEPT ![<<p, f>>] = @ + 1]
  /\ added' = added + 1
  /\ ret' = 0

Refuse(p) == Exhausted(p) /\ ret' = -ENOSPC /\ UNCHANGED <<routes, added>>

Invalid == ret' = -EINVAL /\ UNCHANGED <<routes, added>>

Del(p, f) ==
  /\ routes[<<p, f>>] > 0
  /\ routes' = [routes EXCEPT ![<<p, f>>] = @ - 1]
  /\ ret' = 0
  /\ UNCHANGED added

Missing(p, f) ==
  /\ routes[<<p, f>>] = 0
  /\ ret' = -ENOENT
  /\ UNCHANGED <<routes, added>>

\* The prefixes of n that have a route, by their position in Path[n].
Routed(n) == {k \in DOMAIN Path[n] : NextHops(Path[n][k]) # {}}

Lookup(n) ==
  /\ \/ Routed(n) = {} /\ ret' = -ENOENT
     \/ \E k \in Routed(n) : /\ \A j \in Routed(n) : j <= k
                             /\ ret' \in NextHops(Path[n][k])
  /\ UNCHANGED <<routes, added>>

Next ==
  \/ \E p \in Prefixes, f \in Faces :
       \/ (Add(p, f) \/ Refuse(p)) /\ call' = <<"add", p, f>>
       \/ (Del(p, f) \/ Missing(p, f)) /\ call' = <<"del", p, f>>
  \/ \E n \in Names : Lookup(n) /\ call' = <<"lookup", n>>
  \/ Invalid /\ call' = <<"invalid">>

Spec == Init /\ [][Next]_vars
=============================================================================
