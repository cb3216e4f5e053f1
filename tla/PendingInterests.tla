-------------------------- MODULE PendingInterests --------------------------
(***************************************************************************)
(* What a PIT promises to the data plane (the doc comments of lib/pit/pit.h*)
(* and the way main/data_plane.c uses the return values): a map from names *)
(* to the faces that asked for them.  No hash table, no ring, no time.     *)
(*                                                                         *)
(* An Interest for a pending name only adds a face; one for a new name is  *)
(* recorded or refused; Data takes the whole set of faces; a purge drops   *)
(* names.  Module Pit implements this specification; which names a purge   *)
(* drops is the subject of Pit's own properties.                           *)
(***************************************************************************)
EXTENDS Integers

CONSTANTS Names, Faces

\* errno.h
ENOSPC == 28

VARIABLES
  pending,  \* pending[n]: the faces that wait for n
  ret,      \* what the last call returned
  call      \* the call that was made last, with its arguments

vars == <<pending, ret, call>>

Answer(c, fs) == [code |-> c, faces |-> fs]

\* The map with a new entry, and without the names of S.
With(map, n, f)  == [m \in DOMAIN map \cup {n} |->
                       IF m = n THEN {f} ELSE map[m]]
Without(map, S)  == [m \in DOMAIN map \ S |-> map[m]]

Init ==
  /\ pending = [n \in {} |-> {}]
  /\ ret = Answer(0, {})
  /\ call = <<>>

\* The name is pending already: the caller must not forward the Interest.
Aggregate(n, f) ==
  /\ n \in DOMAIN pending
  /\ pending' = [pending EXCEPT ![n] = @ \cup {f}]
  /\ ret' = Answer(0, {})

\* A new name, recorded: the caller forwards the Interest.
Record(n, f) ==
  /\ n \notin DOMAIN pending
  /\ pending' = With(pending, n, f)
  /\ ret' = Answer(1, {})

\* A new name, refused: nothing is pending for it.
Refuse(n) ==
  /\ n \notin DOMAIN pending
  /\ ret' = Answer(-ENOSPC, {})
  /\ UNCHANGED pending

\* Data for n takes every face that asked for it, and the entry with them.
Take(n) ==
  /\ pending' = Without(pending, {n})
  /\ ret' = Answer(0, IF n \in DOMAIN pending THEN pending[n] ELSE {})

\* Names leave at the end of their lifetime.  The number returned may count
\* more than these: entries that Data had already taken.
Drop(S) == pending' = Without(pending, S)

Purge ==
  /\ \E S \in SUBSET DOMAIN pending : Drop(S)
  /\ ret' \in [code : Nat, faces : {{}}]

Next ==
  \/ \E n \in Names, f \in Faces :
       /\ Aggregate(n, f) \/ Record(n, f) \/ Refuse(n)
       /\ call' = <<"update", n, f>>
  \/ \E n \in Names : Take(n) /\ call' = <<"remove", n>>
  \/ Purge /\ call' = <<"purge">>

Spec == Init /\ [][Next]_vars
=============================================================================
