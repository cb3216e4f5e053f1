---------------------------- MODULE CircularLog ----------------------------
(***************************************************************************)
(* Index arithmetic of the circular log that lib/pit and lib/cs both keep  *)
(* their entries in: an array of max_elements slots between two cursors,   *)
(* bottom (oldest entry) and top (next slot to write).                     *)
(***************************************************************************)
EXTENDS Integers

CONSTANT MaxElements  \* max_elements given to pit_create or cs_create

ASSUME MaxElementsAssumption == MaxElements \in Nat \ {0}

\* The array has one slot more than max_elements.  One slot always stays
\* unused, so that a full log is not mistaken for an empty one.
RingSize == MaxElements + 1
RingIdx  == 0 .. MaxElements

\* Faulty variant of Succ: the wrap-around is forgotten.
SuccNoWrap(i) == i + 1

\* Next index: (i + 1) % max_elements.
Succ(i) == (i + 1) % RingSize

\* How far index i is from index b, going up and around the array; from
\* bottom to top this is the occupancy, (top + max - bottom) % max.
Dist(b, i) == IF i >= b THEN i - b ELSE i + RingSize - b
=============================================================================
