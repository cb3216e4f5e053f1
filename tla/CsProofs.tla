------------------------------ MODULE CsProofs ------------------------------
(***************************************************************************)
(* Proofs about Cs for every name space, hash, pool and table size.        *)
(***************************************************************************)
EXTENDS Cs, Sequences, FiniteSetTheorems, TLAPS

-----------------------------------------------------------------------------
(* The index arithmetic of the log, for every size.                        *)

\* Succ without the remainder.
LEMMA SuccValue ==
  ASSUME NEW i \in RingIdx
  PROVE  Succ(i) = IF i = MaxElements THEN 0 ELSE i + 1
BY MaxElementsAssumption DEF RingIdx, RingSize, Succ

\* Positions from a base are distinct, and the base is at position 0.
LEMMA DistFacts ==
  ASSUME NEW b \in RingIdx, NEW i \in RingIdx, NEW j \in RingIdx
  PROVE  /\ Dist(b, i) \in RingIdx
         /\ Dist(b, i) = Dist(b, j) => i = j
         /\ Dist(b, i) = 0 <=> i = b
BY MaxElementsAssumption DEF Dist, RingIdx, RingSize

\* Moving the base up to c takes the same distance off what is beyond c.
LEMMA DistShift ==
  ASSUME NEW b \in RingIdx, NEW c \in RingIdx, NEW i \in RingIdx,
         Dist(b, c) <= Dist(b, i)
  PROVE  Dist(c, i) = Dist(b, i) - Dist(b, c)
BY MaxElementsAssumption DEF Dist, RingIdx, RingSize

\* Unless the ring is full, one more entry is one more position.
LEMMA DistSucc ==
  ASSUME NEW b \in RingIdx, NEW t \in RingIdx, Succ(t) # b
  PROVE  Dist(b, Succ(t)) = Dist(b, t) + 1
BY MaxElementsAssumption, SuccValue DEF Dist, RingIdx, RingSize

-----------------------------------------------------------------------------
(* Positions in the log.                                                   *)

\* The position of every ring index, in use or not.
LEMMA PosInRange ==
  ASSUME TypeOK, NEW i \in RingIdx
  PROVE  Pos(i) \in RingIdx /\ Pos(i) \in Nat
<1>1. Pos(i) \in RingIdx
  BY DistFacts DEF TypeOK, Pos
<1> QED
  BY <1>1, MaxElementsAssumption DEF RingIdx

LEMMA InitConsistent == Init => Consistent
<1> SUFFICES ASSUME Init
             PROVE  Consistent
  OBVIOUS
<1>1. TypeOK
  BY SizesAssumption, MaxElementsAssumption
  DEF Init, TypeOK, TableEntry, RingEntry, RingIdx, Buckets, Tabs, Answer,
      ENOSPC
<1>2. Active = {} /\ Window = {}
  BY DEF Init, Active, Window, Pos, Dist, RingIdx
<1> QED
  BY <1>1, <1>2
  DEF Consistent, TableAgreesWithRing, SlotsPointIntoRing, RingPointsIntoTable,
      NoHoles, HeldOnce, Init

-----------------------------------------------------------------------------
(* Insertion.  In a full log the entry at bottom leaves and the slot at top *)
(* is still another one; the two cursors then both move.                   *)

\* The entries an insertion evicts.
Oldest == IF IsFull THEN {bottom} ELSE {}

\* Where the cursors are around an insertion.
LEMMA InsertCursors ==
  ASSUME Consistent, bottom' = IF IsFull THEN Succ(bottom) ELSE bottom,
         top' = Succ(top)
  PROVE  /\ top' \in RingIdx /\ bottom' \in RingIdx
         /\ top \notin Active
         /\ Oldest \subseteq Active
         /\ Window' = (Window \ Oldest) \cup {top}
<1>1. TypeOK /\ top \in RingIdx /\ bottom \in RingIdx
  BY DEF Consistent, TypeOK
<1>2. \A i \in RingIdx : Pos(i) \in Nat
  BY <1>1, PosInRange
<1>3. Pos(bottom) = 0 /\ \A i \in RingIdx : Pos(i) = 0 => i = bottom
  BY <1>1, DistFacts DEF Pos
<1>4. top' \in RingIdx /\ Succ(bottom) \in RingIdx /\ bottom' \in RingIdx
  BY <1>1, SuccValue, MaxElementsAssumption DEF RingIdx
<1>5. top \notin Window /\ Active = Window
  BY <1>2 DEF Window, Consistent, TableAgreesWithRing, NoHoles
<1>6. \A i, j \in RingIdx : Pos(i) = Pos(j) => i = j
  BY <1>1, DistFacts DEF Pos
<1>7. CASE ~IsFull
  <2>1. Dist(bottom, top') = Pos(top) + 1 /\ bottom' = bottom
    BY <1>1, <1>7, DistSucc DEF Pos, IsFull
  <2>2. Window' = {i \in RingIdx : Pos(i) < Pos(top) + 1}
    BY <2>1 DEF Window, Pos
  <2>3. Window' = Window \cup {top}
    BY <1>1, <1>2, <1>6, <2>2 DEF Window
  <2> QED
    BY <1>4, <1>5, <1>7, <2>3 DEF Oldest
<1>8. CASE IsFull
  <2>1. Succ(bottom) # bottom /\ Succ(top) = bottom /\ top # bottom
    BY <1>1, <1>8, SuccValue, MaxElementsAssumption DEF RingIdx, IsFull
  <2>2. Pos(Succ(bottom)) = 1
    BY <1>1, <1>3, <2>1, DistSucc DEF Pos
  <2>3. bottom \in Window
    BY <1>1, <1>2, <1>3, <2>1 DEF Window
  <2>4. Pos(top) = MaxElements
    BY <1>1, <2>1, SuccValue, MaxElementsAssumption
    DEF Pos, Dist, RingIdx, RingSize
  <2>5. top' = bottom /\ bottom' = Succ(bottom)
    BY <1>8 DEF IsFull
  <2>6. \A i \in RingIdx \ {bottom} :
           Dist(bottom', i) = Pos(i) - 1 /\ Pos(i) <= MaxElements
    <3>1. SUFFICES ASSUME NEW i \in RingIdx \ {bottom}
                   PROVE  Dist(bottom', i) = Pos(i) - 1
                          /\ Pos(i) <= MaxElements
      OBVIOUS
    <3>2. Pos(i) >= 1 /\ Pos(i) <= MaxElements
      BY <1>1, <1>2, <1>3, PosInRange, MaxElementsAssumption DEF RingIdx
    <3> QED
      BY <1>1, <1>4, <2>2, <2>5, <3>2, DistShift DEF Pos
  <2>7. Dist(bottom', bottom) = MaxElements
    BY <1>1, <2>5, SuccValue, MaxElementsAssumption
    DEF Dist, RingIdx, RingSize
  <2>8. Window' = RingIdx \ {bottom}
    <3>1. Window' = {i \in RingIdx : Dist(bottom', i) < MaxElements}
      BY <2>5, <2>7 DEF Window, Pos
    <3>2. \A i \in RingIdx \ {bottom} : Dist(bottom', i) < MaxElements
      BY <1>2, <2>6, MaxElementsAssumption
    <3> QED
      BY <1>1, <2>7, <3>1, <3>2, MaxElementsAssumption
  <2>9. Window = RingIdx \ {top}
    <3>1. \A i \in RingIdx \ {top} : Pos(i) < MaxElements
      BY <1>1, <1>2, <1>6, <2>4, PosInRange, MaxElementsAssumption DEF RingIdx
    <3> QED
      BY <1>1, <1>5, <2>4, <3>1 DEF Window
  <2> QED
    BY <1>1, <1>4, <1>5, <1>8, <2>1, <2>3, <2>8, <2>9 DEF Oldest
<1> QED
  BY <1>7, <1>8

\* What an insertion writes.
LEMMA InsertWrites ==
  ASSUME Consistent, NEW n \in Names, NEW m \in Mbufs, Insert(n, m)
  PROVE  \E s \in Slots :
           /\ s \notin busy /\ s[1] = BucketOf(n)
           /\ s[1] \in Buckets /\ s[2] \in Tabs /\ s = <<s[1], s[2]>>
           /\ busy' = (busy \ {<<ring[i].bucket, ring[i].tab>> : i \in Oldest})
                        \cup {s}
           /\ entry' \in [Slots -> TableEntry]
           /\ entry'[s] = [crc |-> Crc[n], index |-> top]
           /\ \A r \in Slots \ {s} : entry'[r] = entry[r]
           /\ ring' \in [RingIdx -> RingEntry]
           /\ ring'[top] = [active |-> TRUE, bucket |-> s[1], tab |-> s[2],
                            name |-> n, mbuf |-> m]
           /\ \A i \in RingIdx \ ({top} \cup Oldest) : ring'[i] = ring[i]
           /\ \A i \in Oldest \ {top} : ring'[i].active = FALSE
           /\ ret' \in [code : {0, -ENOSPC}, mbuf : Mbufs \cup {NoMbuf},
                        freed : Mbufs \cup {NoMbuf}]
           /\ ret'.freed = IF IsFull THEN ring[bottom].mbuf ELSE NoMbuf
<1>1. PICK s \in FreeSlots(n) : InsertAt(s, n, m)
  BY DEF Insert
<1>2. /\ TypeOK /\ s \in Slots /\ s \notin busy /\ s[1] = BucketOf(n)
      /\ top \in RingIdx /\ bottom \in RingIdx
      /\ ring \in [RingIdx -> RingEntry] /\ entry \in [Slots -> TableEntry]
  BY DEF Consistent, TypeOK, FreeSlots
<1>3. s[1] \in Buckets /\ s[2] \in Tabs /\ s = <<s[1], s[2]>>
  BY <1>2 DEF Slots
<1>4. /\ entry' \in [Slots -> TableEntry]
      /\ entry'[s] = [crc |-> Crc[n], index |-> top]
      /\ \A r \in Slots \ {s} : entry'[r] = entry[r]
  BY <1>1, <1>2, CrcAssumption DEF InsertAt, TableEntry
<1>5. /\ ring' \in [RingIdx -> RingEntry]
      /\ ring'[top] = [active |-> TRUE, bucket |-> s[1], tab |-> s[2],
                       name |-> n, mbuf |-> m]
      /\ \A i \in RingIdx \ ({top} \cup Oldest) : ring'[i] = ring[i]
      /\ \A i \in Oldest \ {top} : ring'[i].active = FALSE
  <2>1. ring' = [i \in RingIdx |->
                   IF i = top
                   THEN [active |-> TRUE, bucket |-> s[1], tab |-> s[2],
                         name |-> n, mbuf |-> m]
                   ELSE IF i \in Oldest
                        THEN [ring[i] EXCEPT !.active = FALSE]
                        ELSE ring[i]]
    BY <1>1 DEF InsertAt, Oldest
  <2>2. Oldest \subseteq RingIdx
    BY <1>2 DEF Oldest
  <2> QED
    BY <1>2, <1>3, <2>1, <2>2 DEF RingEntry
<1>6. busy' = (busy \ {<<ring[i].bucket, ring[i].tab>> : i \in Oldest})
                \cup {s}
  BY <1>1 DEF InsertAt, Oldest
<1>7. /\ ret' \in [code : {0, -ENOSPC}, mbuf : Mbufs \cup {NoMbuf},
                   freed : Mbufs \cup {NoMbuf}]
      /\ ret'.freed = IF IsFull THEN ring[bottom].mbuf ELSE NoMbuf
  BY <1>1, <1>2 DEF InsertAt, Answer, RingEntry
<1> QED
  BY <1>2, <1>3, <1>4, <1>5, <1>6, <1>7

LEMMA InsertConsistent ==
  ASSUME Consistent, NEW n \in Names, NEW m \in Mbufs, Insert(n, m)
  PROVE  /\ Consistent'
         /\ Held \ Held' = {ret'.freed} \ {NoMbuf}
<1> DEFINE Slot(i) == <<ring[i].bucket, ring[i].tab>>
<1>1. PICK s \in Slots :
        /\ s \notin busy /\ s[1] = BucketOf(n)
        /\ s[1] \in Buckets /\ s[2] \in Tabs /\ s = <<s[1], s[2]>>
        /\ busy' = (busy \ {Slot(i) : i \in Oldest}) \cup {s}
        /\ entry' \in [Slots -> TableEntry]
        /\ entry'[s] = [crc |-> Crc[n], index |-> top]
        /\ \A r \in Slots \ {s} : entry'[r] = entry[r]
        /\ ring' \in [RingIdx -> RingEntry]
        /\ ring'[top] = [active |-> TRUE, bucket |-> s[1], tab |-> s[2],
                         name |-> n, mbuf |-> m]
        /\ \A i \in RingIdx \ ({top} \cup Oldest) : ring'[i] = ring[i]
        /\ \A i \in Oldest \ {top} : ring'[i].active = FALSE
        /\ ret' \in [code : {0, -ENOSPC}, mbuf : Mbufs \cup {NoMbuf},
                     freed : Mbufs \cup {NoMbuf}]
        /\ ret'.freed = IF IsFull THEN ring[bottom].mbuf ELSE NoMbuf
  BY InsertWrites
<1>2. /\ bottom' = IF IsFull THEN Succ(bottom) ELSE bottom
      /\ top' = Succ(top)
      /\ m \notin Held
  BY DEF Insert, InsertAt
<1>3. /\ top' \in RingIdx /\ bottom' \in RingIdx
      /\ top \notin Active /\ Oldest \subseteq Active
      /\ Window' = (Window \ Oldest) \cup {top}
  BY <1>2, InsertCursors
<1>4. TypeOK /\ top \in RingIdx /\ busy \subseteq Slots
  BY DEF Consistent, TypeOK
<1>5. TypeOK'
  BY <1>1, <1>3, <1>4 DEF TypeOK
<1>6. /\ \A i \in Active : i \in RingIdx /\ i # top
      /\ \A i \in Active \ Oldest : ring'[i] = ring[i]
      /\ ring'[top].active /\ ring'[top].name = n /\ ring'[top].mbuf = m
      /\ ring'[top].bucket = s[1] /\ ring'[top].tab = s[2]
  BY <1>1, <1>3, <1>4 DEF Active
<1>7. Active' = (Active \ Oldest) \cup {top}
  BY <1>1, <1>3, <1>4, <1>6 DEF Active
<1>8. \A i \in Active : Slot(i) \in busy /\ entry[Slot(i)].index = i
  BY DEF Consistent, TableAgreesWithRing, RingPointsIntoTable
<1>9. SlotsPointIntoRing'
  <2>1. ASSUME NEW r \in busy', r # s
        PROVE  LET i == entry'[r].index IN
               /\ ring'[i].active
               /\ r = <<ring'[i].bucket, ring'[i].tab>>
               /\ ring'[i].name \in Names
               /\ ring'[i].mbuf \in Mbufs
               /\ entry'[r].crc = Crc[ring'[i].name]
               /\ r[1] = BucketOf(ring'[i].name)
    <3> DEFINE i == entry[r].index
    <3>1. r \in busy /\ r \notin {Slot(k) : k \in Oldest} /\ entry'[r] = entry[r]
      BY <1>1, <1>4, <2>1
    <3>2. i \in Active /\ r = Slot(i)
      BY <1>4, <3>1
      DEF Consistent, TypeOK, TableEntry, TableAgreesWithRing,
          SlotsPointIntoRing, Active
    <3>3. i \in Active \ Oldest /\ ring'[i] = ring[i]
      BY <1>6, <3>1, <3>2
    <3> QED
      BY <3>1, <3>3
      DEF Consistent, TableAgreesWithRing, SlotsPointIntoRing
  <2>2. /\ ring'[top].active
        /\ s = <<ring'[top].bucket, ring'[top].tab>>
        /\ ring'[top].name \in Names
        /\ ring'[top].mbuf \in Mbufs
        /\ entry'[s].crc = Crc[ring'[top].name]
        /\ s[1] = BucketOf(ring'[top].name)
        /\ entry'[s].index = top
    BY <1>1, <1>6
  <2> QED
    BY <2>1, <2>2 DEF SlotsPointIntoRing, BucketOf
<1>10. RingPointsIntoTable'
  <2>1. ASSUME NEW i \in Active \ Oldest
        PROVE  LET r == <<ring'[i].bucket, ring'[i].tab>> IN
               r \in busy' /\ entry'[r].index = i
    <3>1. Slot(i) \notin {Slot(k) : k \in Oldest} /\ Slot(i) # s
      <4>1. ASSUME NEW k \in Oldest
            PROVE  Slot(i) # Slot(k)
        <5>1. k \in Active /\ k # i
          BY <1>3
        <5>2. entry[Slot(i)].index = i /\ entry[Slot(k)].index = k
          BY <1>8, <5>1
        <5> QED
          BY <5>1, <5>2
      <4>2. Slot(i) \in busy /\ s \notin busy
        BY <1>1, <1>8
      <4> QED
        BY <4>1, <4>2
    <3> QED
      BY <1>1, <1>4, <1>6, <1>8, <3>1
  <2>2. LET r == <<ring'[top].bucket, ring'[top].tab>> IN
        r \in busy' /\ entry'[r].index = top
    BY <1>1, <1>6
  <2> QED
    BY <1>7, <2>1, <2>2 DEF RingPointsIntoTable
<1>11. NoHoles'
  BY <1>3, <1>7 DEF Consistent, TableAgreesWithRing, NoHoles
<1>12. HeldOnce'
  <2>1. \A i \in Active : ring[i].mbuf # m
    BY <1>2 DEF Held
  <2> QED
    BY <1>6, <1>7, <2>1 DEF Consistent, HeldOnce
<1>13. Held' = {ring[i].mbuf : i \in Active \ Oldest} \cup {m}
  BY <1>6, <1>7 DEF Held
<1>14. Held \ Held' = {ring[i].mbuf : i \in Oldest}
  BY <1>2, <1>3, <1>13 DEF Held, Consistent, HeldOnce
<1>15. {ring[i].mbuf : i \in Oldest} = {ret'.freed} \ {NoMbuf}
  <2>1. \A i \in Active : ring[i].mbuf \in Mbufs
    BY <1>4, <1>8
    DEF Consistent, TableAgreesWithRing, SlotsPointIntoRing
  <2> QED
    BY <1>1, <1>3, <2>1, NamesAssumption DEF Oldest
<1> QED
  BY <1>5, <1>9, <1>10, <1>11, <1>12, <1>14, <1>15
  DEF Consistent, TableAgreesWithRing

-----------------------------------------------------------------------------
(* Lookups and refusals change nothing but the value returned.             *)

LEMMA OnlyRetConsistent ==
  ASSUME Consistent, UNCHANGED <<busy, entry, ring, top, bottom>>,
         ret' \in [code : {0, -ENOSPC}, mbuf : Mbufs \cup {NoMbuf},
                   freed : Mbufs \cup {NoMbuf}]
  PROVE  Consistent' /\ Held' = Held
<1>1. Active' = Active /\ Window' = Window
  BY DEF Active, Window, Pos, Dist
<1>2. TypeOK'
  BY DEF Consistent, TypeOK
<1>3. TableAgreesWithRing'
  BY <1>1
  DEF Consistent, TableAgreesWithRing, SlotsPointIntoRing,
      RingPointsIntoTable, NoHoles, BucketOf
<1>4. HeldOnce' /\ Held' = Held
  BY <1>1 DEF Consistent, HeldOnce, Held
<1> QED
  BY <1>2, <1>3, <1>4 DEF Consistent

LEMMA LookupReturns ==
  ASSUME Consistent, NEW n \in Names, Lookup(n)
  PROVE  /\ ret' \in [code : {0, -ENOSPC}, mbuf : Mbufs \cup {NoMbuf},
                      freed : Mbufs \cup {NoMbuf}]
         /\ ret'.freed = NoMbuf
<1>1. CASE Matches(n) = {} /\ ret' = Answer(0, NoMbuf, NoMbuf)
  BY <1>1 DEF Answer
<1>2. ASSUME NEW s \in Matches(n),
             ret' = Answer(0, ring[entry[s].index].mbuf, NoMbuf)
      PROVE  /\ ret' \in [code : {0, -ENOSPC}, mbuf : Mbufs \cup {NoMbuf},
                          freed : Mbufs \cup {NoMbuf}]
             /\ ret'.freed = NoMbuf
  <2>1. ring[entry[s].index].mbuf \in Mbufs
    BY DEF Matches, Consistent, TableAgreesWithRing, SlotsPointIntoRing
  <2> QED
    BY <1>2, <2>1 DEF Answer
<1> QED
  BY <1>1, <1>2 DEF Lookup

LEMMA NextConsistent ==
  ASSUME Consistent, Next
  PROVE  Consistent' /\ Held \ Held' = {ret'.freed} \ {NoMbuf}
<1>1. ASSUME NEW n \in Names, NEW m \in Mbufs, Insert(n, m)
      PROVE  Consistent' /\ Held \ Held' = {ret'.freed} \ {NoMbuf}
  BY <1>1, InsertConsistent
<1>2. ASSUME NEW n \in Names, Refuse(n)
      PROVE  Consistent' /\ Held \ Held' = {ret'.freed} \ {NoMbuf}
  <2>1. /\ ret' \in [code : {0, -ENOSPC}, mbuf : Mbufs \cup {NoMbuf},
                     freed : Mbufs \cup {NoMbuf}]
        /\ ret'.freed = NoMbuf
    BY <1>2 DEF Refuse, Answer
  <2> QED
    BY <1>2, <2>1, OnlyRetConsistent DEF Refuse
<1>3. ASSUME NEW n \in Names, Lookup(n)
      PROVE  Consistent' /\ Held \ Held' = {ret'.freed} \ {NoMbuf}
  BY <1>3, LookupReturns, OnlyRetConsistent DEF Lookup
<1> QED
  BY <1>1, <1>2, <1>3 DEF Next

-----------------------------------------------------------------------------
(* The theorems.                                                           *)

\* The inductive invariant holds in every reachable state.
THEOREM CsConsistent == Spec => []Consistent
<1>1. Init => Consistent
  BY InitConsistent
<1>2. Consistent /\ [Next]_vars => Consistent'
  <2>1. ASSUME Consistent, UNCHANGED vars
        PROVE  Consistent'
    BY <2>1, OnlyRetConsistent DEF vars, Consistent, TypeOK
  <2> QED
    BY <2>1, NextConsistent
<1> QED
  BY <1>1, <1>2, PTL DEF Spec

\* Indices, slots and buffers of a CS stay within their ranges for any sizes.
THEOREM CsTypeCorrect == Spec => []TypeOK
<1>1. Consistent => TypeOK
  BY DEF Consistent
<1> QED
  BY <1>1, CsConsistent, PTL

\* The hash table and the log of a CS always agree, and the log has no holes.
THEOREM TableAlwaysAgrees == Spec => []TableAgreesWithRing
BY CsConsistent, PTL DEF Consistent

\* No mbuf is cached twice.
THEOREM AlwaysHeldOnce == Spec => []HeldOnce
BY CsConsistent, PTL DEF Consistent

\* The store frees a packet exactly when it forgets it, whatever the table
\* size, the hash and the number of buffers.
THEOREM AlwaysFreedWhenForgotten == Spec => FreedWhenForgotten
<1>1. Consistent /\ [Next]_vars => [Held \ Held' = {ret'.freed} \ {NoMbuf}]_vars
  BY NextConsistent
<1> QED
  BY <1>1, CsConsistent, PTL DEF Spec, FreedWhenForgotten

-----------------------------------------------------------------------------
(* The CS implements ContentStore.  The queue is the ring read from bottom *)
(* to top: its element k lies at position k - 1.                           *)

\* The ring index of the k-th packet of the queue, and the packet there.
At(k)    == (bottom + k - 1) % RingSize
PacketAt(i) == [name |-> ring[i].name, mbuf |-> ring[i].mbuf]

\* A remainder by RingSize is one subtraction at most.
LEMMA ModOnce ==
  ASSUME NEW x \in 0 .. 2 * RingSize - 1
  PROVE  x % RingSize = IF x < RingSize THEN x ELSE x - RingSize
<1>1. RingSize \in Nat \ {0}
  BY MaxElementsAssumption DEF RingSize
<1>2. CASE x < RingSize
  BY <1>1, <1>2
<1>3. CASE x >= RingSize
  <2>1. x = RingSize * 1 + (x - RingSize) /\ x - RingSize \in 0 .. RingSize - 1
    BY <1>1, <1>3
  <2> QED
    BY <1>1, <1>3, <2>1, Z3
<1> QED
  BY <1>1, <1>2, <1>3

\* At and Pos undo each other.
LEMMA AtInverse ==
  ASSUME TypeOK
  PROVE  /\ \A k \in 1 .. RingSize : At(k) \in RingIdx /\ Pos(At(k)) = k - 1
         /\ \A i \in RingIdx : Pos(i) + 1 \in 1 .. RingSize /\ At(Pos(i) + 1) = i
<1>1. bottom \in RingIdx /\ RingSize = MaxElements + 1 /\ RingIdx = 0 .. MaxElements
  BY DEF TypeOK, RingSize, RingIdx
<1>2. ASSUME NEW k \in 1 .. RingSize
      PROVE  At(k) = IF bottom + k - 1 < RingSize THEN bottom + k - 1
                     ELSE bottom + k - 1 - RingSize
  <2> DEFINE x == bottom + k - 1
  <2>1. x \in 0 .. 2 * RingSize - 1
    BY <1>1, MaxElementsAssumption
  <2>2. At(k) = x % RingSize
    BY DEF At
  <2> HIDE DEF x
  <2>3. At(k) = IF x < RingSize THEN x ELSE x - RingSize
    BY <2>1, <2>2, ModOnce
  <2> QED
    BY <1>1, <2>3, MaxElementsAssumption DEF x
<1>3. ASSUME NEW k \in 1 .. RingSize
      PROVE  At(k) \in RingIdx /\ Pos(At(k)) = k - 1
  <2> DEFINE a == At(k)
  <2>1. a = IF bottom + k - 1 < RingSize THEN bottom + k - 1
            ELSE bottom + k - 1 - RingSize
    BY <1>2
  <2>2. Pos(a) = IF a >= bottom THEN a - bottom ELSE a + RingSize - bottom
    BY DEF Pos, Dist
  <2> HIDE DEF a
  <2>3. a \in RingIdx /\ Pos(a) = k - 1
    BY <1>1, <2>1, <2>2, MaxElementsAssumption
  <2> QED
    BY <2>3 DEF a
<1>4. ASSUME NEW i \in RingIdx
      PROVE  Pos(i) + 1 \in 1 .. RingSize /\ At(Pos(i) + 1) = i
  <2> DEFINE p == Pos(i)
  <2>1. p \in RingIdx
    BY PosInRange
  <2>2. p + 1 \in 1 .. RingSize
    BY <1>1, <2>1, MaxElementsAssumption
  <2>3. p = IF i >= bottom THEN i - bottom ELSE i + RingSize - bottom
    BY DEF Pos, Dist
  <2>4. At(p + 1) = IF bottom + (p + 1) - 1 < RingSize THEN bottom + (p + 1) - 1
                    ELSE bottom + (p + 1) - 1 - RingSize
    BY <1>2, <2>2
  <2> HIDE DEF p
  <2>5. At(p + 1) = i
    BY <1>1, <2>3, <2>4, MaxElementsAssumption
  <2> QED
    BY <2>2, <2>5 DEF p
<1> QED
  BY <1>3, <1>4

\* The queue lists the active packets.
LEMMA StoreListsActive ==
  ASSUME Consistent
  PROVE  /\ Pos(top) \in 0 .. MaxElements
         /\ store = [k \in 1 .. Pos(top) |-> PacketAt(At(k))]
         /\ store \in Seq(Abs!Packet) /\ Len(store) = Pos(top)
         /\ DOMAIN store = 1 .. Pos(top)
         /\ \A k \in DOMAIN store : At(k) \in Active /\ Pos(At(k)) = k - 1
         /\ \A i \in Active : Pos(i) + 1 \in DOMAIN store /\ At(Pos(i) + 1) = i
         /\ \A i \in Active : ring[i].name \in Names /\ ring[i].mbuf \in Mbufs
<1>1. TypeOK /\ top \in RingIdx /\ Active = Window
  BY DEF Consistent, TypeOK, TableAgreesWithRing, NoHoles
<1>2. Pos(top) \in 0 .. MaxElements
  BY <1>1, PosInRange DEF RingIdx
<1>3. store = [k \in 1 .. Pos(top) |-> PacketAt(At(k))]
  BY DEF store, PacketAt, At
<1>4. ASSUME NEW k \in 1 .. Pos(top)
      PROVE  At(k) \in Active /\ Pos(At(k)) = k - 1
  <2>1. k \in 1 .. RingSize
    BY <1>2, MaxElementsAssumption DEF RingSize
  <2>2. At(k) \in RingIdx /\ Pos(At(k)) = k - 1
    BY <1>1, <2>1, AtInverse
  <2> QED
    BY <1>1, <1>2, <2>2 DEF Window
<1>5. ASSUME NEW i \in Active
      PROVE  Pos(i) + 1 \in 1 .. Pos(top) /\ At(Pos(i) + 1) = i
  <2>1. i \in RingIdx /\ Pos(i) < Pos(top) /\ Pos(i) \in Nat
    BY <1>1, PosInRange DEF Window
  <2> QED
    BY <1>1, <1>2, <2>1, AtInverse
<1>6. \A i \in Active : ring[i].name \in Names /\ ring[i].mbuf \in Mbufs
  BY DEF Consistent, TableAgreesWithRing, SlotsPointIntoRing,
         RingPointsIntoTable
<1>7. store \in Seq(Abs!Packet) /\ Len(store) = Pos(top)
  <2>1. \A k \in 1 .. Pos(top) : PacketAt(At(k)) \in Abs!Packet
    BY <1>4, <1>6 DEF PacketAt, Abs!Packet
  <2> QED
    BY <1>2, <1>3, <2>1
<1> QED
  BY <1>2, <1>3, <1>4, <1>5, <1>6, <1>7

\* The packets of the queue that share n's bucket correspond to the busy slots
\* of that bucket, so the bucket is full when the queue says it is.
LEMMA BucketCount ==
  ASSUME Consistent, NEW n \in Names
  PROVE  /\ Cardinality(Abs!SameBucket(n)) = BucketSize <=> FreeSlots(n) = {}
         /\ Cardinality(Abs!SameBucket(n)) \in 0 .. BucketSize
<1> DEFINE b == BucketOf(n)
           T == {k \in Tabs : <<b, k>> \in busy}
           S == Abs!SameBucket(n)
           E(k) == entry[<<b, k>>].index
           f == [k \in T |-> Pos(E(k)) + 1]
<1>1. b \in Buckets
  <2>1. Crc[n] \in Nat /\ NumBuckets \in Nat \ {0}
    BY CrcAssumption, SizesAssumption
  <2> QED
    BY <2>1 DEF BucketOf, Buckets
<1>2. S = {k \in DOMAIN store : BucketOf(ring[At(k)].name) = b}
  <2>1. \A k \in DOMAIN store : /\ store[k].name = ring[At(k)].name
                                /\ ring[At(k)].name \in Names
    BY StoreListsActive DEF PacketAt
  <2> QED
    BY <2>1 DEF Abs!SameBucket
<1>3. ASSUME NEW k \in T
      PROVE  /\ E(k) \in Active
             /\ ring[E(k)].bucket = b /\ ring[E(k)].tab = k
             /\ f[k] \in S /\ At(f[k]) = E(k)
  <2>1. E(k) \in RingIdx
    BY DEF Consistent, TypeOK, TableEntry
  <2>2. /\ E(k) \in Active
        /\ <<b, k>> = <<ring[E(k)].bucket, ring[E(k)].tab>>
        /\ b = BucketOf(ring[E(k)].name)
    BY <2>1 DEF Consistent, TableAgreesWithRing, SlotsPointIntoRing, Active
  <2>3. Pos(E(k)) + 1 \in DOMAIN store /\ At(Pos(E(k)) + 1) = E(k)
    BY <2>2, StoreListsActive
  <2>4. f[k] = Pos(E(k)) + 1
    OBVIOUS
  <2> HIDE DEF f, E
  <2> QED
    BY <1>2, <2>2, <2>3, <2>4
<1>4. \A k, l \in T : f[k] = f[l] => k = l
  <2> HIDE DEF f, E, T
  <2> QED
    BY <1>3
<1>5. ASSUME NEW j \in S
      PROVE  \E k \in T : f[k] = j
  <2> DEFINE i == At(j)
             s == <<ring[i].bucket, ring[i].tab>>
  <2>1. j \in DOMAIN store /\ BucketOf(ring[i].name) = b
    BY <1>2
  <2>2. i \in Active /\ Pos(i) = j - 1 /\ j \in Int
    BY <2>1, StoreListsActive
  <2>3. s \in busy /\ s \in Slots /\ entry[s].index = i
    BY <2>2
    DEF Consistent, TypeOK, TableAgreesWithRing, RingPointsIntoTable
  <2>4. s[1] = b
    BY <2>1, <2>3 DEF Consistent, TableAgreesWithRing, SlotsPointIntoRing
  <2> DEFINE k == ring[i].tab
  <2>5. s = <<b, k>> /\ k \in Tabs
    BY <2>3, <2>4 DEF Slots
  <2>6. k \in T /\ E(k) = i
    BY <2>3, <2>5
  <2>7. f[k] = Pos(i) + 1
    BY <2>6
  <2> HIDE DEF f, E, T, i, k
  <2> QED
    BY <2>2, <2>6, <2>7
<1>6. f \in Bijection(T, S)
  <2>1. f \in [T -> S]
    BY <1>3
  <2> HIDE DEF f, T, S
  <2> QED
    BY <1>4, <1>5, <2>1 DEF Bijection, Injection, Surjection, IsInjective
<1>7. IsFiniteSet(Tabs) /\ Cardinality(Tabs) = BucketSize
  BY SizesAssumption, FS_Interval DEF Tabs
<1>8. /\ IsFiniteSet(T) /\ Cardinality(T) <= BucketSize
      /\ Cardinality(T) = BucketSize => T = Tabs
      /\ T = Tabs => Cardinality(T) = BucketSize
  <2>1. T \in SUBSET Tabs
    OBVIOUS
  <2> HIDE DEF T
  <2> QED
    BY <1>7, <2>1, FS_Subset
<1>9. Cardinality(T) \in Nat
  BY <1>8, FS_CardinalityType
<1>10. Cardinality(S) = Cardinality(T)
  <2> HIDE DEF f, T, S
  <2> QED
    BY <1>6, <1>8, FS_Bijection DEF ExistsBijection
<1>11. FreeSlots(n) = {} <=> T = Tabs
  <2>1. FreeSlots(n) = {s \in Slots : s \notin busy /\ s[1] = b}
    BY DEF FreeSlots
  <2>2. ASSUME FreeSlots(n) = {}, NEW k \in Tabs
        PROVE  k \in T
    <3>1. <<b, k>> \in Slots /\ <<b, k>>[1] = b
      BY <1>1 DEF Slots
    <3> QED
      BY <2>1, <2>2, <3>1
  <2>3. ASSUME T = Tabs, NEW s \in FreeSlots(n)
        PROVE  FALSE
    <3>1. s = <<b, s[2]>> /\ s[2] \in Tabs /\ s \notin busy
      BY <2>1, <2>3 DEF Slots
    <3> QED
      BY <2>3, <3>1
  <2> QED
    BY <2>2, <2>3
<1> HIDE DEF T, S
<1>12. Cardinality(S) = BucketSize <=> FreeSlots(n) = {}
  BY <1>8, <1>10, <1>11
<1>13. Cardinality(S) \in 0 .. BucketSize
  BY <1>8, <1>9, <1>10, SizesAssumption
<1> QED
  BY <1>12, <1>13 DEF S

\* The ring is full when it holds as many packets as it may.
LEMMA FullByCount ==
  ASSUME TypeOK
  PROVE  IsFull <=> Pos(top) = MaxElements
BY SuccValue, MaxElementsAssumption
DEF TypeOK, IsFull, Pos, Dist, RingIdx, RingSize

\* Once the base has moved up by one, position k is what k + 1 was.
LEMMA AtNextBase ==
  ASSUME TypeOK, NEW k \in 1 .. MaxElements
  PROVE  (Succ(bottom) + k - 1) % RingSize = At(k + 1)
<1>1. bottom \in RingIdx /\ RingSize = MaxElements + 1 /\ RingIdx = 0 .. MaxElements
  BY DEF TypeOK, RingSize, RingIdx
<1> DEFINE x == Succ(bottom) + k - 1
           y == bottom + (k + 1) - 1
<1>2. /\ Succ(bottom) = IF bottom = MaxElements THEN 0 ELSE bottom + 1
      /\ x \in 0 .. 2 * RingSize - 1 /\ y \in 0 .. 2 * RingSize - 1
  BY <1>1, SuccValue, MaxElementsAssumption
<1>3. /\ x = IF bottom = MaxElements THEN k - 1 ELSE bottom + k
      /\ y = bottom + k
  BY <1>1, <1>2, MaxElementsAssumption
<1>4. At(k + 1) = y % RingSize
  BY DEF At
<1> HIDE DEF x, y
<1>5. /\ x % RingSize = IF x < RingSize THEN x ELSE x - RingSize
      /\ y % RingSize = IF y < RingSize THEN y ELSE y - RingSize
  BY <1>2, ModOnce
<1>6. x % RingSize = y % RingSize
  BY <1>1, <1>3, <1>5, MaxElementsAssumption
<1> QED
  BY <1>4, <1>6 DEF x

\* What Append returns, element by element.
LEMMA AppendValue ==
  ASSUME NEW S, NEW q \in Seq(S), NEW e \in S
  PROVE  Append(q, e) = [k \in 1 .. Len(q) + 1 |-> IF k <= Len(q) THEN q[k] ELSE e]
<1>1. /\ Append(q, e) \in Seq(S) /\ Len(Append(q, e)) = Len(q) + 1
      /\ \A k \in 1 .. Len(q) : Append(q, e)[k] = q[k]
      /\ Append(q, e)[Len(q) + 1] = e
  OBVIOUS
<1> DEFINE a == Append(q, e)
<1>2. /\ a \in Seq(S) /\ Len(a) = Len(q) + 1
      /\ \A k \in 1 .. Len(q) : a[k] = q[k]
      /\ a[Len(q) + 1] = e
  BY <1>1
<1> HIDE DEF a
<1>3. Len(q) \in Nat /\ a = [k \in 1 .. Len(a) |-> a[k]]
  BY <1>2
<1>4. a = [k \in 1 .. Len(q) + 1 |-> IF k <= Len(q) THEN q[k] ELSE e]
  BY <1>2, <1>3
<1> QED
  BY <1>4 DEF a

\* The queue after an insertion.
LEMMA InsertAppends ==
  ASSUME Consistent, NEW n \in Names, NEW m \in Mbufs, Insert(n, m)
  PROVE  LET p == [name |-> n, mbuf |-> m] IN
         store' = IF IsFull THEN Append(Tail(store), p) ELSE Append(store, p)
<1> DEFINE p == [name |-> n, mbuf |-> m]
           N == Pos(top)
           M == Dist(bottom', top')
           Next1(k) == ring'[(bottom' + k - 1) % RingSize]
           Pkt(r) == [name |-> r.name, mbuf |-> r.mbuf]
<1>1. TypeOK /\ top \in RingIdx /\ bottom \in RingIdx
  BY DEF Consistent, TypeOK
<1>2. /\ top' = Succ(top)
      /\ bottom' = IF IsFull THEN Succ(bottom) ELSE bottom
  BY DEF Insert, InsertAt
<1>3. store' = [k \in 1 .. M |-> Pkt(Next1(k))]
  BY DEF store, Pos
<1>4. /\ top \notin Active
      /\ ring'[top].name = n /\ ring'[top].mbuf = m
      /\ \A i \in Active \ Oldest : ring'[i] = ring[i]
  <2>1. top \notin Active
    BY <1>2, InsertCursors
  <2>2. /\ ring'[top].name = n /\ ring'[top].mbuf = m
        /\ \A i \in RingIdx \ ({top} \cup Oldest) : ring'[i] = ring[i]
    <3>1. PICK s \in Slots :
            /\ ring'[top] = [active |-> TRUE, bucket |-> s[1], tab |-> s[2],
                             name |-> n, mbuf |-> m]
            /\ \A i \in RingIdx \ ({top} \cup Oldest) : ring'[i] = ring[i]
      BY InsertWrites
    <3> QED
      BY <3>1
  <2> QED
    BY <2>1, <2>2 DEF Active
<1>5. /\ N \in 0 .. MaxElements /\ N \in Nat
      /\ store \in Seq(Abs!Packet) /\ Len(store) = N
      /\ \A k \in 1 .. N : /\ store[k] = Pkt(ring[At(k)])
                           /\ At(k) \in Active /\ Pos(At(k)) = k - 1
  BY StoreListsActive, MaxElementsAssumption DEF PacketAt
<1>6. At(N + 1) = top
  BY <1>1, AtInverse
<1>7. p \in Abs!Packet
  BY DEF Abs!Packet
<1>8. CASE ~IsFull
  <2>1. M = N + 1
    BY <1>1, <1>2, <1>8, DistSucc DEF Pos, IsFull
  <2>2. \A k \in 1 .. N + 1 : Next1(k) = ring'[At(k)]
    BY <1>2, <1>8 DEF At
  <2>3. \A k \in 1 .. N : Pkt(Next1(k)) = store[k]
    <3>1. Oldest = {}
      BY <1>8 DEF Oldest
    <3> QED
      BY <1>4, <1>5, <2>2, <3>1
  <2>4. Pkt(Next1(N + 1)) = p
    BY <1>4, <1>5, <1>6, <2>2
  <2> HIDE DEF N, M, Next1, Pkt, p
  <2>5. store' = [k \in 1 .. N + 1 |-> IF k <= N THEN store[k] ELSE p]
    BY <1>3, <1>5, <2>1, <2>3, <2>4
  <2>6. Append(store, p) = [k \in 1 .. N + 1 |-> IF k <= N THEN store[k] ELSE p]
    BY <1>5, <1>7, AppendValue
  <2> QED
    BY <1>8, <2>5, <2>6 DEF p
<1>9. CASE IsFull
  <2>1. N = MaxElements
    BY <1>1, <1>9, FullByCount
  <2>2. M = N
    <3>1. top' = bottom /\ bottom' = Succ(bottom)
      BY <1>2, <1>9 DEF IsFull
    <3>2. M = Dist(Succ(bottom), bottom)
      BY <3>1
    <3> QED
      BY <1>1, <2>1, <3>2, SuccValue, MaxElementsAssumption
      DEF Dist, RingIdx, RingSize
  <2>3. \A k \in 1 .. N : Next1(k) = ring'[At(k + 1)]
    BY <1>1, <1>2, <1>9, <2>1, AtNextBase
  <2>4. \A k \in 1 .. N - 1 : Pkt(Next1(k)) = store[k + 1]
    <3>1. SUFFICES ASSUME NEW k \in 1 .. N - 1
                   PROVE  Pkt(Next1(k)) = store[k + 1]
      OBVIOUS
    <3>2. k \in 1 .. N /\ k + 1 \in 1 .. N /\ k >= 1 /\ (k + 1) - 1 = k
      BY <1>5
    <3>3. At(k + 1) \in Active /\ Pos(At(k + 1)) = k
      BY <1>5, <3>2
    <3>4. Pos(bottom) = 0 /\ Oldest = {bottom}
      BY <1>1, <1>9, DistFacts DEF Pos, Oldest
    <3>5. At(k + 1) \in Active \ Oldest
      BY <3>2, <3>3, <3>4
    <3> QED
      BY <1>4, <1>5, <2>3, <3>2, <3>5
  <2>5. Pkt(Next1(N)) = p
    <3>1. N \in 1 .. N
      BY <1>5, <2>1, MaxElementsAssumption
    <3> QED
      BY <1>4, <1>6, <2>3, <3>1
  <2> HIDE DEF N, M, Next1, Pkt, p
  <2>6. store' = [k \in 1 .. N |-> IF k <= N - 1 THEN store[k + 1] ELSE p]
    BY <1>3, <1>5, <2>2, <2>4, <2>5
  <2>7. /\ store # <<>> /\ Tail(store) \in Seq(Abs!Packet)
        /\ Len(Tail(store)) = N - 1
        /\ \A k \in 1 .. N - 1 : Tail(store)[k] = store[k + 1]
    BY <1>5, <2>1, MaxElementsAssumption
  <2>8. Append(Tail(store), p) =
          [k \in 1 .. N |-> IF k <= N - 1 THEN store[k + 1] ELSE p]
    <3> DEFINE t == Tail(store)
    <3>1. t \in Seq(Abs!Packet) /\ Len(t) = N - 1
      BY <2>7
    <3> HIDE DEF t
    <3>2. Append(t, p) = [k \in 1 .. Len(t) + 1 |-> IF k <= Len(t) THEN t[k] ELSE p]
      BY <1>7, <3>1, AppendValue
    <3>3. Len(t) + 1 = N /\ Len(t) = N - 1
      BY <1>5, <3>1
    <3>4. \A k \in 1 .. N - 1 : t[k] = store[k + 1]
      BY <2>7 DEF t
    <3> QED
      BY <1>5, <3>2, <3>3, <3>4 DEF t
  <2> QED
    BY <1>9, <2>6, <2>8 DEF p
<1> QED
  BY <1>8, <1>9

LEMMA InsertImplements ==
  ASSUME Consistent, NEW n \in Names, NEW m \in Mbufs, Insert(n, m)
  PROVE  Abs!Store(n, m)
<1>1. TypeOK /\ bottom \in RingIdx /\ top \in RingIdx
  BY DEF Consistent, TypeOK
<1>2. \A p \in Abs!Stored : p.mbuf # m
  <2>1. \A k \in DOMAIN store : store[k].mbuf \in Held
    BY StoreListsActive DEF PacketAt, Held
  <2> QED
    BY <2>1 DEF Insert, Abs!Stored
<1>3. Cardinality(Abs!SameBucket(n)) < BucketSize
  <2>1. FreeSlots(n) # {}
    BY DEF Insert
  <2> QED
    BY <2>1, BucketCount, SizesAssumption
<1>4. IsFull <=> Len(store) = MaxElements
  BY <1>1, StoreListsActive, FullByCount
<1>5. IsFull => Head(store).mbuf = ring[bottom].mbuf
  <2>1. SUFFICES ASSUME IsFull
                 PROVE  Head(store).mbuf = ring[bottom].mbuf
    OBVIOUS
  <2>2. store \in Seq(Abs!Packet) /\ Len(store) = MaxElements
    BY <1>4, <2>1, StoreListsActive
  <2>3. Head(store) = store[1]
    BY <2>2, MaxElementsAssumption
  <2>4. Pos(bottom) = 0 /\ Pos(bottom) + 1 = 1
    BY <1>1, DistFacts DEF Pos
  <2>5. At(1) = bottom
    BY <1>1, <2>4, AtInverse
  <2>6. 1 \in 1 .. Pos(top)
    BY <2>2, StoreListsActive, MaxElementsAssumption
  <2>7. store[1] = PacketAt(At(1))
    BY <2>6, StoreListsActive
  <2> QED
    BY <2>3, <2>5, <2>7 DEF PacketAt
<1>6. ret' = Answer(0, NoMbuf, IF IsFull THEN ring[bottom].mbuf ELSE NoMbuf)
  BY DEF Insert, InsertAt
<1>7. store' = IF IsFull THEN Append(Tail(store), [name |-> n, mbuf |-> m])
               ELSE Append(store, [name |-> n, mbuf |-> m])
  BY InsertAppends
<1> QED
  BY <1>2, <1>3, <1>4, <1>5, <1>6, <1>7 DEF Abs!Store, Abs!Answer, Answer, Cardinality,
      Abs!Cardinality

LEMMA RefuseImplements ==
  ASSUME Consistent, NEW n \in Names, Refuse(n)
  PROVE  Abs!Refuse(n)
<1>1. Cardinality(Abs!SameBucket(n)) = BucketSize
  BY BucketCount DEF Refuse
<1>2. store' = store
  BY DEF Refuse, store, Pos, Dist
<1> QED
  BY <1>1, <1>2
  DEF Refuse, Answer, ENOSPC, Abs!Refuse, Abs!Answer, Abs!ENOSPC,
      Cardinality, Abs!Cardinality

\* A hit is a packet of the queue with that name; a miss means there is none.
LEMMA LookupImplements ==
  ASSUME Consistent, NEW n \in Names, Lookup(n)
  PROVE  Abs!Find(n)
<1>1. store' = store
  BY DEF Lookup, store, Pos, Dist
<1>2. ASSUME NEW s \in Matches(n),
             ret' = Answer(0, ring[entry[s].index].mbuf, NoMbuf)
      PROVE  \E p \in Abs!Copies(n) : ret' = Abs!Answer(0, p.mbuf, NoMbuf)
  <2> DEFINE i == entry[s].index
             k == Pos(i) + 1
  <2>1. i \in Active /\ ring[i].name = n
    BY DEF Matches, Consistent, TypeOK, TableEntry, TableAgreesWithRing,
           SlotsPointIntoRing, Active
  <2>2. k \in DOMAIN store /\ At(k) = i
    BY <2>1, StoreListsActive
  <2> HIDE DEF i, k
  <2>3. store[k] = PacketAt(i)
    BY <2>2, StoreListsActive
  <2>4. store[k] \in Abs!Copies(n) /\ store[k].mbuf = ring[i].mbuf
    BY <2>1, <2>2, <2>3 DEF Abs!Copies, Abs!Stored, PacketAt
  <2> QED
    BY <1>2, <2>4 DEF i, Answer, Abs!Answer
<1>3. ASSUME Matches(n) = {}
      PROVE  Abs!Copies(n) = {}
  <2>1. SUFFICES ASSUME NEW p \in Abs!Copies(n)
                 PROVE  FALSE
    OBVIOUS
  <2>2. PICK k \in DOMAIN store : store[k].name = n
    BY <2>1 DEF Abs!Copies, Abs!Stored
  <2> DEFINE i == At(k)
             s == <<ring[i].bucket, ring[i].tab>>
  <2>3. i \in Active /\ ring[i].name = n
    BY <2>2, StoreListsActive DEF PacketAt
  <2>4. s \in busy /\ entry[s].index = i
    BY <2>3 DEF Consistent, TableAgreesWithRing, RingPointsIntoTable
  <2>5. s \in Matches(n)
    BY <2>3, <2>4
    DEF Matches, Consistent, TableAgreesWithRing, SlotsPointIntoRing
  <2> QED
    BY <1>3, <2>5
<1>4. CASE Matches(n) = {} /\ ret' = Answer(0, NoMbuf, NoMbuf)
  BY <1>1, <1>3, <1>4 DEF Abs!Find, Answer, Abs!Answer
<1>5. ASSUME NEW s \in Matches(n),
             ret' = Answer(0, ring[entry[s].index].mbuf, NoMbuf)
      PROVE  Abs!Find(n)
  BY <1>1, <1>2, <1>5 DEF Abs!Find
<1> QED
  BY <1>4, <1>5 DEF Lookup

LEMMA StepImplements ==
  ASSUME Consistent, [Next]_vars
  PROVE  [Abs!Next]_(Abs!vars)
<1>1. ASSUME NEW n \in Names, NEW m \in Mbufs, Insert(n, m) \/ Refuse(n),
             call' = <<"insert", n, m>>
      PROVE  Abs!Next
  BY <1>1, InsertImplements, RefuseImplements DEF Abs!Next
<1>2. ASSUME NEW n \in Names, Lookup(n), call' = <<"lookup", n>>
      PROVE  Abs!Next
  BY <1>2, LookupImplements DEF Abs!Next
<1>3. CASE UNCHANGED vars
  BY <1>3 DEF vars, Abs!vars, store, Pos, Dist
<1> QED
  BY <1>1, <1>2, <1>3 DEF Next

\* A CS is a bounded queue of packets for any table, ring and hash: a packet is
\* refused only when its bucket is full, the one evicted is the oldest, and a
\* lookup finds a stored packet of that name if there is one.
THEOREM CsImplementsContentStore == Spec => ImplementsContentStore
<1>1. Init => Abs!Init
  <2>1. Init => Pos(top) = 0
    BY DEF Init, Pos, Dist
  <2>2. Pos(top) = 0 => store = <<>>
    BY DEF store
  <2> QED
    BY <2>1, <2>2 DEF Init, Answer, Abs!Init, Abs!Answer
<1>2. Consistent /\ [Next]_vars => [Abs!Next]_(Abs!vars)
  BY StepImplements
<1> QED
  BY <1>1, <1>2, CsConsistent, PTL DEF Spec, ImplementsContentStore, Abs!Spec
=============================================================================
