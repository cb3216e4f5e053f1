----------------------------- MODULE PitProofs -----------------------------
(***************************************************************************)
(* Proofs about Pit for every name space, hash, table size and TTL set.    *)
(***************************************************************************)
EXTENDS Pit, FiniteSetTheorems, TLAPS

-----------------------------------------------------------------------------
(* The index arithmetic of the ring, for every size.                       *)

\* Succ as the purge loop writes it (pit.c:261-265).
LEMMA SuccValue ==
  ASSUME NEW i \in RingIdx
  PROVE  Succ(i) = IF i = MaxElements THEN 0 ELSE i + 1
BY MaxElementsAssumption DEF RingIdx, RingSize, Succ

\* Positions from a base are distinct, and the base is at position 0.
LEMMA DistFacts ==
  ASSUME NEW b \in RingIdx, NEW i \in RingIdx, NEW j \in RingIdx
  PROVE  /\ Dist(b, i) \in RingIdx
         /\ Dist(b, i) = Dist(b, j) => i = j
         /\ Dist(b, i) = 0 <=> i = b
BY MaxElementsAssumption DEF Dist, RingIdx, RingSize

\* Moving the base up to c takes the same distance off what is beyond c.
LEMMA DistShift ==
  ASSUME NEW b \in RingIdx, NEW c \in RingIdx, NEW i \in RingIdx,
         Dist(b, c) <= Dist(b, i)
  PROVE  Dist(c, i) = Dist(b, i) - Dist(b, c)
BY MaxElementsAssumption DEF Dist, RingIdx, RingSize

\* What the base has passed is farther away than anything else.
LEMMA DistBehind ==
  ASSUME NEW b \in RingIdx, NEW c \in RingIdx, NEW i \in RingIdx,
         Dist(b, i) < Dist(b, c)
  PROVE  Dist(c, i) = Dist(b, i) + RingSize - Dist(b, c)
BY MaxElementsAssumption DEF Dist, RingIdx, RingSize

\* Unless the ring is full, one more entry is one more position.
LEMMA DistSucc ==
  ASSUME NEW b \in RingIdx, NEW t \in RingIdx, Succ(t) # b
  PROVE  Dist(b, Succ(t)) = Dist(b, t) + 1
BY MaxElementsAssumption, SuccValue DEF Dist, RingIdx, RingSize

-----------------------------------------------------------------------------
(* The hash and the positions.                                             *)

LEMMA BucketInRange ==
  ASSUME NEW n \in Names
  PROVE  BucketOf(n) \in Buckets
BY SizesAssumption, CrcAssumption DEF BucketOf, Buckets

\* The position of every ring index, in use or not.
LEMMA PosInRange ==
  ASSUME TypeOK, NEW i \in RingIdx
  PROVE  Pos(i) \in RingIdx /\ Pos(i) \in Nat
<1>1. Pos(i) \in RingIdx
  BY DistFacts DEF TypeOK, Pos
<1> QED
  BY <1>1, MaxElementsAssumption DEF RingIdx

-----------------------------------------------------------------------------
(* Lookup.                                                                 *)

\* A slot that matches a name leads to the active entry of that name.
LEMMA MatchIsEntry ==
  ASSUME Consistent, NEW n \in Names, NEW s \in Matches(n)
  PROVE  /\ s \in busy /\ s \in Slots
         /\ entry[s].index \in Active
         /\ entry[s].index \in RingIdx
         /\ ring[entry[s].index].name = n
         /\ s = <<ring[entry[s].index].bucket, ring[entry[s].index].tab>>
BY DEF Consistent, TypeOK, TableAgreesWithRing, SlotsPointIntoRing, Matches,
       Active, TableEntry

\* A lookup that finds nothing means that nothing is pending for the name:
\* the table hides no entry of the ring.
LEMMA NoMatchNoEntry ==
  ASSUME Consistent, NEW n \in Names, Matches(n) = {},
         NEW i \in Active
  PROVE  ring[i].name # n
<1>1. SUFFICES ASSUME ring[i].name = n
               PROVE  FALSE
  OBVIOUS
<1> DEFINE s == <<ring[i].bucket, ring[i].tab>>
<1>2. s \in busy /\ entry[s].index = i
  BY DEF Consistent, TableAgreesWithRing, RingPointsIntoTable
<1>3. entry[s].crc = Crc[n] /\ s[1] = BucketOf(n)
  BY <1>1, <1>2 DEF Consistent, TableAgreesWithRing, SlotsPointIntoRing
<1>4. s \in Matches(n)
  BY <1>1, <1>2, <1>3 DEF Matches
<1> QED
  BY <1>4

-----------------------------------------------------------------------------
(* Each operation preserves the inductive invariant.                       *)

LEMMA InitConsistent == Init => Consistent
<1> SUFFICES ASSUME Init
             PROVE  Consistent
  OBVIOUS
<1>1. TypeOK
  BY SizesAssumption, MaxElementsAssumption, TTLAssumption
  DEF Init, TypeOK, TableEntry, RingEntry, RingIdx, Buckets, Tabs
<1>2. Active = {}
  BY DEF Init, Active
<1> QED
  BY <1>1, <1>2
  DEF Consistent, TableAgreesWithRing, SlotsPointIntoRing, RingPointsIntoTable,
      ActiveInWindow, PendingOnce, BornInOrder, LifetimeBounded, Init, Window

\* pit_lookup_and_update on a pending name: one face bitmask changes.
LEMMA AggregateConsistent ==
  ASSUME Consistent, NEW n \in Names, NEW f \in Faces, Aggregate(n, f)
  PROVE  Consistent'
<1>1. PICK s \in Matches(n) :
        ring' = [ring EXCEPT ![entry[s].index].faces = @ \cup {f}]
  BY DEF Aggregate
<1>2. UNCHANGED <<busy, entry, top, bottom, ttl, now, born>>
  BY DEF Aggregate
<1> DEFINE i == entry[s].index
<1>3. i \in RingIdx /\ ring \in [RingIdx -> RingEntry]
  BY MatchIsEntry DEF Consistent, TypeOK
<1>4. \A j \in RingIdx : /\ ring'[j].active = ring[j].active
                         /\ ring'[j].bucket = ring[j].bucket
                         /\ ring'[j].tab = ring[j].tab
                         /\ ring'[j].name = ring[j].name
                         /\ ring'[j].expiry = ring[j].expiry
  BY <1>1, <1>3 DEF RingEntry
<1>5. TypeOK'
  <2>1. ring' \in [RingIdx -> RingEntry]
    BY <1>1, <1>3 DEF RingEntry
  <2>2. ret' \in [code : Int, faces : SUBSET Faces]
    BY DEF Aggregate
  <2> QED
    BY <1>2, <2>1, <2>2 DEF Consistent, TypeOK
<1>6. Active' = Active /\ Window' = Window
  BY <1>2, <1>4 DEF Active, Window, Pos, Dist
<1>7. \A j \in RingIdx : Pos(j)' = Pos(j)
  BY <1>2 DEF Pos, Dist
<1>8. TableAgreesWithRing'
  <2>1. \A r \in busy : entry[r].index \in RingIdx
    BY DEF Consistent, TypeOK, TableEntry
  <2>2. SlotsPointIntoRing'
    BY <1>2, <1>4, <2>1
    DEF Consistent, TableAgreesWithRing, SlotsPointIntoRing, BucketOf
  <2>3. RingPointsIntoTable'
    BY <1>2, <1>4, <1>6
    DEF Consistent, TableAgreesWithRing, RingPointsIntoTable, Active
  <2> QED
    BY <1>6, <2>2, <2>3
    DEF Consistent, TableAgreesWithRing, ActiveInWindow
<1>9. PendingOnce' /\ BornInOrder' /\ LifetimeBounded'
  BY <1>2, <1>4, <1>6, <1>7
  DEF Consistent, PendingOnce, BornInOrder, LifetimeBounded, Active, Window
<1> QED
  BY <1>5, <1>8, <1>9 DEF Consistent

\* pit_lookup_and_update on a new name.  The entry goes to top, which is
\* outside the window and so holds no active entry, and to a free slot, which
\* no active entry points at.
LEMMA InsertConsistent ==
  ASSUME Consistent, NEW n \in Names, NEW f \in Faces, Insert(n, f)
  PROVE  Consistent'
<1>1. PICK s \in FreeSlots(n) :
        /\ busy' = busy \cup {s}
        /\ entry' = [entry EXCEPT ![s] = [crc |-> Crc[n], index |-> top]]
        /\ ring' = [ring EXCEPT ![top] =
                     [active |-> TRUE, bucket |-> s[1], tab |-> s[2],
                      expiry |-> now + ttl, name |-> n, faces |-> {f}]]
  BY DEF Insert
<1>2. /\ Matches(n) = {} /\ Succ(top) # bottom
      /\ top' = Succ(top) /\ born' = [born EXCEPT ![top] = now]
      /\ ret' = [code |-> 1, faces |-> {}]
      /\ UNCHANGED <<bottom, ttl, now>>
  BY DEF Insert, IsFull
<1>3. /\ TypeOK /\ top \in RingIdx /\ bottom \in RingIdx
      /\ s \in Slots /\ s \notin busy /\ s[1] = BucketOf(n)
  BY DEF Consistent, TypeOK, FreeSlots
<1>4. s[1] \in Buckets /\ s[2] \in Tabs /\ s = <<s[1], s[2]>>
  BY <1>3 DEF Slots
<1>5. TypeOK'
  <2>1. Succ(top) \in RingIdx
    BY <1>3, SuccValue, MaxElementsAssumption DEF RingIdx
  <2>2. entry' \in [Slots -> TableEntry]
    BY <1>1, <1>3, CrcAssumption DEF TypeOK, TableEntry
  <2>3. now + ttl \in Nat
    BY <1>3, TTLAssumption DEF TypeOK
  <2>4. ring' \in [RingIdx -> RingEntry]
    BY <1>1, <1>3, <1>4, <2>3 DEF TypeOK, RingEntry
  <2> QED
    BY <1>1, <1>2, <1>3, <2>1, <2>2, <2>4 DEF TypeOK
<1>6. top \notin Window /\ top \notin Active
  BY <1>3, PosInRange
  DEF Consistent, TableAgreesWithRing, ActiveInWindow, Window
<1>7. /\ ring'[top].active /\ ring'[top].name = n
      /\ ring'[top].bucket = s[1] /\ ring'[top].tab = s[2]
      /\ ring'[top].expiry = now + ttl
      /\ \A j \in RingIdx \ {top} : ring'[j] = ring[j]
  BY <1>1, <1>3 DEF TypeOK
<1>8. Active' = Active \cup {top}
  BY <1>3, <1>7 DEF Active
<1>9. \A j \in RingIdx : Pos(j)' = Pos(j)
  BY <1>2 DEF Pos, Dist
<1>10. Pos(Succ(top)) = Pos(top) + 1
  BY <1>2, <1>3, DistSucc DEF Pos
<1>11. Pos(top') = Pos(top) + 1 /\ Pos(top)' = Pos(top) + 1
  BY <1>2, <1>10 DEF Pos, Dist
<1>12. \A i \in Active : i \in RingIdx /\ ring'[i] = ring[i]
                         /\ born'[i] = born[i] /\ Pos(i) < Pos(top)
  BY <1>2, <1>3, <1>6, <1>7
  DEF Active, TypeOK, Consistent, TableAgreesWithRing, ActiveInWindow, Window
<1>13. TableAgreesWithRing'
  <2>1. entry'[s] = [crc |-> Crc[n], index |-> top]
        /\ \A r \in busy : entry'[r] = entry[r]
    BY <1>1, <1>3 DEF TypeOK
  <2>2. \A r \in busy : entry[r].index \in Active
    BY DEF Consistent, TypeOK, TableEntry, TableAgreesWithRing,
           SlotsPointIntoRing, Active
  <2>3. SlotsPointIntoRing'
    <3>1. ASSUME NEW r \in busy
          PROVE  LET i == entry'[r].index IN
                 /\ ring'[i].active
                 /\ r = <<ring'[i].bucket, ring'[i].tab>>
                 /\ ring'[i].name \in Names
                 /\ entry'[r].crc = Crc[ring'[i].name]
                 /\ r[1] = BucketOf(ring'[i].name)
      BY <2>1, <2>2, <1>12
      DEF Consistent, TableAgreesWithRing, SlotsPointIntoRing
    <3>2. /\ ring'[top].active
          /\ s = <<ring'[top].bucket, ring'[top].tab>>
          /\ ring'[top].name \in Names
          /\ entry'[s].crc = Crc[ring'[top].name]
          /\ s[1] = BucketOf(ring'[top].name)
          /\ entry'[s].index = top
      BY <1>3, <1>4, <1>7, <2>1
    <3> QED
      BY <1>1, <3>1, <3>2 DEF SlotsPointIntoRing, BucketOf
  <2>4. RingPointsIntoTable'
    <3>1. ASSUME NEW i \in Active
          PROVE  LET r == <<ring'[i].bucket, ring'[i].tab>> IN
                 r \in busy' /\ entry'[r].index = i
      BY <1>1, <1>12, <2>1
      DEF Consistent, TableAgreesWithRing, RingPointsIntoTable
    <3>2. LET r == <<ring'[top].bucket, ring'[top].tab>> IN
          r \in busy' /\ entry'[r].index = top
      BY <1>1, <1>4, <1>7, <2>1
    <3> QED
      BY <1>8, <3>1, <3>2 DEF RingPointsIntoTable
  <2>5. ActiveInWindow'
    <3>1. \A i \in RingIdx : Pos(i) \in RingIdx
      BY <1>3, PosInRange
    <3> QED
      BY <1>3, <1>8, <1>9, <1>11, <1>12, <3>1, MaxElementsAssumption
      DEF ActiveInWindow, Window, RingIdx
  <2> QED
    BY <2>3, <2>4, <2>5 DEF TableAgreesWithRing
<1>14. PendingOnce'
  <2>1. \A i \in Active : ring[i].name # n
    BY <1>2, NoMatchNoEntry
  <2> QED
    BY <1>7, <1>8, <1>12, <2>1 DEF Consistent, PendingOnce
<1>15. BornInOrder'
  <2>1. born'[top] = now /\ now' = now
    BY <1>2, <1>3 DEF TypeOK
  <2>2. \A i \in RingIdx : born[i] \in Nat /\ Pos(i) \in Int
    BY <1>3, PosInRange DEF TypeOK
  <2>3. \A i \in RingIdx : Pos(i) = Pos(top) => i = top
    BY <1>3, DistFacts DEF Pos
  <2>4. Window' = Window \cup {top}
    BY <1>3, <1>9, <1>11, <2>2, <2>3 DEF Window
  <2>5. \A i \in Window : /\ i \in RingIdx /\ Pos(i) < Pos(top)
                          /\ born'[i] = born[i]
    BY <1>2, <1>3, <1>6 DEF Window, TypeOK
  <2> QED
    BY <1>3, <1>9, <2>1, <2>2, <2>4, <2>5
    DEF Consistent, BornInOrder, TypeOK
<1>16. LifetimeBounded'
  BY <1>2, <1>3, <1>7, <1>8, <1>12
  DEF Consistent, LifetimeBounded, TypeOK
<1> QED
  BY <1>5, <1>13, <1>14, <1>15, <1>16 DEF Consistent

\* What bottom has moved past is no longer in use, holes included.
LEMMA LeftInWindow ==
  ASSUME TypeOK, NEW b \in RingIdx, Pos(b) <= Pos(top), bottom' = b,
         UNCHANGED top,
         NEW i \in Window'
  PROVE  i \in Window /\ Pos(b) <= Pos(i)
<1>1. i \in RingIdx /\ Pos(i)' < Pos(top)'
  BY DEF Window
<1>2. bottom \in RingIdx /\ top \in RingIdx
  BY DEF TypeOK
<1>3. Pos(i)' = Dist(b, i) /\ Pos(top)' = Pos(top) - Pos(b)
  BY <1>2, DistShift DEF Pos
<1>4. /\ Pos(i) \in 0 .. MaxElements /\ Pos(top) \in 0 .. MaxElements
      /\ Pos(b) \in 0 .. MaxElements
  BY <1>1, <1>2, PosInRange DEF RingIdx
<1>5. Pos(b) <= Pos(i)
  <2>1. SUFFICES ASSUME Pos(i) < Pos(b)
                 PROVE  FALSE
    BY <1>4, MaxElementsAssumption
  <2>2. Dist(b, i) = Pos(i) + RingSize - Pos(b)
    BY <1>1, <1>2, <2>1, DistBehind DEF Pos
  <2> QED
    BY <1>1, <1>3, <1>4, <2>2, MaxElementsAssumption DEF RingSize
<1>6. Dist(b, i) = Pos(i) - Pos(b)
  BY <1>1, <1>2, <1>5, DistShift DEF Pos
<1> QED
  BY <1>1, <1>3, <1>4, <1>5, <1>6, MaxElementsAssumption DEF Window

\* Removal and purge both unlink a set S of active entries and move bottom
\* up to an index b that no entry they leave behind is below.
LEMMA UnlinkConsistent ==
  ASSUME Consistent, NEW S \in SUBSET Active, NEW b \in RingIdx,
         Pos(b) <= Pos(top),
         \A i \in Active \ S : Pos(b) <= Pos(i),
         ring' \in [RingIdx -> RingEntry],
         \A j \in RingIdx : /\ ring'[j].bucket = ring[j].bucket
                            /\ ring'[j].tab = ring[j].tab
                            /\ ring'[j].name = ring[j].name
                            /\ ring'[j].expiry = ring[j].expiry,
         Active' = Active \ S,
         busy' = busy \ {<<ring[i].bucket, ring[i].tab>> : i \in S},
         bottom' = b,
         UNCHANGED <<entry, top, ttl, now, born>>,
         ret' \in [code : Int, faces : SUBSET Faces]
  PROVE  Consistent'
<1> DEFINE Slot(i) == <<ring[i].bucket, ring[i].tab>>
<1>1. TypeOK /\ TypeOK'
  BY DEF Consistent, TypeOK
<1>2. /\ top \in RingIdx /\ bottom \in RingIdx
      /\ \A i \in Active : i \in RingIdx /\ i \in Window
  BY DEF Consistent, TypeOK, TableAgreesWithRing, ActiveInWindow, Active
<1>3. ASSUME NEW i \in RingIdx, Pos(b) <= Pos(i)
      PROVE  Pos(i)' = Pos(i) - Pos(b)
  BY <1>2, <1>3, DistShift DEF Pos
<1>4. Pos(top)' = Pos(top) - Pos(b)
  BY <1>2, <1>3
<1>5. \A i \in RingIdx : Pos(i) \in Nat
  BY <1>1, PosInRange
<1>6. TableAgreesWithRing'
  <2>1. SlotsPointIntoRing'
    <3>1. SUFFICES ASSUME NEW r \in busy'
                   PROVE  LET i == entry'[r].index IN
                          /\ ring'[i].active
                          /\ r = <<ring'[i].bucket, ring'[i].tab>>
                          /\ ring'[i].name \in Names
                          /\ entry'[r].crc = Crc[ring'[i].name]
                          /\ r[1] = BucketOf(ring'[i].name)
      BY DEF SlotsPointIntoRing, BucketOf
    <3> DEFINE i == entry[r].index
    <3>2. r \in busy /\ i \in Active /\ r = Slot(i)
      BY DEF Consistent, TypeOK, TableEntry, TableAgreesWithRing,
             SlotsPointIntoRing, Active
    <3>3. i \in Active \ S
      BY <3>2
    <3>4. ring'[i].active
      BY <3>3 DEF Active
    <3> QED
      BY <1>2, <3>2, <3>4
      DEF Consistent, TableAgreesWithRing, SlotsPointIntoRing
  <2>2. RingPointsIntoTable'
    <3>1. ASSUME NEW i \in Active \ S
          PROVE  Slot(i) \in busy' /\ entry[Slot(i)].index = i
      <4>1. \A k \in Active : Slot(k) \in busy /\ entry[Slot(k)].index = k
        BY DEF Consistent, TableAgreesWithRing, RingPointsIntoTable
      <4> QED
        BY <4>1
    <3> QED
      BY <1>2, <3>1 DEF RingPointsIntoTable
  <2>3. ActiveInWindow'
    <3>1. ASSUME NEW i \in Active \ S
          PROVE  Pos(i)' < Pos(top)'
      BY <1>2, <1>3, <1>4, <1>5 DEF Window
    <3> QED
      BY <1>2, <3>1 DEF ActiveInWindow, Window
  <2> QED
    BY <2>1, <2>2, <2>3 DEF TableAgreesWithRing
<1>7. PendingOnce' /\ LifetimeBounded'
  BY <1>2 DEF Consistent, PendingOnce, LifetimeBounded
<1>8. BornInOrder'
  <2>1. ASSUME NEW i \in Window'
        PROVE  i \in Window /\ Pos(b) <= Pos(i)
    BY <1>1, <2>1, LeftInWindow
  <2>2. ASSUME NEW i \in Window', NEW j \in Window', Pos(i)' < Pos(j)'
        PROVE  Pos(i) < Pos(j)
    BY <1>3, <1>5, <2>1, <2>2 DEF Window
  <2> QED
    BY <2>1, <2>2 DEF Consistent, BornInOrder
<1> QED
  BY <1>1, <1>6, <1>7, <1>8 DEF Consistent

\* pit_lookup_and_remove of a pending name.
LEMMA RemoveHitConsistent ==
  ASSUME Consistent, NEW n \in Names, RemoveHit(n)
  PROVE  Consistent'
<1>1. PICK s \in Matches(n) :
        /\ busy' = busy \ {s}
        /\ ring' = [ring EXCEPT ![entry[s].index].active = FALSE]
        /\ bottom' = IF bottom = entry[s].index THEN Succ(bottom) ELSE bottom
        /\ ret' = [code |-> 0, faces |-> ring[entry[s].index].faces]
  BY DEF RemoveHit
<1>2. UNCHANGED <<entry, top, ttl, now, born>>
  BY DEF RemoveHit
<1> DEFINE i == entry[s].index
<1>3. i \in Active /\ i \in RingIdx /\ s = <<ring[i].bucket, ring[i].tab>>
  BY MatchIsEntry
<1>4. TypeOK /\ top \in RingIdx /\ bottom \in RingIdx
      /\ ring \in [RingIdx -> RingEntry]
  BY DEF Consistent, TypeOK
<1>5. /\ ring' \in [RingIdx -> RingEntry]
      /\ ring'[i].active = FALSE
      /\ \A j \in RingIdx : /\ ring'[j].bucket = ring[j].bucket
                            /\ ring'[j].tab = ring[j].tab
                            /\ ring'[j].name = ring[j].name
                            /\ ring'[j].expiry = ring[j].expiry
                            /\ j # i => ring'[j].active = ring[j].active
  BY <1>1, <1>3, <1>4 DEF RingEntry
<1>6. Active' = Active \ {i}
  BY <1>3, <1>5 DEF Active
<1>7. \A j \in RingIdx : Pos(j) \in Nat
  BY <1>4, PosInRange
<1>8. Pos(bottom) = 0 /\ \A j \in RingIdx : Pos(j) = 0 => j = bottom
  BY <1>4, DistFacts DEF Pos
<1>9. bottom' \in RingIdx
  BY <1>1, <1>4, SuccValue, MaxElementsAssumption DEF RingIdx
<1>10. Pos(i) < Pos(top)
  BY <1>3 DEF Consistent, TableAgreesWithRing, ActiveInWindow, Window
<1>11. Pos(bottom') <= Pos(top)
       /\ \A j \in Active \ {i} : Pos(bottom') <= Pos(j)
  <2>1. CASE bottom = i
    <3>1. Succ(bottom) # bottom
      BY <1>4, SuccValue, MaxElementsAssumption DEF RingIdx
    <3>2. Dist(bottom, Succ(bottom)) = 1
      BY <1>4, <1>8, <3>1, DistSucc DEF Pos
    <3>3. bottom' = Succ(bottom)
      BY <1>1, <2>1
    <3>4. Pos(bottom') = 1
      BY <3>2, <3>3 DEF Pos
    <3>5. \A j \in Active \ {i} : Pos(j) # 0 /\ j \in RingIdx
      BY <1>8, <2>1 DEF Active
    <3> QED
      BY <1>4, <1>7, <1>8, <1>10, <2>1, <3>4, <3>5
  <2>2. CASE bottom # i
    BY <1>1, <1>4, <1>7, <1>8, <2>2 DEF Active
  <2> QED
    BY <2>1, <2>2
<1>12. busy' = busy \ {<<ring[j].bucket, ring[j].tab>> : j \in {i}}
  BY <1>1, <1>3
<1>13. ret' \in [code : Int, faces : SUBSET Faces]
  BY <1>1, <1>3, <1>4 DEF RingEntry
<1> HIDE DEF i
<1> QED
  BY <1>2, <1>3, <1>5, <1>6, <1>9, <1>11, <1>12, <1>13, UnlinkConsistent

\* pit_purge_expired_with_time: everything below b is unlinked.
LEMMA PurgeConsistent ==
  ASSUME Consistent, NEW t \in Nat, PurgeExpired(t)
  PROVE  Consistent'
<1>1. PICK b \in RingIdx : StopsAt(b, t) /\ PurgeTo(b, t)
  BY DEF PurgeExpired
<1> DEFINE S == Passed(b) \cap Active
<1>2. TypeOK /\ top \in RingIdx /\ ring \in [RingIdx -> RingEntry]
  BY DEF Consistent, TypeOK
<1>3. \A i \in RingIdx : Pos(i) \in Nat
  BY <1>2, PosInRange
<1>4. Pos(b) <= Pos(top)
  BY <1>1, <1>2, <1>3 DEF StopsAt, Window
<1>5. \A i \in Active \ S : Pos(b) <= Pos(i)
  BY <1>3 DEF Passed, Active, Consistent, TableAgreesWithRing, ActiveInWindow
<1>6. /\ ring' \in [RingIdx -> RingEntry]
      /\ \A j \in RingIdx : /\ ring'[j].bucket = ring[j].bucket
                            /\ ring'[j].tab = ring[j].tab
                            /\ ring'[j].name = ring[j].name
                            /\ ring'[j].expiry = ring[j].expiry
                            /\ ring'[j].active = (ring[j].active
                                                  /\ j \notin Passed(b))
  BY <1>1, <1>2 DEF PurgeTo, RingEntry
<1>7. Active' = Active \ S
  BY <1>6 DEF Active
<1>8. /\ busy' = busy \ {<<ring[i].bucket, ring[i].tab>> : i \in S}
      /\ bottom' = b
      /\ UNCHANGED <<entry, top, ttl, now, born>>
      /\ ret' \in [code : Int, faces : SUBSET Faces]
  BY <1>1, <1>3 DEF PurgeTo
<1> HIDE DEF S
<1>9. S \in SUBSET Active
  BY DEF S
<1> QED
  BY <1>4, <1>5, <1>6, <1>7, <1>8, <1>9, UnlinkConsistent

\* What leaves table, ring and cursors alone, and may move the clock or the
\* TTL: a refused or missed lookup, pit_set_ttl_us, the passing of time.
LEMMA ClockConsistent ==
  ASSUME Consistent, UNCHANGED <<busy, entry, ring, top, bottom, born>>,
         ttl' \in TTLs, now' \in Nat, now <= now',
         ret' \in [code : Int, faces : SUBSET Faces]
  PROVE  Consistent'
<1>1. TypeOK /\ TypeOK'
  BY DEF Consistent, TypeOK
<1>2. Active' = Active /\ Window' = Window /\ \A i \in RingIdx : Pos(i)' = Pos(i)
  BY DEF Active, Window, Pos, Dist
<1>3. TableAgreesWithRing'
  BY <1>2
  DEF Consistent, TableAgreesWithRing, SlotsPointIntoRing,
      RingPointsIntoTable, ActiveInWindow, BucketOf
<1>4. PendingOnce' /\ LifetimeBounded'
  BY <1>2 DEF Consistent, PendingOnce, LifetimeBounded
<1>5. BornInOrder'
  <2>1. \A i \in Window : born[i] \in Nat /\ i \in RingIdx
    BY <1>1 DEF TypeOK, Window
  <2> QED
    BY <1>1, <1>2, <2>1 DEF Consistent, BornInOrder, TypeOK
<1> QED
  BY <1>1, <1>3, <1>4, <1>5 DEF Consistent

LEMMA NextConsistent == Consistent /\ [Next]_vars => Consistent'
<1> SUFFICES ASSUME Consistent, [Next]_vars
             PROVE  Consistent'
  OBVIOUS
<1>1. /\ now \in Nat /\ ttl \in TTLs
      /\ ret \in [code : Int, faces : SUBSET Faces]
  BY DEF Consistent, TypeOK
<1>2. ASSUME NEW n \in Names, NEW f \in Faces, LookupAndUpdate(n, f)
      PROVE  Consistent'
  <2>1. CASE Aggregate(n, f)
    BY <2>1, AggregateConsistent
  <2>2. CASE Reject(n, f)
    <3>1. -ENOSPC \in Int
      BY DEF ENOSPC
    <3> QED
      BY <1>1, <2>2, <3>1, ClockConsistent DEF Reject
  <2>3. CASE Insert(n, f)
    BY <2>3, InsertConsistent
  <2> QED
    BY <1>2, <2>1, <2>2, <2>3 DEF LookupAndUpdate
<1>3. ASSUME NEW n \in Names, LookupAndRemove(n)
      PROVE  Consistent'
  <2>1. CASE RemoveHit(n)
    BY <2>1, RemoveHitConsistent
  <2>2. CASE RemoveMiss(n)
    BY <1>1, <2>2, ClockConsistent DEF RemoveMiss
  <2> QED
    BY <1>3, <2>1, <2>2 DEF LookupAndRemove
<1>4. ASSUME NEW t \in 0 .. now, PurgeExpired(t)
      PROVE  Consistent'
  BY <1>1, <1>4, PurgeConsistent
<1>5. ASSUME NEW v \in TTLs, SetTtl(v)
      PROVE  Consistent'
  BY <1>1, <1>5, ClockConsistent DEF SetTtl
<1>6. CASE Tick
  BY <1>1, <1>6, ClockConsistent DEF Tick
<1>7. CASE UNCHANGED vars
  BY <1>1, <1>7, ClockConsistent DEF vars
<1> QED
  BY <1>2, <1>3, <1>4, <1>5, <1>6, <1>7 DEF Next

-----------------------------------------------------------------------------
(* The theorems.                                                           *)

\* The inductive invariant holds in every reachable state.
THEOREM PitConsistent == Spec => []Consistent
<1>1. Init => Consistent
  BY InitConsistent
<1>2. Consistent /\ [Next]_vars => Consistent'
  BY NextConsistent
<1> QED
  BY <1>1, <1>2, PTL DEF Spec

\* Indices, faces, times and slots of a PIT stay within their ranges for any
\* sizes: no operation leaves the ring, the table or a bucket.
THEOREM PitTypeCorrect == Spec => []TypeOK
<1>1. Consistent => TypeOK
  BY DEF Consistent
<1> QED
  BY <1>1, PitConsistent, PTL

\* The hash table and the ring of a PIT always agree: no slot leaks, no entry
\* is out of lookup's or the purge's reach, and a new entry never overwrites
\* one that is pending.
THEOREM TableAlwaysAgrees == Spec => []TableAgreesWithRing
BY PitConsistent, PTL DEF Consistent

\* A name never has two pending entries.
THEOREM AlwaysPendingOnce == Spec => []PendingOnce
BY PitConsistent, PTL DEF Consistent

\* A purge at time t drops entries that had expired, and what it leaves in the
\* ring was inserted after the entry that stopped it.
LEMMA PurgeSplits ==
  ASSUME Consistent, NEW t \in Nat, PurgeExpired(t)
  PROVE  /\ Active' \subseteq Active /\ Active' \subseteq Window'
         /\ \A i \in Active \ Active' : ring[i].expiry <= t
         /\ \A i \in Window' : \E k \in Active :
               ring[k].expiry > t /\ born[k] <= born[i]
<1>1. PICK b \in RingIdx : StopsAt(b, t) /\ PurgeTo(b, t)
  BY DEF PurgeExpired
<1>2. TypeOK /\ top \in RingIdx /\ ring \in [RingIdx -> RingEntry]
  BY DEF Consistent, TypeOK
<1>3. \A j \in RingIdx : Pos(j) \in Nat
  BY <1>2, PosInRange
<1>4. Active' = Active \ Passed(b)
  BY <1>1, <1>2 DEF PurgeTo, RingEntry, Active
<1>5. Active' \subseteq Window'
  BY PurgeConsistent DEF Consistent, TableAgreesWithRing, ActiveInWindow
<1>6. ASSUME NEW i \in Active \ Active'
      PROVE  ring[i].expiry <= t
  <2>1. i \in Passed(b) /\ ring[i].active /\ ring[i].expiry \in Nat
    BY <1>2, <1>4 DEF Active, RingEntry
  <2> QED
    BY <1>1, <2>1 DEF StopsAt, Valid
<1>7. ASSUME NEW i \in Window'
      PROVE  \E k \in Active : ring[k].expiry > t /\ born[k] <= born[i]
  <2>1. Pos(b) <= Pos(top) /\ bottom' = b /\ UNCHANGED top
    BY <1>1, <1>2, <1>3 DEF StopsAt, Window, PurgeTo
  <2>2. i \in Window /\ i \in RingIdx /\ Pos(b) <= Pos(i)
    BY <1>2, <2>1, LeftInWindow DEF Window
  <2>3. b # top
    BY <1>2, <1>3, <2>2 DEF Window
  <2>4. b \in Active /\ b \in Window /\ ring[b].expiry > t
    BY <1>1, <2>3 DEF StopsAt, Valid, Active
  <2>5. b = i \/ Pos(b) < Pos(i)
    BY <1>2, <1>3, <2>2, DistFacts DEF Pos, TypeOK
  <2>6. born[i] \in Nat
    BY <1>2, <2>2 DEF TypeOK
  <2> QED
    BY <2>2, <2>4, <2>5, <2>6 DEF Consistent, BornInOrder
<1> QED
  BY <1>4, <1>5, <1>6, <1>7

\* The bound on lifetimes, of entries and of the space they take, holds for
\* every table size, hash and set of TTLs.
THEOREM PurgeAlwaysBoundsLifetime == Spec => PurgeBoundsLifetime
<1>1. ASSUME Consistent, NEW t \in 0 .. now, PurgeExpired(t)
      PROVE  /\ \A i \in Window' : \E v \in TTLs : t < born[i] + v
             /\ \A i \in Active \ Active' : ring[i].expiry <= t
  <2>1. t \in Nat
    BY DEF Consistent, TypeOK
  <2>2. ASSUME NEW i \in Window'
        PROVE  \E v \in TTLs : t < born[i] + v
    <3>1. PICK k \in Active : ring[k].expiry > t /\ born[k] <= born[i]
      BY <1>1, <2>1, PurgeSplits
    <3>2. PICK v \in TTLs : ring[k].expiry = born[k] + v
      BY <1>1 DEF Consistent, LifetimeBounded
    <3>3. born[k] \in Nat /\ born[i] \in Nat /\ v \in Nat
      BY <1>1, TTLAssumption DEF Consistent, TypeOK, Active, Window
    <3> QED
      BY <2>1, <3>1, <3>2, <3>3
  <2> QED
    BY <1>1, <2>1, <2>2, PurgeSplits
<1>2. Consistent /\ [Next]_vars =>
        [\A t \in 0 .. now : PurgeExpired(t) =>
           /\ \A i \in Window' : \E v \in TTLs : t < born[i] + v
           /\ \A i \in Active \ Active' : ring[i].expiry <= t]_vars
  BY <1>1
<1> QED
  BY <1>2, PitConsistent, PTL DEF Spec, PurgeBoundsLifetime

\* While all entries have the same TTL, as in the program, a purge is exact.
THEOREM PurgeAlwaysExact == Spec => PurgeIsExact
<1>1. ASSUME Consistent, NEW t \in 0 .. now, SameTtl, PurgeExpired(t)
      PROVE  Active' = {i \in Active : ring[i].expiry > t}
  <2>1. t \in Nat
    BY DEF Consistent, TypeOK
  <2>2. \A i \in Active : born[i] \in Nat /\ ring[i].expiry \in Nat
    BY <1>1 DEF Consistent, TypeOK, Active, RingEntry
  <2>3. ASSUME NEW i \in Active'
        PROVE  i \in Active /\ ring[i].expiry > t
    <3>1. i \in Active /\ i \in Window'
      BY <1>1, <2>1, PurgeSplits
    <3>2. PICK k \in Active : ring[k].expiry > t /\ born[k] <= born[i]
      BY <1>1, <2>1, <3>1, PurgeSplits
    <3>3. ring[i].expiry - born[i] = ring[k].expiry - born[k]
      BY <1>1, <3>1 DEF SameTtl
    <3> QED
      BY <2>1, <2>2, <3>1, <3>2, <3>3
  <2>4. \A i \in Active \ Active' : ~(ring[i].expiry > t)
    BY <1>1, <2>1, <2>2, PurgeSplits
  <2> QED
    BY <2>3, <2>4
<1>2. Consistent /\ [Next]_vars =>
        [\A t \in 0 .. now : SameTtl /\ PurgeExpired(t) =>
           Active' = {i \in Active : ring[i].expiry > t}]_vars
  BY <1>1
<1> QED
  BY <1>2, PitConsistent, PTL DEF Spec, PurgeIsExact

-----------------------------------------------------------------------------
(* Space.                                                                  *)

\* The names that are pending in the bucket of n.
PendingInBucket(n) == {m \in Names : /\ BucketOf(m) = BucketOf(n)
                                     /\ \E i \in Active : ring[i].name = m}

\* A full bucket holds as many pending names as it has slots: slot and name
\* are in a one-to-one correspondence.
LEMMA FullBucketIsPending ==
  ASSUME Consistent, NEW n \in Names, FreeSlots(n) = {}
  PROVE  BucketSize = Cardinality(PendingInBucket(n))
<1> DEFINE b == BucketOf(n)
           P == PendingInBucket(n)
           EntryAt(k) == entry[<<b, k>>].index
           NameAt == [k \in Tabs |-> ring[EntryAt(k)].name]
<1>1. \A k \in Tabs : <<b, k>> \in busy
  <2>1. b \in Buckets
    BY BucketInRange
  <2> QED
    BY <2>1 DEF FreeSlots, Slots
<1>2. ASSUME NEW k \in Tabs
      PROVE  /\ EntryAt(k) \in Active
             /\ <<b, k>> = <<ring[EntryAt(k)].bucket, ring[EntryAt(k)].tab>>
             /\ NameAt[k] \in P
  <2>1. EntryAt(k) \in RingIdx
    BY <1>1 DEF Consistent, TypeOK, TableEntry
  <2> QED
    BY <1>1, <2>1
    DEF Consistent, TableAgreesWithRing, SlotsPointIntoRing, Active,
        PendingInBucket
<1>3. \A k, l \in Tabs : NameAt[k] = NameAt[l] => k = l
  <2>1. SUFFICES ASSUME NEW k \in Tabs, NEW l \in Tabs, NameAt[k] = NameAt[l]
                 PROVE  k = l
    OBVIOUS
  <2>2. EntryAt(k) = EntryAt(l)
    BY <1>2, <2>1 DEF Consistent, PendingOnce
  <2> QED
    BY <1>2, <2>2
<1>4. ASSUME NEW m \in P
      PROVE  \E k \in Tabs : NameAt[k] = m
  <2>1. PICK i \in Active : ring[i].name = m
    BY DEF PendingInBucket
  <2>2. LET s == <<ring[i].bucket, ring[i].tab>>
        IN s \in busy /\ s \in Slots /\ entry[s].index = i /\ s[1] = BucketOf(m)
    BY <2>1
    DEF Consistent, TypeOK, TableAgreesWithRing, RingPointsIntoTable,
        SlotsPointIntoRing
  <2>3. ring[i].bucket = b /\ ring[i].tab \in Tabs
    BY <2>2 DEF PendingInBucket, Slots
  <2> QED
    BY <2>1, <2>2, <2>3
<1>5. NameAt \in Bijection(Tabs, P)
  <2>1. NameAt \in [Tabs -> P]
    BY <1>2
  <2> HIDE DEF NameAt, P
  <2> QED
    BY <1>3, <1>4, <2>1 DEF Bijection, Injection, Surjection, IsInjective
<1>6. IsFiniteSet(Tabs) /\ Cardinality(Tabs) = BucketSize
  BY SizesAssumption, FS_Interval DEF Tabs
<1>7. Cardinality(P) = Cardinality(Tabs)
  BY <1>5, <1>6, FS_Bijection DEF ExistsBijection
<1> QED
  BY <1>6, <1>7

\* Space is never lost: a name is refused only if its bucket is full of names
\* that are pending, or the ring is full.
THEOREM AlwaysRefusedOnlyWhenFull == Spec => RefusedOnlyWhenFull
<1>1. ASSUME Consistent, NEW n \in Names, NEW f \in Faces, Reject(n, f), ~IsFull
      PROVE  BucketSize = Cardinality(PendingInBucket(n))
  BY <1>1, FullBucketIsPending DEF Reject
<1>2. Consistent /\ [Next]_vars =>
        [\A n \in Names, f \in Faces : Reject(n, f) =>
           \/ IsFull
           \/ BucketSize = Cardinality(
                {m \in Names : /\ BucketOf(m) = BucketOf(n)
                               /\ \E i \in Active : ring[i].name = m})]_vars
  BY <1>1 DEF PendingInBucket
<1> QED
  BY <1>2, PitConsistent, PTL DEF Spec, RefusedOnlyWhenFull

-----------------------------------------------------------------------------
(* The PIT implements PendingInterests.  The map is read off the ring, so a *)
(* step is known by what it does to the active entries.                     *)

\* Every pending name is a name, and its faces are those of its entry.
LEMMA EntryIsPending ==
  ASSUME Consistent, NEW i \in Active
  PROVE  /\ ring[i].name \in Names
         /\ ring[i].name \in DOMAIN pending
         /\ pending[ring[i].name] = ring[i].faces
<1>1. ring[i].name \in Names
  BY DEF Consistent, TableAgreesWithRing, SlotsPointIntoRing,
         RingPointsIntoTable
<1>2. EntryOf(ring[i].name) = i
  BY DEF EntryOf, Consistent, PendingOnce
<1> QED
  BY <1>1, <1>2 DEF pending

\* The map after a step is any map that has the active entries' names and
\* faces.
LEMMA NextMap ==
  ASSUME Consistent', NEW D, NEW g, g = [n \in D |-> g[n]],
         D = {ring'[i].name : i \in Active'},
         \A i \in Active' : g[ring'[i].name] = ring'[i].faces
  PROVE  pending' = g
<1>1. ASSUME NEW n \in D
      PROVE  g[n] = ring'[EntryOf(n)'].faces
  <2>1. PICK i \in Active' : ring'[i].name = n
    OBVIOUS
  <2>2. EntryOf(n)' = i
    BY <2>1 DEF EntryOf, Consistent, PendingOnce
  <2> QED
    BY <2>1, <2>2
<1> QED
  BY <1>1 DEF pending

LEMMA AggregateImplements ==
  ASSUME Consistent, Consistent', NEW n \in Names, NEW f \in Faces,
         Aggregate(n, f)
  PROVE  Abs!Aggregate(n, f)
<1>1. PICK s \in Matches(n) :
        ring' = [ring EXCEPT ![entry[s].index].faces = @ \cup {f}]
  BY DEF Aggregate
<1> DEFINE i == entry[s].index
<1>2. i \in Active /\ i \in RingIdx /\ ring[i].name = n
  BY MatchIsEntry
<1>3. ring \in [RingIdx -> RingEntry]
  BY DEF Consistent, TypeOK
<1>4. /\ \A j \in RingIdx : /\ ring'[j].active = ring[j].active
                            /\ ring'[j].name = ring[j].name
                            /\ j # i => ring'[j].faces = ring[j].faces
      /\ ring'[i].faces = ring[i].faces \cup {f}
  BY <1>1, <1>2, <1>3 DEF RingEntry
<1>5. Active' = Active /\ \A j \in Active : j \in RingIdx
  BY <1>4 DEF Active
<1>6. n \in DOMAIN pending
  BY <1>2, EntryIsPending
<1> DEFINE g == [pending EXCEPT ![n] = @ \cup {f}]
<1>7. \A j \in Active : g[ring[j].name] = ring'[j].faces
  <2>1. \A j \in Active : ring[j].name = n => j = i
    BY <1>2 DEF Consistent, PendingOnce
  <2> QED
    BY <1>2, <1>4, <1>5, <1>6, <2>1, EntryIsPending
<1>8. DOMAIN pending = {ring'[j].name : j \in Active'}
  BY <1>4, <1>5 DEF pending
<1>9. pending' = g
  <2>1. g = [m \in DOMAIN pending |-> g[m]]
    OBVIOUS
  <2> HIDE DEF g
  <2> QED
    BY <1>4, <1>5, <1>7, <1>8, <2>1, NextMap
<1> QED
  BY <1>6, <1>9 DEF Abs!Aggregate, Abs!Answer, Aggregate

LEMMA InsertImplements ==
  ASSUME Consistent, Consistent', NEW n \in Names, NEW f \in Faces,
         Insert(n, f)
  PROVE  Abs!Record(n, f)
<1>1. PICK s \in FreeSlots(n) :
        ring' = [ring EXCEPT ![top] =
                   [active |-> TRUE, bucket |-> s[1], tab |-> s[2],
                    expiry |-> now + ttl, name |-> n, faces |-> {f}]]
  BY DEF Insert
<1>2. ring \in [RingIdx -> RingEntry] /\ top \in RingIdx
  BY DEF Consistent, TypeOK
<1>3. /\ ring'[top].active /\ ring'[top].name = n /\ ring'[top].faces = {f}
      /\ \A j \in RingIdx \ {top} : ring'[j] = ring[j]
  BY <1>1, <1>2
<1>4. top \notin Active
  BY <1>2, PosInRange
  DEF Consistent, TableAgreesWithRing, ActiveInWindow, Window
<1>5. /\ Active' = Active \cup {top}
      /\ \A j \in Active : ring'[j] = ring[j]
  BY <1>2, <1>3, <1>4 DEF Active
<1>6. \A j \in Active : ring[j].name # n
  BY NoMatchNoEntry DEF Insert
<1>7. n \notin DOMAIN pending
  BY <1>6 DEF pending
<1> DEFINE g == Abs!With(pending, n, f)
<1>8. /\ g = [m \in DOMAIN pending \cup {n} |-> g[m]]
      /\ \A m \in DOMAIN pending \cup {n} :
           g[m] = IF m = n THEN {f} ELSE pending[m]
  BY DEF Abs!With
<1> HIDE DEF g
<1>9. \A j \in Active' : g[ring'[j].name] = ring'[j].faces
  <2>1. g[ring'[top].name] = ring'[top].faces
    BY <1>3, <1>8
  <2>2. \A j \in Active : g[ring'[j].name] = ring'[j].faces
    BY <1>5, <1>6, <1>8, EntryIsPending
  <2> QED
    BY <1>5, <2>1, <2>2
<1>10. DOMAIN pending \cup {n} = {ring'[j].name : j \in Active'}
  BY <1>3, <1>5 DEF pending
<1>11. pending' = g
  BY <1>8, <1>9, <1>10, NextMap
<1> QED
  BY <1>7, <1>11 DEF g, Abs!Record, Abs!Answer, Insert

LEMMA RejectImplements ==
  ASSUME Consistent, NEW n \in Names, NEW f \in Faces, Reject(n, f)
  PROVE  Abs!Refuse(n)
<1>1. \A j \in Active : ring[j].name # n
  BY NoMatchNoEntry DEF Reject
<1>2. pending' = pending
  BY DEF Reject, pending, EntryOf, Active
<1> QED
  BY <1>1, <1>2
  DEF Reject, Abs!Refuse, Abs!Answer, pending, ENOSPC, Abs!ENOSPC

\* Removal and purge leave the names of the entries they leave active.
LEMMA UnlinkImplements ==
  ASSUME Consistent, Consistent', NEW S \in SUBSET Active,
         Active' = Active \ S,
         \A j \in Active \ S : /\ ring'[j].name = ring[j].name
                               /\ ring'[j].faces = ring[j].faces
  PROVE  pending' = Abs!Without(pending, {ring[i].name : i \in S})
<1> DEFINE Gone == {ring[i].name : i \in S}
           g == Abs!Without(pending, Gone)
<1>1. /\ g = [m \in DOMAIN pending \ Gone |-> g[m]]
      /\ \A m \in DOMAIN pending \ Gone : g[m] = pending[m]
  BY DEF Abs!Without
<1>2. \A j \in Active \ S : ring[j].name \notin Gone
  BY DEF Consistent, PendingOnce
<1>3. DOMAIN pending \ Gone = {ring'[j].name : j \in Active'}
  BY <1>2 DEF pending
<1>4. \A j \in Active' : g[ring'[j].name] = ring'[j].faces
  BY <1>1, <1>2, EntryIsPending
<1> HIDE DEF g
<1>5. pending' = g
  BY <1>1, <1>3, <1>4, NextMap
<1> QED
  BY <1>5 DEF g

LEMMA RemoveHitImplements ==
  ASSUME Consistent, Consistent', NEW n \in Names, RemoveHit(n)
  PROVE  Abs!Take(n)
<1>1. PICK s \in Matches(n) :
        /\ ring' = [ring EXCEPT ![entry[s].index].active = FALSE]
        /\ ret' = [code |-> 0, faces |-> ring[entry[s].index].faces]
  BY DEF RemoveHit
<1> DEFINE i == entry[s].index
<1>2. i \in Active /\ i \in RingIdx /\ ring[i].name = n
  BY MatchIsEntry
<1>3. /\ ring'[i].active = FALSE
      /\ \A j \in RingIdx : /\ ring'[j].name = ring[j].name
                            /\ ring'[j].faces = ring[j].faces
                            /\ j # i => ring'[j].active = ring[j].active
  BY <1>1, <1>2 DEF RingEntry, Consistent, TypeOK
<1>4. Active' = Active \ {i} /\ \A j \in Active : j \in RingIdx
  BY <1>2, <1>3 DEF Active
<1>5. {ring[j].name : j \in {i}} = {n}
  BY <1>2
<1>6. pending' = Abs!Without(pending, {n})
  <2> HIDE DEF i
  <2>1. {i} \in SUBSET Active
    BY <1>2
  <2>2. pending' = Abs!Without(pending, {ring[j].name : j \in {i}})
    BY <1>3, <1>4, <2>1, UnlinkImplements
  <2> QED
    BY <1>5, <2>2
<1>7. n \in DOMAIN pending /\ pending[n] = ring[i].faces
  BY <1>2, EntryIsPending
<1> QED
  BY <1>1, <1>6, <1>7 DEF Abs!Take, Abs!Answer

LEMMA RemoveMissImplements ==
  ASSUME Consistent, Consistent', NEW n \in Names, RemoveMiss(n)
  PROVE  Abs!Take(n)
<1>1. \A j \in Active : ring[j].name # n
  BY NoMatchNoEntry DEF RemoveMiss
<1>2. n \notin DOMAIN pending
  BY <1>1 DEF pending
<1>3. pending' = pending
  BY DEF RemoveMiss, pending, EntryOf, Active
<1>4. Abs!Without(pending, {n}) = pending
  BY <1>2 DEF Abs!Without, pending
<1> QED
  BY <1>2, <1>3, <1>4 DEF Abs!Take, Abs!Answer, RemoveMiss

LEMMA PurgeImplements ==
  ASSUME Consistent, Consistent', NEW t \in Nat, PurgeExpired(t)
  PROVE  Abs!Purge
<1>1. PICK b \in RingIdx : PurgeTo(b, t)
  BY DEF PurgeExpired
<1> DEFINE S == Passed(b) \cap Active
<1>2. \A j \in RingIdx : /\ ring'[j].name = ring[j].name
                         /\ ring'[j].faces = ring[j].faces
                         /\ ring'[j].active = (ring[j].active
                                               /\ j \notin Passed(b))
  BY <1>1 DEF PurgeTo, RingEntry, Consistent, TypeOK
<1>3. Active' = Active \ S /\ \A j \in Active : j \in RingIdx
  BY <1>2 DEF Active
<1>4. pending' = Abs!Without(pending, {ring[i].name : i \in S})
  <2>1. S \in SUBSET Active
    OBVIOUS
  <2> HIDE DEF S
  <2> QED
    BY <1>2, <1>3, <2>1, UnlinkImplements
<1>5. {ring[i].name : i \in S} \in SUBSET DOMAIN pending
  BY DEF pending
<1>6. ret' \in [code : Nat, faces : {{}}]
  BY <1>1, PosInRange DEF PurgeTo, Consistent
<1> QED
  BY <1>4, <1>5, <1>6 DEF Abs!Purge, Abs!Drop

LEMMA StepImplements ==
  ASSUME Consistent, Consistent', [Next]_vars
  PROVE  [Abs!Next]_(Abs!vars)
<1>1. ASSUME NEW n \in Names, NEW f \in Faces,
             LookupAndUpdate(n, f), call' = <<"update", n, f>>
      PROVE  Abs!Next
  BY <1>1, AggregateImplements, InsertImplements, RejectImplements
  DEF LookupAndUpdate, Abs!Next
<1>2. ASSUME NEW n \in Names, LookupAndRemove(n), call' = <<"remove", n>>
      PROVE  Abs!Next
  BY <1>2, RemoveHitImplements, RemoveMissImplements
  DEF LookupAndRemove, Abs!Next
<1>3. ASSUME NEW t \in 0 .. now, PurgeExpired(t), call' = <<"purge">>
      PROVE  Abs!Next
  <2>1. t \in Nat
    BY DEF Consistent, TypeOK
  <2> QED
    BY <1>3, <2>1, PurgeImplements DEF Abs!Next
<1>4. ASSUME UNCHANGED <<ring, ret, call>>
      PROVE  UNCHANGED Abs!vars
  BY <1>4 DEF Abs!vars, pending, EntryOf, Active
<1>5. ASSUME NEW v \in TTLs, SetTtl(v), UNCHANGED call
      PROVE  UNCHANGED Abs!vars
  BY <1>4, <1>5 DEF SetTtl
<1>6. CASE Tick /\ UNCHANGED call
  BY <1>4, <1>6 DEF Tick
<1>7. CASE UNCHANGED vars
  BY <1>4, <1>7 DEF vars
<1> QED
  BY <1>1, <1>2, <1>3, <1>5, <1>6, <1>7 DEF Next

\* A PIT is a map from names to faces, for any table, ring, hash and TTLs: a
\* name is aggregated only if it is pending, a set of faces is handed out with
\* its entry, and a purge drops names and adds none.
THEOREM PitImplementsPendingInterests == Spec => ImplementsPendingInterests
<1>1. Init => Abs!Init
  <2>1. Init => Active = {}
    BY DEF Init, Active
  <2>2. Active = {} => pending = [n \in {} |-> {}]
    BY DEF pending
  <2> QED
    BY <2>1, <2>2 DEF Init, Abs!Init, Abs!Answer
<1>2. Consistent /\ Consistent' /\ [Next]_vars => [Abs!Next]_(Abs!vars)
  BY StepImplements
<1> QED
  BY <1>1, <1>2, PitConsistent, PTL DEF Spec, ImplementsPendingInterests, Abs!Spec
=============================================================================
