-------------------------- MODULE ForwarderProofs --------------------------
(***************************************************************************)
(* Proofs about Forwarder for every set of names, faces and buffers, and   *)
(* every size of cache, batch and NIC ring.                                *)
(***************************************************************************)
EXTENDS Forwarder, FiniteSetTheorems, SequenceTheorems, TLAPS

Queues == [Faces -> Seq(Mbufs)]

-----------------------------------------------------------------------------
(* How often queues hold a buffer.                                         *)

\* The places at which the queues q hold m; Uses(m, q) is their number.
Spots(m, q) == {x \in Places(q) : q[x[1]][x[2]] = m}

LEMMA PlacesFacts ==
  ASSUME NEW q \in Queues
  PROVE  /\ \A p, i : <<p, i>> \in Places(q) <=> p \in Faces /\ i \in 1 .. Len(q[p])
         /\ \A x \in Places(q) : x = <<x[1], x[2]>>
         /\ IsFiniteSet(Places(q))
<1>1. \A p \in Faces : q[p] \in Seq(Mbufs) /\ DOMAIN q[p] = 1 .. Len(q[p])
                       /\ Len(q[p]) \in Nat
  BY DEF Queues
<1>2. \A p, i : <<p, i>> \in Places(q) <=> p \in Faces /\ i \in 1 .. Len(q[p])
  BY <1>1 DEF Places
<1>3. \A x \in Places(q) : x = <<x[1], x[2]>>
  BY DEF Places
<1>4. IsFiniteSet(Places(q))
  <2> DEFINE Row(p) == {p} \X DOMAIN q[p]
             Rows   == {Row(p) : p \in Faces}
  <2>1. \A p \in Faces : IsFiniteSet(Row(p))
    <3> SUFFICES ASSUME NEW p \in Faces
                 PROVE  IsFiniteSet(Row(p))
      OBVIOUS
    <3>1. IsFiniteSet(DOMAIN q[p])
      BY <1>1, FS_Interval
    <3> QED
      BY <3>1, FS_Singleton, FS_Product
  <2>2. IsFiniteSet(Rows)
    <3>1. [p \in Faces |-> Row(p)] \in Surjection(Faces, Rows)
      BY DEF Surjection
    <3> QED
      BY <3>1, FacesAssumption, FS_Surjection
  <2>3. \A T \in Rows : IsFiniteSet(T)
    BY <2>1
  <2>4. Places(q) = UNION Rows
    BY DEF Places
  <2> HIDE DEF Rows
  <2> QED
    BY <2>2, <2>3, <2>4, FS_UNION
<1> QED
  BY <1>2, <1>3, <1>4

LEMMA ConcatPlaces ==
  ASSUME NEW S, NEW s \in Seq(S), NEW t \in Seq(S), NEW u, u = s \o t
  PROVE  /\ Len(s) \in Nat
         /\ \A i \in 1 .. Len(s) : i \in 1 .. Len(u) /\ u[i] = s[i]
         /\ \A i \in 1 .. Len(t) : /\ i + Len(s) \in 1 .. Len(u)
                                   /\ u[i + Len(s)] = t[i]
         /\ \A i \in 1 .. Len(u) : /\ i <= Len(s) => i \in 1 .. Len(s)
                                   /\ i > Len(s) => i - Len(s) \in 1 .. Len(t)
<1> USE ConcatProperties, LenProperties
<1>1. Len(s) \in Nat /\ Len(t) \in Nat /\ Len(s \o t) = Len(s) + Len(t)
  OBVIOUS
<1>2. \A i \in 1 .. Len(s) : (s \o t)[i] = s[i]
  BY <1>1
<1>3. \A i \in 1 .. Len(t) : (s \o t)[i + Len(s)] = t[i]
  <2> SUFFICES ASSUME NEW i \in 1 .. Len(t)
               PROVE  (s \o t)[i + Len(s)] = t[i]
    OBVIOUS
  <2>1. /\ i + Len(s) \in 1 .. Len(s) + Len(t) /\ ~(i + Len(s) <= Len(s))
        /\ (i + Len(s)) - Len(s) = i
    BY <1>1
  <2> QED
    BY <2>1
<1> QED
  BY <1>1, <1>2, <1>3

\* The queues c are those of a, each followed by that of b.
Joined(c, a, b) == \A p \in Faces : c[p] = a[p] \o b[p]

\* They hold what both hold.
LEMMA JoinedUses ==
  ASSUME NEW a \in Queues, NEW b \in Queues, NEW c \in Queues,
         Joined(c, a, b), NEW m
  PROVE  /\ Uses(m, a) \in Nat /\ Uses(m, b) \in Nat /\ Uses(m, c) \in Nat
         /\ Uses(m, c) = Uses(m, a) + Uses(m, b)
<1>1. \A p \in Faces :
        /\ Len(a[p]) \in Nat
        /\ \A i \in 1 .. Len(a[p]) : i \in 1 .. Len(c[p]) /\ c[p][i] = a[p][i]
        /\ \A i \in 1 .. Len(b[p]) : /\ i + Len(a[p]) \in 1 .. Len(c[p])
                                     /\ c[p][i + Len(a[p])] = b[p][i]
        /\ \A i \in 1 .. Len(c[p]) :
             /\ i <= Len(a[p]) => i \in 1 .. Len(a[p])
             /\ i > Len(a[p]) => i - Len(a[p]) \in 1 .. Len(b[p])
  <2> SUFFICES ASSUME NEW p \in Faces
               PROVE  /\ Len(a[p]) \in Nat
                      /\ \A i \in 1 .. Len(a[p]) :
                           i \in 1 .. Len(c[p]) /\ c[p][i] = a[p][i]
                      /\ \A i \in 1 .. Len(b[p]) :
                           /\ i + Len(a[p]) \in 1 .. Len(c[p])
                           /\ c[p][i + Len(a[p])] = b[p][i]
                      /\ \A i \in 1 .. Len(c[p]) :
                           /\ i <= Len(a[p]) => i \in 1 .. Len(a[p])
                           /\ i > Len(a[p]) => i - Len(a[p]) \in 1 .. Len(b[p])
    OBVIOUS
  <2>1. a[p] \in Seq(Mbufs) /\ b[p] \in Seq(Mbufs) /\ c[p] = a[p] \o b[p]
    BY DEF Queues, Joined
  <2> QED
    BY <2>1, ConcatPlaces
<1> DEFINE A == Spots(m, a)
           B == Spots(m, b)
           D == {x \in Spots(m, c) : x[2] > Len(a[x[1]])}
           shift == [x \in B |-> <<x[1], x[2] + Len(a[x[1]])>>]
<1>2. /\ IsFiniteSet(Spots(m, a)) /\ IsFiniteSet(Spots(m, b))
      /\ IsFiniteSet(Spots(m, c)) /\ IsFiniteSet(D)
  <2>1. \A q \in Queues : IsFiniteSet(Spots(m, q))
    BY PlacesFacts, FS_Subset DEF Spots
  <2> QED
    BY <2>1, FS_Subset
<1>3. \A p, i : /\ <<p, i>> \in A <=> /\ p \in Faces /\ i \in 1 .. Len(a[p])
                                      /\ a[p][i] = m
                /\ <<p, i>> \in B <=> /\ p \in Faces /\ i \in 1 .. Len(b[p])
                                      /\ b[p][i] = m
                /\ <<p, i>> \in Spots(m, c) <=> /\ p \in Faces /\ i \in 1 .. Len(c[p])
                                                /\ c[p][i] = m
  BY PlacesFacts DEF Spots
<1>4. \A x \in A \cup B \cup Spots(m, c) : x = <<x[1], x[2]>>
  BY PlacesFacts DEF Spots
<1>5. Spots(m, c) = A \cup D
  <2>1. A \subseteq Spots(m, c)
    <3> SUFFICES ASSUME NEW p, NEW i, <<p, i>> \in A
                 PROVE  <<p, i>> \in Spots(m, c)
      BY <1>4
    <3>1. p \in Faces /\ i \in 1 .. Len(a[p]) /\ a[p][i] = m
      BY <1>3
    <3> QED
      BY <3>1, <1>1, <1>3
  <2>2. \A x \in Spots(m, c) : x \in A \/ x \in D
    <3> SUFFICES ASSUME NEW p, NEW i, <<p, i>> \in Spots(m, c), i <= Len(a[p])
                 PROVE  <<p, i>> \in A
      <4>1. \A x \in Spots(m, c) : x \in D \/ x[2] <= Len(a[x[1]])
        BY <1>1, <1>3, <1>4
      <4> QED
        BY <4>1, <1>4
    <3>1. p \in Faces /\ i \in 1 .. Len(c[p]) /\ c[p][i] = m
      BY <1>3
    <3> QED
      BY <3>1, <1>1, <1>3
  <2> QED
    BY <2>1, <2>2
<1>6. A \cap D = {}
  <2>1. \A x \in A : x[1] \in Faces /\ x[2] \in 1 .. Len(a[x[1]])
    BY <1>3, <1>4
  <2> QED
    BY <2>1, <1>1
<1>7. shift \in Bijection(B, D)
  <2>1. \A x \in B : /\ shift[x] \in D
                     /\ x[1] = shift[x][1]
                     /\ x[2] = shift[x][2] - Len(a[x[1]])
    <3> SUFFICES ASSUME NEW p, NEW i, <<p, i>> \in B
                 PROVE  /\ <<p, i + Len(a[p])>> \in D
                        /\ i = (i + Len(a[p])) - Len(a[p])
      BY <1>4
    <3>1. p \in Faces /\ i \in 1 .. Len(b[p]) /\ b[p][i] = m
      BY <1>3
    <3>2. i + Len(a[p]) \in 1 .. Len(c[p]) /\ c[p][i + Len(a[p])] = m
          /\ i + Len(a[p]) > Len(a[p]) /\ i = (i + Len(a[p])) - Len(a[p])
      BY <3>1, <1>1
    <3> QED
      BY <3>1, <3>2, <1>3
  <2>2. \A y \in D : \E x \in B : shift[x] = y
    <3> SUFFICES ASSUME NEW y \in D
                 PROVE  \E x \in B : shift[x] = y
      OBVIOUS
    <3>1. PICK p, i : y = <<p, i>> /\ p = y[1] /\ i = y[2]
      BY <1>4
    <3>2. p \in Faces /\ i \in 1 .. Len(c[p]) /\ c[p][i] = m /\ i > Len(a[p])
      BY <1>3, <3>1
    <3>3. i - Len(a[p]) \in 1 .. Len(b[p]) /\ (i - Len(a[p])) + Len(a[p]) = i
      BY <3>2, <1>1
    <3>4. b[p][i - Len(a[p])] = m
      BY <3>2, <3>3, <1>1
    <3>5. <<p, i - Len(a[p])>> \in B
      BY <3>2, <3>3, <3>4, <1>3
    <3> QED
      BY <3>1, <3>3, <3>5
  <2>3. \A x, y \in B : shift[x] = shift[y] => x = y
    <3>1. \A x \in B : x = <<shift[x][1], shift[x][2] - Len(a[shift[x][1]])>>
      BY <2>1, <1>4
    <3> QED
      BY <3>1
  <2> QED
    BY <2>1, <2>2, <2>3 DEF Bijection, Injection, Surjection, IsInjective
<1>8. Cardinality(D) = Cardinality(B)
  <2> HIDE DEF B, D, shift
  <2> QED
    BY <1>2, <1>7, FS_Bijection DEF ExistsBijection, B
<1>9. Cardinality(A \cup D) = Cardinality(A) + Cardinality(D)
  <2>1. Cardinality(A) \in Nat /\ Cardinality(D) \in Nat /\ Cardinality(A \cap D) = 0
    BY <1>2, <1>6, FS_CardinalityType, FS_EmptySet
  <2> HIDE DEF A, D
  <2>2. Cardinality(A \cup D) = Cardinality(A) + Cardinality(D) - Cardinality(A \cap D)
    BY <1>2, FS_Union DEF A
  <2> QED
    BY <2>1, <2>2
<1>10. /\ Cardinality(Spots(m, a)) \in Nat /\ Cardinality(Spots(m, b)) \in Nat
       /\ Cardinality(Spots(m, c)) \in Nat
  BY <1>2, FS_CardinalityType
<1> QED
  BY <1>5, <1>8, <1>9, <1>10 DEF Uses, Spots

\* m queued once for each face of F.
Once(F, m) == [p \in Faces |-> IF p \in F THEN <<m>> ELSE <<>>]

LEMMA OnceUses ==
  ASSUME NEW F \in SUBSET Faces, NEW m \in Mbufs
  PROVE  /\ Once(F, m) \in Queues
         /\ Cardinality(F) \in Nat
         /\ \A x : Uses(x, Once(F, m)) = IF x = m THEN Cardinality(F) ELSE 0
<1>1. Once(F, m) \in Queues
  <2>1. <<m>> \in Seq(Mbufs) /\ <<>> \in Seq(Mbufs)
    OBVIOUS
  <2> QED
    BY <2>1 DEF Once, Queues
<1>2. Places(Once(F, m)) = F \X {1}
  <2>1. \A p \in Faces : DOMAIN Once(F, m)[p] = IF p \in F THEN {1} ELSE {}
    <3> SUFFICES ASSUME NEW p \in Faces
                 PROVE  DOMAIN Once(F, m)[p] = IF p \in F THEN {1} ELSE {}
      OBVIOUS
    <3>1. DOMAIN <<m>> = 1 .. 1 /\ 1 .. 1 = {1} /\ DOMAIN <<>> = {}
      OBVIOUS
    <3> QED
      BY <3>1 DEF Once
  <2> QED
    BY <2>1 DEF Places
<1>3. \A x \in F \X {1} : Once(F, m)[x[1]][x[2]] = m
  BY DEF Once
<1>4. IsFiniteSet(F) /\ Cardinality(F) \in Nat
  BY FacesAssumption, FS_Subset, FS_CardinalityType
<1>5. Cardinality(F \X {1}) = Cardinality(F)
  <2>1. Cardinality(F \X {1}) = Cardinality(F) * Cardinality({1})
    BY <1>4, FS_Singleton, FS_Product
  <2>2. Cardinality({1}) = 1
    BY FS_Singleton
  <2> QED
    BY <2>1, <2>2, <1>4
<1>6. ASSUME NEW x
      PROVE  Uses(x, Once(F, m)) = IF x = m THEN Cardinality(F) ELSE 0
  <2>1. CASE x = m
    <3>1. {y \in Places(Once(F, m)) : Once(F, m)[y[1]][y[2]] = x} = F \X {1}
      BY <1>2, <1>3, <2>1
    <3> QED
      BY <3>1, <1>5, <2>1 DEF Uses
  <2>2. CASE x # m
    <3>1. {y \in Places(Once(F, m)) : Once(F, m)[y[1]][y[2]] = x} = {}
      BY <1>2, <1>3, <2>2
    <3> QED
      BY <3>1, <2>2, FS_EmptySet DEF Uses
  <2> QED
    BY <2>1, <2>2
<1> QED
  BY <1>1, <1>4, <1>6

\* A sequence cut in two.
LEMMA CutSeq ==
  ASSUME NEW s \in Seq(Mbufs), NEW k \in 0 .. Len(s)
  PROVE  /\ SubSeq(s, 1, k) \in Seq(Mbufs) /\ Len(SubSeq(s, 1, k)) = k
         /\ SubSeq(s, k + 1, Len(s)) \in Seq(Mbufs)
         /\ Len(SubSeq(s, k + 1, Len(s))) = Len(s) - k
         /\ s = SubSeq(s, 1, k) \o SubSeq(s, k + 1, Len(s))
<1>1. Len(s) \in Nat /\ \A i \in 1 .. Len(s) : s[i] \in Mbufs
  BY LenProperties, ElementOfSeq
<1>2. /\ SubSeq(s, 1, k) \in Seq(Mbufs) /\ Len(SubSeq(s, 1, k)) = k
      /\ SubSeq(s, k + 1, Len(s)) \in Seq(Mbufs)
      /\ Len(SubSeq(s, k + 1, Len(s))) = Len(s) - k
  BY <1>1, SubSeqProperties
<1>3. SubSeq(s, 1, k) \o SubSeq(s, k + 1, Len(s)) = s
  <2>1. /\ 1 \in 1 .. Len(s) + 1 /\ k \in 1 - 1 .. Len(s) /\ Len(s) \in k .. Len(s)
    BY <1>1
  <2>2. SubSeq(s, 1, k) \o SubSeq(s, k + 1, Len(s)) = SubSeq(s, 1, Len(s))
    BY <1>1, <2>1, ConcatAdjacentSubSeq
  <2> QED
    BY <2>2, SubSeqFull
<1> QED
  BY <1>2, <1>3

\* The descriptors of a transmit ring: frames to send, and frames sent whose
\* mbufs the driver has not released.
RingsOK == \A p \in Faces : Len(nic[p]) + Len(done[p]) <= NicRing

\* What the driver releases and what it keeps.
LEMMA ReleaseParts ==
  ASSUME done \in Queues, NEW B \in SUBSET Faces, NEW R \in Releases(B)
  PROVE  /\ Released(R) \in Queues /\ Kept(R) \in Queues
         /\ Joined(done, Released(R), Kept(R))
         /\ \A p \in Faces : /\ R[p] \in 0 .. Len(done[p])
                             /\ Len(Kept(R)[p]) = Len(done[p]) - R[p]
<1>1. \A p \in Faces : R[p] \in 0 .. Len(done[p])
  <2> SUFFICES ASSUME NEW p \in Faces
               PROVE  R[p] \in 0 .. Len(done[p])
    OBVIOUS
  <2>1. done[p] \in Seq(Mbufs) /\ Len(done[p]) \in Nat
    BY LenProperties DEF Queues
  <2>2. /\ R[p] \in 0 .. NicRing
        /\ R[p] <= IF p \in B THEN Len(done[p]) ELSE 0
    BY DEF Releases
  <2> QED
    BY <2>1, <2>2, SizesAssumption
<1>2. ASSUME NEW p \in Faces
      PROVE  /\ Released(R)[p] \in Seq(Mbufs) /\ Kept(R)[p] \in Seq(Mbufs)
             /\ done[p] = Released(R)[p] \o Kept(R)[p]
             /\ Len(Kept(R)[p]) = Len(done[p]) - R[p]
  <2>1. done[p] \in Seq(Mbufs) /\ R[p] \in 0 .. Len(done[p])
    BY <1>1 DEF Queues
  <2> QED
    BY <2>1, CutSeq DEF Released, Kept
<1> QED
  BY <1>1, <1>2 DEF Released, Kept, Queues, Joined

\* What the NIC takes of the queues and what it refuses.
LEMMA BurstParts ==
  ASSUME nic \in Queues, done \in Queues, RingsOK,
         NEW q \in Queues, NEW B \in SUBSET Faces, NEW R \in Releases(B)
  PROVE  /\ Accepted(q, B, R) \in Queues
         /\ Refused(q, B, R) \in Queues
         /\ \A p \in Faces :
              /\ Len(nic[p] \o Accepted(q, B, R)[p]) + Len(Kept(R)[p]) <= NicRing
              /\ p \in B => q[p] = Accepted(q, B, R)[p] \o Refused(q, B, R)[p]
              /\ p \notin B => /\ Accepted(q, B, R)[p] = <<>>
                               /\ Refused(q, B, R)[p] = <<>>
<1> SUFFICES ASSUME NEW p \in Faces
             PROVE  /\ Accepted(q, B, R)[p] \in Seq(Mbufs)
                    /\ Refused(q, B, R)[p] \in Seq(Mbufs)
                    /\ Len(nic[p] \o Accepted(q, B, R)[p]) + Len(Kept(R)[p])
                         <= NicRing
                    /\ p \in B => q[p] = Accepted(q, B, R)[p] \o Refused(q, B, R)[p]
                    /\ p \notin B => /\ Accepted(q, B, R)[p] = <<>>
                                     /\ Refused(q, B, R)[p] = <<>>
  BY DEF Accepted, Refused, Queues
<1> DEFINE l == Len(q[p])  o == Len(nic[p])  k == Len(Kept(R)[p])
           t == Taken(q, p, R)  d == Len(done[p])  freed == R[p]
<1>1. /\ q[p] \in Seq(Mbufs) /\ nic[p] \in Seq(Mbufs)
      /\ l \in Nat /\ o \in Nat /\ d \in Nat /\ NicRing \in Nat
      /\ o + d <= NicRing
  BY LenProperties, SizesAssumption DEF Queues, RingsOK
<1>2. k = d - freed /\ freed \in 0 .. d
  BY ReleaseParts
<1>3. t \in 0 .. l /\ t + o + k <= NicRing
  <2> DEFINE room == Room(p, R)
  <2>1. room = NicRing - o - (d - freed)
    BY DEF Room
  <2>2. t = IF l <= room THEN l ELSE room
    BY DEF Taken
  <2> HIDE DEF room, l, o, k, t, d, freed
  <2>3. room \in Nat /\ room = NicRing - o - k
    BY <1>1, <1>2, <2>1
  <2> QED
    BY <1>1, <1>2, <2>2, <2>3
<1>4. CASE p \in B
  <2>1. /\ Accepted(q, B, R)[p] = SubSeq(q[p], 1, t)
        /\ Refused(q, B, R)[p] = SubSeq(q[p], t + 1, l)
    BY <1>4 DEF Accepted, Refused
  <2>2. /\ SubSeq(q[p], 1, t) \in Seq(Mbufs) /\ Len(SubSeq(q[p], 1, t)) = t
        /\ SubSeq(q[p], t + 1, l) \in Seq(Mbufs)
        /\ q[p] = SubSeq(q[p], 1, t) \o SubSeq(q[p], t + 1, l)
    BY <1>1, <1>3, CutSeq
  <2>3. Len(nic[p] \o SubSeq(q[p], 1, t)) = o + t
    BY <1>1, <2>2, ConcatProperties
  <2>4. t \in Int /\ k \in Int /\ o \in Int
    <3> HIDE DEF l, o, k, t, d, freed
    <3> QED
      BY <1>1, <1>2, <1>3
  <2>5. o + t + k <= NicRing
    <3> HIDE DEF l, o, k, t, d, freed
    <3> QED
      BY <1>1, <1>3, <2>4
  <2> QED
    BY <1>4, <2>1, <2>2, <2>3, <2>5
<1>5. CASE p \notin B
  <2>1. Accepted(q, B, R)[p] = <<>> /\ Refused(q, B, R)[p] = <<>>
    BY <1>5 DEF Accepted, Refused
  <2>2. nic[p] \o <<>> = nic[p] /\ <<>> \in Seq(Mbufs)
    BY <1>1, ConcatEmptySeq, EmptySeq
  <2>3. o + k <= NicRing
    <3> HIDE DEF o, k, d, freed
    <3> QED
      BY <1>1, <1>2
  <2> QED
    BY <1>5, <2>1, <2>2, <2>3
<1> QED
  BY <1>4, <1>5

-----------------------------------------------------------------------------
(* What a handler's last call, to send_burst, does to the counts.          *)

\* References to m that are not those of a queue.
Spare(m) == ref[m] - Uses(m, tx) - Uses(m, nic) - Uses(m, done)

\* Queues, counts and counters have their types, and no transmit ring holds
\* more than it has descriptors.
QueuesOK ==
  /\ tx \in Queues /\ nic \in Queues /\ done \in Queues
  /\ RingsOK
  /\ ref \in [Mbufs -> Int]
  /\ stats \in [Counters -> 0 .. CounterMod - 1]

LEMMA CountedType ==
  ASSUME QueuesOK, NEW c, NEW n \in Int, NEW d \in Int
  PROVE  Counted(c, n, d) \in [Counters -> 0 .. CounterMod - 1]
<1> SUFFICES ASSUME NEW k \in Counters
             PROVE  Counted(c, n, d)[k] \in 0 .. CounterMod - 1
  BY DEF Counted
<1> DEFINE v == stats[k] + (IF k \in c THEN 1 ELSE 0)
                  + (IF k = "data_sent" THEN n ELSE 0)
                  + (IF k = "nic_pkt_drop" THEN d ELSE 0)
<1>1. stats[k] \in Int
  BY SizesAssumption DEF QueuesOK
<1>2. v \in Int
  BY <1>1
<1>3. Counted(c, n, d)[k] = v % CounterMod
  BY DEF Counted
<1> HIDE DEF v
<1>4. v % CounterMod \in 0 .. CounterMod - 1
  BY <1>2, SizesAssumption
<1> QED
  BY <1>3, <1>4

\* Where the packets of a transmission go: they stay in a transmit table, or
\* join a NIC queue (acc), or are refused (rej); and mbufs of frames sent
\* before are released (gone).
Sorted(q, B, both, acc, rej, gone) ==
  /\ Joined(q, tx', both) /\ Joined(both, acc, rej)
  /\ Joined(nic', nic, acc) /\ Joined(done, gone, done')
  /\ \A p \in Faces : p \notin B => rej[p] = <<>>

Settled(gain, c, n, rej, gone) ==
  /\ ref' = [m \in Mbufs |-> ref[m] + gain[m] - Uses(m, gone) - Uses(m, rej)]
  /\ stats' = Counted(c, n, Cardinality(Places(rej)))

LEMMA TransmitJoins ==
  ASSUME QueuesOK, NEW q \in Queues, NEW B \in SUBSET Faces,
         NEW gain, NEW c, NEW n, Transmit(q, B, gain, c, n)
  PROVE  /\ tx' \in Queues /\ nic' \in Queues /\ done' \in Queues /\ RingsOK'
         /\ \E both, acc, rej, gone \in Queues :
              Sorted(q, B, both, acc, rej, gone) /\ Settled(gain, c, n, rej, gone)
<1>1. PICK R \in Releases(B) :
        /\ tx' = [p \in Faces |-> IF p \in B THEN <<>> ELSE q[p]]
        /\ nic' = [p \in Faces |-> nic[p] \o Accepted(q, B, R)[p]]
        /\ done' = Kept(R)
        /\ ref' = [m \in Mbufs |-> ref[m] + gain[m] - Uses(m, Released(R))
                                    - Uses(m, Refused(q, B, R))]
        /\ stats' = Counted(c, n, Cardinality(Places(Refused(q, B, R))))
  BY DEF Transmit
<1> DEFINE acc == Accepted(q, B, R)
           rej == Refused(q, B, R)
           gone == Released(R)
           both == [p \in Faces |-> acc[p] \o rej[p]]
<1>2. /\ acc \in Queues /\ rej \in Queues
      /\ \A p \in Faces :
           /\ Len(nic[p] \o acc[p]) + Len(done'[p]) <= NicRing
           /\ p \in B => q[p] = acc[p] \o rej[p]
           /\ p \notin B => acc[p] = <<>> /\ rej[p] = <<>>
  BY <1>1, BurstParts DEF QueuesOK
<1>3. gone \in Queues /\ done' \in Queues /\ Joined(done, gone, done')
  BY <1>1, ReleaseParts DEF QueuesOK
<1>4. /\ nic \in Queues
      /\ tx' = [p \in Faces |-> IF p \in B THEN <<>> ELSE q[p]]
      /\ nic' = [p \in Faces |-> nic[p] \o acc[p]]
      /\ Settled(gain, c, n, rej, gone)
  BY <1>1 DEF QueuesOK, Settled
<1> HIDE DEF acc, rej, gone
<1>5. tx' \in Queues /\ nic' \in Queues /\ both \in Queues
  <2>1. \A p \in Faces : /\ nic[p] \o acc[p] \in Seq(Mbufs)
                         /\ acc[p] \o rej[p] \in Seq(Mbufs)
                         /\ q[p] \in Seq(Mbufs) /\ <<>> \in Seq(Mbufs)
    BY <1>2, <1>4, ConcatProperties, EmptySeq DEF Queues
  <2> QED
    BY <1>4, <2>1 DEF Queues
<1>6. Joined(q, tx', both) /\ Joined(both, acc, rej) /\ Joined(nic', nic, acc)
  <2> SUFFICES ASSUME NEW p \in Faces
               PROVE  q[p] = tx'[p] \o both[p]
    BY <1>4 DEF Joined
  <2>1. q[p] \in Seq(Mbufs) /\ both[p] = acc[p] \o rej[p]
    BY DEF Queues
  <2>2. CASE p \in B
    <3>1. tx'[p] = <<>> /\ both[p] = q[p]
      BY <1>2, <1>4, <2>1, <2>2
    <3> QED
      BY <2>1, <3>1, ConcatEmptySeq
  <2>3. CASE p \notin B
    <3>1. tx'[p] = q[p] /\ both[p] = <<>> \o <<>>
      BY <1>2, <1>4, <2>1, <2>3
    <3>2. both[p] = <<>>
      BY <3>1, ConcatEmptySeq, EmptySeq
    <3> QED
      BY <2>1, <3>1, <3>2, ConcatEmptySeq
  <2> QED
    BY <2>2, <2>3
<1>7. RingsOK'
  <2>1. \A p \in Faces : Len(nic'[p]) + Len(done'[p]) <= NicRing
    BY <1>2, <1>4
  <2> QED
    BY <2>1 DEF RingsOK
<1> HIDE DEF both
<1>8. Sorted(q, B, both, acc, rej, gone)
  BY <1>2, <1>3, <1>6 DEF Sorted
<1> QED
  BY <1>2, <1>3, <1>4, <1>5, <1>7, <1>8

LEMMA TransmitKeeps ==
  ASSUME QueuesOK, NEW q \in Queues, NEW B \in SUBSET Faces,
         NEW gain \in [Mbufs -> Int], NEW c, NEW n \in Int,
         Transmit(q, B, gain, c, n)
  PROVE  /\ QueuesOK'
         /\ \A m \in Mbufs :
              Spare(m)' = Spare(m) + gain[m] + Uses(m, tx) - Uses(m, q)
<1>1. /\ tx' \in Queues /\ nic' \in Queues /\ done' \in Queues /\ RingsOK'
      /\ nic \in Queues /\ done \in Queues
  BY TransmitJoins DEF QueuesOK
<1> PICK both \in Queues, acc \in Queues, rej \in Queues, gone \in Queues :
      Sorted(q, B, both, acc, rej, gone) /\ Settled(gain, c, n, rej, gone)
  BY TransmitJoins
<1>2. /\ Joined(q, tx', both) /\ Joined(both, acc, rej)
      /\ Joined(nic', nic, acc) /\ Joined(done, gone, done')
      /\ ref' = [m \in Mbufs |-> ref[m] + gain[m] - Uses(m, gone) - Uses(m, rej)]
      /\ stats' = Counted(c, n, Cardinality(Places(rej)))
  BY DEF Sorted, Settled
<1>3. ASSUME NEW m \in Mbufs
      PROVE  /\ Uses(m, q) = Uses(m, tx') + Uses(m, acc) + Uses(m, rej)
             /\ Uses(m, nic') = Uses(m, nic) + Uses(m, acc)
             /\ Uses(m, done) = Uses(m, gone) + Uses(m, done')
             /\ {Uses(m, q), Uses(m, tx'), Uses(m, acc), Uses(m, rej),
                 Uses(m, nic), Uses(m, nic'), Uses(m, gone), Uses(m, done),
                 Uses(m, done')} \subseteq Nat
  <2>1. /\ Uses(m, q) = Uses(m, tx') + Uses(m, both)
        /\ Uses(m, q) \in Nat /\ Uses(m, tx') \in Nat
    BY <1>1, <1>2, JoinedUses
  <2>2. /\ Uses(m, both) = Uses(m, acc) + Uses(m, rej)
        /\ Uses(m, acc) \in Nat /\ Uses(m, rej) \in Nat
    BY <1>1, <1>2, JoinedUses
  <2>3. /\ Uses(m, nic') = Uses(m, nic) + Uses(m, acc)
        /\ Uses(m, nic) \in Nat /\ Uses(m, nic') \in Nat
    BY <1>1, <1>2, JoinedUses
  <2>4. /\ Uses(m, done) = Uses(m, gone) + Uses(m, done')
        /\ Uses(m, gone) \in Nat /\ Uses(m, done) \in Nat /\ Uses(m, done') \in Nat
    BY <1>1, <1>2, JoinedUses
  <2> QED
    BY <2>1, <2>2, <2>3, <2>4
<1>4. ref' \in [Mbufs -> Int]
  <2>1. \A m \in Mbufs : /\ ref[m] \in Int /\ gain[m] \in Int
                         /\ Uses(m, rej) \in Int /\ Uses(m, gone) \in Int
    BY <1>3 DEF QueuesOK
  <2>2. \A m \in Mbufs : ref[m] + gain[m] - Uses(m, gone) - Uses(m, rej) \in Int
    BY <2>1
  <2> QED
    BY <1>2, <2>2
<1>5. stats' \in [Counters -> 0 .. CounterMod - 1]
  <2>1. Cardinality(Places(rej)) \in Int
    BY PlacesFacts, FS_CardinalityType
  <2> QED
    BY <1>2, <2>1, CountedType
<1>6. QueuesOK'
  BY <1>1, <1>4, <1>5 DEF QueuesOK
<1>7. ASSUME NEW m \in Mbufs
      PROVE  Spare(m)' = Spare(m) + gain[m] + Uses(m, tx) - Uses(m, q)
  <2>1. /\ ref'[m] = ref[m] + gain[m] - Uses(m, gone) - Uses(m, rej)
        /\ ref[m] \in Int /\ gain[m] \in Int
    BY <1>2 DEF QueuesOK
  <2>2. Uses(m, tx) \in Nat
    BY PlacesFacts, FS_Subset, FS_CardinalityType DEF QueuesOK, Uses
  <2>3. Spare(m)' = ref'[m] - Uses(m, tx') - Uses(m, nic') - Uses(m, done')
    BY DEF Spare, Uses, Places
  <2>4. Spare(m) = ref[m] - Uses(m, tx) - Uses(m, nic) - Uses(m, done)
    BY DEF Spare
  <2> DEFINE spare == Spare(m)
             after == Spare(m)'
  <2> HIDE DEF spare, after
  <2>5. /\ spare = ref[m] - Uses(m, tx) - Uses(m, nic) - Uses(m, done)
        /\ after = ref'[m] - Uses(m, tx') - Uses(m, nic') - Uses(m, done')
    BY <2>3, <2>4 DEF spare, after
  <2>6. after = spare + gain[m] + Uses(m, tx) - Uses(m, q)
    BY <1>3, <2>1, <2>2, <2>5
  <2> QED
    BY <2>6 DEF spare, after
<1> QED
  BY <1>6, <1>7

\* The queues that Send hands to Transmit, and the packet it adds to them.
Queued(F, m) == [p \in Faces |-> IF p \in F THEN Append(tx[p], m) ELSE tx[p]]

LEMMA SendJoins ==
  ASSUME QueuesOK, NEW F \in SUBSET Faces, NEW m \in Mbufs
  PROVE  Queued(F, m) \in Queues /\ Joined(Queued(F, m), tx, Once(F, m))
<1> DEFINE q == Queued(F, m)
<1>1. \A p \in Faces : q[p] = IF p \in F THEN Append(tx[p], m) ELSE tx[p]
  BY DEF Queued
<1>2. \A p \in Faces : q[p] \in Seq(Mbufs) /\ q[p] = tx[p] \o Once(F, m)[p]
  <2> SUFFICES ASSUME NEW p \in Faces
               PROVE  q[p] \in Seq(Mbufs) /\ q[p] = tx[p] \o Once(F, m)[p]
    OBVIOUS
  <2>1. tx[p] \in Seq(Mbufs)
    BY DEF QueuesOK, Queues
  <2>2. CASE p \in F
    <3>1. q[p] = Append(tx[p], m) /\ Once(F, m)[p] = <<m>>
      BY <1>1, <2>2 DEF Once
    <3>2. Append(tx[p], m) \in Seq(Mbufs) /\ Append(tx[p], m) = tx[p] \o <<m>>
      BY <2>1, AppendIsConcat, AppendProperties
    <3> QED
      BY <3>1, <3>2
  <2>3. CASE p \notin F
    BY <1>1, <2>1, <2>3, ConcatEmptySeq DEF Once
  <2> QED
    BY <2>2, <2>3
<1> QED
  BY <1>2 DEF Queued, Queues, Joined

\* Queueing m for the faces of F takes up as many references as F has faces.
LEMMA SendKeeps ==
  ASSUME QueuesOK, NEW F \in SUBSET Faces, NEW m \in Mbufs,
         NEW gain \in [Mbufs -> Int], NEW c, NEW n \in Int,
         Send(F, m, gain, c, n)
  PROVE  /\ QueuesOK'
         /\ \A x \in Mbufs :
              Spare(x)' = Spare(x) + gain[x] - (IF x = m THEN Cardinality(F) ELSE 0)
<1> DEFINE q == Queued(F, m)
           B == {p \in F : Len(q[p]) = MaxBurst}
<1>1. Transmit(q, B, gain, c, n)
  BY DEF Send, Queued
<1>2. q \in Queues /\ Joined(q, tx, Once(F, m)) /\ B \in SUBSET Faces
  BY SendJoins
<1> HIDE DEF q, B
<1>3. /\ QueuesOK'
      /\ \A x \in Mbufs : Spare(x)' = Spare(x) + gain[x] + Uses(x, tx) - Uses(x, q)
  BY <1>1, <1>2, TransmitKeeps
<1>4. ASSUME NEW x \in Mbufs
      PROVE  Spare(x)' = Spare(x) + gain[x] - (IF x = m THEN Cardinality(F) ELSE 0)
  <2>1. /\ Once(F, m) \in Queues /\ Cardinality(F) \in Nat
        /\ Uses(x, Once(F, m)) = IF x = m THEN Cardinality(F) ELSE 0
    BY OnceUses
  <2>2. /\ Uses(x, q) = Uses(x, tx) + Uses(x, Once(F, m))
        /\ Uses(x, tx) \in Nat /\ Uses(x, Once(F, m)) \in Nat
    BY <1>2, <2>1, JoinedUses DEF QueuesOK
  <2>3. Spare(x) \in Int
    <3>1. Uses(x, nic) \in Nat /\ Uses(x, done) \in Nat /\ ref[x] \in Int
      BY PlacesFacts, FS_Subset, FS_CardinalityType DEF QueuesOK, Uses
    <3> QED
      BY <2>2, <3>1 DEF Spare
  <2>4. Spare(x)' = Spare(x) + gain[x] + Uses(x, tx) - Uses(x, q)
    BY <1>3
  <2> DEFINE sp == Spare(x)
  <2>5. gain[x] \in Int /\ sp \in Int
    BY <2>3
  <2> HIDE DEF sp
  <2>6. sp + gain[x] + Uses(x, tx) - Uses(x, q)
          = sp + gain[x] - (IF x = m THEN Cardinality(F) ELSE 0)
    BY <2>1, <2>2, <2>5
  <2> QED
    BY <2>4, <2>6 DEF sp
<1> QED
  BY <1>3, <1>4

\* The frame transmitted leaves the frames to send and joins those sent.
LEMMA TransmittedJoins ==
  ASSUME QueuesOK, NEW p \in Faces, Transmitted(p)
  PROVE  LET h == Head(nic[p]) IN
         /\ h \in Mbufs /\ tx' = tx /\ nic' \in Queues /\ done' \in Queues
         /\ ref' = ref
         /\ stats' = Counted({"wire"}, 0, 0)
         /\ RingsOK'
         /\ Once({p}, h) \in Queues
         /\ Joined(nic, Once({p}, h), nic') /\ Joined(done', done, Once({p}, h))
<1> DEFINE h == Head(nic[p])
<1>1. /\ nic \in Queues /\ nic[p] \in Seq(Mbufs) /\ nic[p] # <<>>
      /\ done \in Queues /\ done[p] \in Seq(Mbufs)
      /\ nic' = [nic EXCEPT ![p] = Tail(nic[p])]
      /\ done' = [done EXCEPT ![p] = Append(done[p], h)]
      /\ ref' = ref
      /\ stats' = Counted({"wire"}, 0, 0) /\ tx' = tx
  BY DEF Transmitted, QueuesOK, Queues
<1>2. /\ h \in Mbufs /\ Tail(nic[p]) \in Seq(Mbufs)
      /\ Len(Tail(nic[p])) = Len(nic[p]) - 1 /\ Len(nic[p]) \in Nat
      /\ nic[p] = <<h>> \o Tail(nic[p])
  BY <1>1
<1> HIDE DEF h
<1>3. /\ Append(done[p], h) \in Seq(Mbufs) /\ Append(done[p], h) = done[p] \o <<h>>
      /\ Len(Append(done[p], h)) = Len(done[p]) + 1 /\ Len(done[p]) \in Nat
  <2> DEFINE s == done[p]
  <2>1. s \in Seq(Mbufs) /\ h \in Mbufs
    BY <1>1, <1>2
  <2> HIDE DEF s
  <2>2. /\ Append(s, h) \in Seq(Mbufs) /\ Append(s, h) = s \o <<h>>
        /\ Len(Append(s, h)) = Len(s) + 1 /\ Len(s) \in Nat
    BY <2>1, AppendIsConcat, AppendProperties, LenProperties
  <2> QED
    BY <2>2 DEF s
<1>4. /\ nic' \in Queues /\ done' \in Queues
      /\ \A r \in Faces : /\ nic'[r] = IF r = p THEN Tail(nic[p]) ELSE nic[r]
                          /\ done'[r] = IF r = p THEN Append(done[p], h) ELSE done[r]
  BY <1>1, <1>2, <1>3 DEF Queues
<1>5. Joined(nic, Once({p}, h), nic') /\ Joined(done', done, Once({p}, h))
  <2> SUFFICES ASSUME NEW r \in Faces
               PROVE  /\ nic[r] = Once({p}, h)[r] \o nic'[r]
                      /\ done'[r] = done[r] \o Once({p}, h)[r]
    BY DEF Joined
  <2>1. CASE r = p
    BY <1>2, <1>3, <1>4, <2>1 DEF Once
  <2>2. CASE r # p
    <3>1. /\ Once({p}, h)[r] = <<>> /\ nic'[r] = nic[r] /\ nic[r] \in Seq(Mbufs)
          /\ done'[r] = done[r] /\ done[r] \in Seq(Mbufs)
      BY <1>4, <2>2 DEF Once, QueuesOK, Queues
    <3> QED
      BY <3>1, ConcatEmptySeq
  <2> QED
    BY <2>1, <2>2
<1>6. RingsOK'
  <2> SUFFICES ASSUME NEW r \in Faces
               PROVE  Len(nic'[r]) + Len(done'[r]) <= NicRing
    BY DEF RingsOK
  <2>1. Len(nic[r]) + Len(done[r]) <= NicRing
    BY DEF QueuesOK, RingsOK
  <2>2. CASE r = p
    <3>1. Len(nic'[r]) = Len(nic[p]) - 1 /\ Len(done'[r]) = Len(done[p]) + 1
      BY <1>2, <1>3, <1>4, <2>2
    <3>2. (Len(nic[p]) - 1) + (Len(done[p]) + 1) = Len(nic[p]) + Len(done[p])
      <4> DEFINE x == Len(nic[p])  y == Len(done[p])
      <4>1. x \in Int /\ y \in Int
        BY <1>2, <1>3
      <4> HIDE DEF x, y
      <4>2. (x - 1) + (y + 1) = x + y
        BY <4>1
      <4> QED
        BY <4>2 DEF x, y
    <3> QED
      BY <2>1, <2>2, <3>1, <3>2
  <2>3. CASE r # p
    <3>1. Len(nic'[r]) = Len(nic[r]) /\ Len(done'[r]) = Len(done[r])
      BY <1>4, <2>3
    <3> QED
      BY <2>1, <3>1
  <2> QED
    BY <2>2, <2>3
<1>7. Once({p}, h) \in Queues
  BY <1>2, OnceUses
<1> QED
  BY <1>1, <1>2, <1>4, <1>5, <1>6, <1>7 DEF h

\* A transmitted frame keeps its reference.
LEMMA TransmittedKeeps ==
  ASSUME QueuesOK, NEW p \in Faces, Transmitted(p)
  PROVE  /\ QueuesOK'
         /\ \A x \in Mbufs : Spare(x)' = Spare(x)
<1> DEFINE h == Head(nic[p])
           B == {p}
<1>1. /\ h \in Mbufs /\ tx' = tx /\ nic' \in Queues /\ done' \in Queues
      /\ ref' = ref
      /\ stats' = Counted({"wire"}, 0, 0)
      /\ RingsOK'
      /\ Once(B, h) \in Queues
      /\ Joined(nic, Once(B, h), nic') /\ Joined(done', done, Once(B, h))
  BY TransmittedJoins
<1>2. nic \in Queues /\ done \in Queues
  BY DEF QueuesOK
<1> HIDE DEF h, B
<1>3. ASSUME NEW x \in Mbufs
      PROVE  Spare(x)' = Spare(x)
  <2>1. /\ Uses(x, nic) = Uses(x, Once(B, h)) + Uses(x, nic')
        /\ Uses(x, nic') \in Nat /\ Uses(x, Once(B, h)) \in Nat
    BY <1>1, <1>2, JoinedUses
  <2>2. /\ Uses(x, done') = Uses(x, done) + Uses(x, Once(B, h))
        /\ Uses(x, done) \in Nat
    BY <1>1, <1>2, JoinedUses
  <2>3. Uses(x, tx) \in Nat
    BY PlacesFacts, FS_Subset, FS_CardinalityType DEF QueuesOK, Uses
  <2>4. ref[x] \in Int
    BY DEF QueuesOK
  <2>5. Spare(x)' = ref[x] - Uses(x, tx) - Uses(x, nic') - Uses(x, done')
    BY <1>1 DEF Spare, Uses, Places
  <2>6. ref[x] - Uses(x, tx) - Uses(x, nic') - Uses(x, done')
          = ref[x] - Uses(x, tx) - Uses(x, nic) - Uses(x, done)
    BY <2>1, <2>2, <2>3, <2>4
  <2> QED
    BY <2>5, <2>6 DEF Spare
<1>4. QueuesOK'
  <2>1. stats' \in [Counters -> 0 .. CounterMod - 1]
    BY <1>1, CountedType
  <2> QED
    BY <1>1, <2>1 DEF QueuesOK
<1> QED
  BY <1>3, <1>4

-----------------------------------------------------------------------------
(* How often the store holds a buffer.                                     *)

Held(m, s) == Cardinality({k \in DOMAIN s : s[k].mbuf = m})

LEMMA HeldType ==
  ASSUME NEW s \in Seq(Cs!Packet), NEW m
  PROVE  /\ IsFiniteSet({k \in DOMAIN s : s[k].mbuf = m})
         /\ Held(m, s) \in Nat
<1>1. IsFiniteSet(DOMAIN s)
  BY LenProperties, FS_Interval
<1> QED
  BY <1>1, FS_Subset, FS_CardinalityType DEF Held

LEMMA HeldAppend ==
  ASSUME NEW s \in Seq(Cs!Packet), NEW p \in Cs!Packet, NEW m
  PROVE  Held(m, Append(s, p)) = Held(m, s) + (IF m = p.mbuf THEN 1 ELSE 0)
<1> DEFINE S == {k \in DOMAIN s : s[k].mbuf = m}
           T == {k \in DOMAIN Append(s, p) : Append(s, p)[k].mbuf = m}
           e == Len(s) + 1
<1>1. /\ Len(s) \in Nat /\ DOMAIN s = 1 .. Len(s)
      /\ DOMAIN Append(s, p) = 1 .. e
      /\ \A k \in 1 .. Len(s) : Append(s, p)[k] = s[k]
      /\ Append(s, p)[e] = p
  BY AppendProperties, LenProperties
<1>2. \A k : k \in 1 .. e <=> k \in 1 .. Len(s) \/ k = e
  BY <1>1
<1>3. e \notin S /\ T = IF m = p.mbuf THEN S \cup {e} ELSE S
  BY <1>1, <1>2
<1>4. IsFiniteSet(S) /\ Cardinality(S) \in Nat
  BY HeldType, FS_CardinalityType
<1> HIDE DEF S, T, e
<1>5. Cardinality(T) = Cardinality(S) + (IF m = p.mbuf THEN 1 ELSE 0)
  <2>1. Cardinality(S \cup {e})
          = IF e \in S THEN Cardinality(S) ELSE Cardinality(S) + 1
    BY <1>4, FS_AddElement
  <2> QED
    BY <1>3, <1>4, <2>1
<1> QED
  BY <1>5 DEF Held, S, T

LEMMA HeldTail ==
  ASSUME NEW s \in Seq(Cs!Packet), s # <<>>, NEW m
  PROVE  Held(m, Tail(s)) = Held(m, s) - (IF m = Head(s).mbuf THEN 1 ELSE 0)
<1> DEFINE t == Tail(s)
           S == {k \in DOMAIN s : s[k].mbuf = m}
           T == {k \in DOMAIN t : t[k].mbuf = m}
           shift == [k \in T |-> k + 1]
<1>1. /\ Len(s) \in Nat \ {0} /\ DOMAIN s = 1 .. Len(s)
      /\ DOMAIN t = 1 .. Len(s) - 1
      /\ \A k \in 1 .. Len(s) - 1 : t[k] = s[k + 1]
      /\ Head(s) = s[1]
  OBVIOUS
<1>2. \A k : k \in S \ {1} => k - 1 \in T /\ (k - 1) + 1 = k
  BY <1>1
<1>3. \A k \in T : k + 1 \in S \ {1} /\ k \in Int
  BY <1>1
<1>4. shift \in Bijection(T, S \ {1})
  <2>1. shift \in [T -> S \ {1}]
    BY <1>3
  <2>2. \A k \in S \ {1} : \E j \in T : shift[j] = k
    BY <1>2
  <2>3. \A j, k \in T : shift[j] = shift[k] => j = k
    BY <1>3
  <2> QED
    BY <2>1, <2>2, <2>3 DEF Bijection, Injection, Surjection, IsInjective
<1>5. IsFiniteSet(S) /\ IsFiniteSet(T) /\ Cardinality(S) \in Nat
  <2>1. t \in Seq(Cs!Packet)
    BY HeadTailProperties
  <2> QED
    BY <2>1, HeldType, FS_CardinalityType
<1>6. 1 \in S <=> m = Head(s).mbuf
  BY <1>1
<1> HIDE DEF S, T, shift
<1>7. Cardinality(S \ {1}) = Cardinality(T)
  BY <1>4, <1>5, FS_Bijection DEF ExistsBijection
<1>8. Cardinality(S \ {1}) = Cardinality(S) - (IF 1 \in S THEN 1 ELSE 0)
  <2>1. Cardinality(S \ {1})
          = IF 1 \in S THEN Cardinality(S) - 1 ELSE Cardinality(S)
    BY <1>5, FS_RemoveElement
  <2> QED
    BY <1>5, <2>1
<1> QED
  BY <1>6, <1>7, <1>8 DEF Held, S, T

\* What enters the store is one reference more, what leaves it one less.
LEMMA StoreCounts ==
  ASSUME store \in Seq(Cs!Packet), Len(store) <= Capacity,
         NEW n \in Names, NEW m \in Mbufs, Cs!Store(n, m)
  PROVE  /\ store' \in Seq(Cs!Packet) /\ Len(store') <= Capacity
         /\ csret'.freed \in Mbufs \cup {NoMbuf}
         /\ \A x \in Mbufs :
              Held(x, store') = Held(x, store) + (IF x = m THEN 1 ELSE 0)
                                  - (IF x = csret'.freed THEN 1 ELSE 0)
         /\ \A k \in DOMAIN store' :
              \/ store'[k].name = n
              \/ \E j \in DOMAIN store : store[j].name = store'[k].name
<1> DEFINE new == [name |-> n, mbuf |-> m]
<1>1. /\ new \in Cs!Packet /\ new.mbuf = m /\ new.name = n
      /\ Capacity \in Nat \ {0} /\ Len(store) \in Nat
  BY SizesAssumption DEF Cs!Packet
<1> HIDE DEF new
<1>2. CASE Len(store) = Capacity
  <2>1. store' = Append(Tail(store), new) /\ csret'.freed = Head(store).mbuf
    BY <1>2 DEF Cs!Store, Cs!Answer, new
  <2>2. store # <<>> /\ Head(store) \in Cs!Packet
    BY <1>1, <1>2
  <2>3. /\ Tail(store) \in Seq(Cs!Packet) /\ Len(Tail(store)) = Len(store) - 1
        /\ store' \in Seq(Cs!Packet) /\ Len(store') = Len(store)
    BY <1>1, <2>1, <2>2, HeadTailProperties, AppendProperties
  <2>4. csret'.freed \in Mbufs
    BY <2>1, <2>2 DEF Cs!Packet
  <2>5. ASSUME NEW x \in Mbufs
        PROVE  Held(x, store') = Held(x, store) + (IF x = m THEN 1 ELSE 0)
                                   - (IF x = csret'.freed THEN 1 ELSE 0)
    <3>1. Held(x, store') = Held(x, Tail(store)) + (IF x = m THEN 1 ELSE 0)
      BY <1>1, <2>1, <2>3, HeldAppend
    <3>2. Held(x, Tail(store))
            = Held(x, store) - (IF x = csret'.freed THEN 1 ELSE 0)
      BY <2>1, <2>2, HeldTail
    <3>3. Held(x, store) \in Nat
      BY HeldType
    <3> QED
      BY <3>1, <3>2, <3>3
  <2>6. \A k \in DOMAIN store' : store'[k] = new \/ \E j \in DOMAIN store : store[j] = store'[k]
    <3> SUFFICES ASSUME NEW k \in DOMAIN store', store'[k] # new
                 PROVE  k + 1 \in DOMAIN store /\ store[k + 1] = store'[k]
      BY Zenon
    <3>1. k \in 1 .. Len(store) - 1
      BY <1>1, <2>1, <2>3
    <3> QED
      BY <1>1, <2>1, <2>2, <2>3, <3>1
  <2> QED
    BY <1>1, <1>2, <2>3, <2>4, <2>5, <2>6
<1>3. CASE Len(store) # Capacity
  <2>1. store' = Append(store, new) /\ csret'.freed = NoMbuf
    BY <1>3 DEF Cs!Store, Cs!Answer, new
  <2>2. /\ store' \in Seq(Cs!Packet) /\ Len(store') = Len(store) + 1
        /\ Len(store') <= Capacity
    BY <1>1, <1>3, <2>1, AppendProperties
  <2>3. ASSUME NEW x \in Mbufs
        PROVE  Held(x, store') = Held(x, store) + (IF x = m THEN 1 ELSE 0)
                                   - (IF x = csret'.freed THEN 1 ELSE 0)
    <3>1. x # csret'.freed /\ Held(x, store) \in Nat
      BY <2>1, PoolAssumption, HeldType
    <3>2. Held(x, store') = Held(x, store) + (IF x = m THEN 1 ELSE 0)
      BY <1>1, <2>1, HeldAppend
    <3> QED
      BY <3>1, <3>2
  <2>4. \A k \in DOMAIN store' : store'[k] = new \/ \E j \in DOMAIN store : store[j] = store'[k]
    BY <1>1, <2>1, <2>2
  <2> QED
    BY <1>1, <2>1, <2>2, <2>3, <2>4
<1> QED
  BY <1>2, <1>3

-----------------------------------------------------------------------------
(* The references that nothing accounts for.                               *)

StoreOK == store \in Seq(Cs!Packet) /\ Len(store) <= Capacity

\* References to m that others have: another lcore, or the CS that refused it.
Owed(m) == (IF m \in lent THEN 1 ELSE 0) + (IF m \in lost THEN 1 ELSE 0)

\* References to m beyond all those.
Excess(m) == Spare(m) - Held(m, store) - Owed(m)
NoExcess  == \A m \in Mbufs : Excess(m) = 0

LEMMA CountsAreNumbers ==
  ASSUME QueuesOK, StoreOK, NEW m \in Mbufs
  PROVE  /\ Uses(m, tx) \in Nat /\ Uses(m, nic) \in Nat /\ Uses(m, done) \in Nat
         /\ Held(m, store) \in Nat /\ Owed(m) \in 0 .. 2
         /\ ref[m] \in Int /\ Spare(m) \in Int
<1>1. Uses(m, tx) \in Nat /\ Uses(m, nic) \in Nat /\ Uses(m, done) \in Nat
  BY PlacesFacts, FS_Subset, FS_CardinalityType DEF QueuesOK, Uses
<1>2. Held(m, store) \in Nat
  BY HeldType DEF StoreOK
<1>3. ref[m] \in Int
  BY DEF QueuesOK
<1>4. Spare(m) \in Int
  BY <1>1, <1>3 DEF Spare
<1>5. Owed(m) \in 0 .. 2
  BY DEF Owed
<1> QED
  BY <1>1, <1>2, <1>3, <1>4, <1>5

\* A step that leaves m's account as it was.
Balanced(m) == Spare(m)' - Held(m, store') - Owed(m)' = Excess(m)

\* One that adds to spare references only what it stores, or owes.
LEMMA BalancedWhen ==
  ASSUME QueuesOK, StoreOK, NEW m \in Mbufs, UNCHANGED <<store, lent, lost>>,
         Spare(m)' = Spare(m)
  PROVE  Balanced(m)
<1>1. Owed(m)' = Owed(m)
  BY DEF Owed
<1> QED
  BY <1>1 DEF Balanced, Excess

\* A lookup of the CS returns a stored buffer, or tells that none is stored.
LEMMA FindFacts ==
  ASSUME StoreOK, NEW n \in Names, Cs!Find(n)
  PROVE  /\ store' = store
         /\ csret'.mbuf # NoMbuf => csret'.mbuf \in Mbufs
         /\ csret'.mbuf = NoMbuf => \A k \in DOMAIN store : store[k].name # n
<1>1. \A k \in DOMAIN store : store[k] \in Cs!Packet
  BY ElementOfSeq, LenProperties DEF StoreOK
<1>2. CASE Cs!Copies(n) = {}
  <2>1. \A k \in DOMAIN store : store[k].name # n
    BY <1>2 DEF Cs!Copies, Cs!Stored
  <2>2. csret'.mbuf = NoMbuf /\ store' = store
    BY <1>2 DEF Cs!Find, Cs!Answer
  <2> QED
    BY <2>1, <2>2
<1>3. CASE Cs!Copies(n) # {}
  <2>1. PICK p \in Cs!Copies(n) : csret'.mbuf = p.mbuf
    BY <1>3 DEF Cs!Find, Cs!Answer
  <2>2. p.mbuf \in Mbufs /\ p.mbuf # NoMbuf
    BY <1>1, <2>1, PoolAssumption DEF Cs!Copies, Cs!Stored, Cs!Packet
  <2> QED
    BY <2>1, <2>2 DEF Cs!Find
<1> QED
  BY <1>2, <1>3

\* Handlers that free what they received, and those that send one packet.
LEMMA FreeReceivedAccounts ==
  ASSUME QueuesOK, StoreOK, NEW c, FreeReceived(c), store' = store
  PROVE  QueuesOK' /\ \A m \in Mbufs : Balanced(m)
<1>1. stats' \in [Counters -> 0 .. CounterMod - 1]
  BY CountedType DEF FreeReceived
<1>2. \A m \in Mbufs : Spare(m)' = Spare(m)
  BY DEF FreeReceived, Spare, Uses, Places
<1>3. \A m \in Mbufs : Balanced(m)
  BY <1>2, BalancedWhen DEF FreeReceived
<1> QED
  BY <1>1, <1>3 DEF QueuesOK, RingsOK, FreeReceived

LEMMA SendOneAccounts ==
  ASSUME QueuesOK, StoreOK, NEW p \in Faces, NEW m \in Mbufs, NEW c, NEW n \in Int,
         Send({p}, m, One(m), c, n), UNCHANGED <<store, lent, lost>>
  PROVE  QueuesOK' /\ \A x \in Mbufs : Balanced(x)
<1>1. /\ One(m) \in [Mbufs -> Int]
      /\ \A x \in Mbufs : One(m)[x] = IF x = m THEN 1 ELSE 0
  BY DEF One
<1>2. Cardinality({p}) = 1 /\ {p} \in SUBSET Faces
  BY FS_Singleton
<1>3. /\ QueuesOK'
      /\ \A x \in Mbufs : Spare(x)' = Spare(x) + One(m)[x]
                                        - (IF x = m THEN 1 ELSE 0)
  BY <1>1, <1>2, SendKeeps
<1>4. ASSUME NEW x \in Mbufs
      PROVE  Balanced(x)
  <2>1. Spare(x) \in Int
    BY CountsAreNumbers
  <2>2. Spare(x)' = Spare(x) + One(m)[x] - (IF x = m THEN 1 ELSE 0)
    BY <1>3
  <2>3. Spare(x)' = Spare(x)
    BY <1>1, <2>1, <2>2
  <2> QED
    BY <2>3, BalancedWhen
<1> QED
  BY <1>3, <1>4

LEMMA InterestCsHitAccounts ==
  ASSUME QueuesOK, StoreOK, NEW p \in Faces, NEW n \in Names, InterestCsHit(p, n)
  PROVE  QueuesOK' /\ StoreOK' /\ \A m \in Mbufs : Balanced(m)
<1>1. store' = store /\ csret'.mbuf \in Mbufs
  BY FindFacts DEF InterestCsHit
<1>2. QueuesOK' /\ \A m \in Mbufs : Balanced(m)
  BY <1>1, SendOneAccounts DEF InterestCsHit
<1> QED
  BY <1>1, <1>2 DEF StoreOK

LEMMA InterestForwardedAccounts ==
  ASSUME QueuesOK, StoreOK, NEW p \in Faces, NEW n \in Names, NEW q \in Faces,
         InterestForwarded(p, n, q)
  PROVE  QueuesOK' /\ StoreOK' /\ \A m \in Mbufs : Balanced(m)
<1>1. store' = store
  BY FindFacts DEF InterestForwarded, CsMiss
<1>2. PICK m \in Mbufs : /\ Send({q}, m, One(m), {"int_recv", "int_fib_hit"}, 0)
                         /\ UNCHANGED <<lent, lost>>
  BY DEF InterestForwarded, FreeMbufs
<1>3. QueuesOK' /\ \A x \in Mbufs : Balanced(x)
  BY <1>1, <1>2, SendOneAccounts
<1> QED
  BY <1>1, <1>3 DEF StoreOK

\* A buffer in the pool is nobody's.
LEMMA FreeIsUnowed ==
  ASSUME QueuesOK, StoreOK, NoExcess, NEW m \in Mbufs, ref[m] = 0
  PROVE  /\ Uses(m, tx) = 0 /\ Uses(m, nic) = 0 /\ Uses(m, done) = 0
         /\ Held(m, store) = 0 /\ Owed(m) = 0 /\ m \notin lent /\ m \notin lost
<1>1. 0 - Uses(m, tx) - Uses(m, nic) - Uses(m, done) - Held(m, store) - Owed(m) = 0
  BY DEF NoExcess, Excess, Spare
<1>2. /\ Uses(m, tx) = 0 /\ Uses(m, nic) = 0 /\ Uses(m, done) = 0
      /\ Held(m, store) = 0 /\ Owed(m) = 0
  BY <1>1, CountsAreNumbers
<1> QED
  BY <1>2 DEF Owed

LEMMA DataAccounts ==
  ASSUME QueuesOK, StoreOK, NoExcess, NEW n \in Names, Data(n),
         pending \in [DOMAIN pending -> SUBSET Faces]
  PROVE  QueuesOK' /\ StoreOK' /\ \A x \in Mbufs : Balanced(x)
<1> DEFINE F == IF n \in DOMAIN pending THEN pending[n] ELSE {}
           evicted == csret'.freed
           gain(m) == [x \in Mbufs |-> (1 + Cardinality(F)) * One(m)[x]
                                         - (IF x = evicted THEN 1 ELSE 0)]
<1>1. PICK m \in FreeMbufs :
        /\ \/ Cs!Store(n, m) /\ lost' = lost
           \/ Cs!Refuse(n) /\ lost' = lost \cup {m}
        /\ Send(F, m, gain(m),
                IF F = {} THEN {"data_recv", "data_pit_miss"} ELSE {"data_recv"},
                Cardinality(F))
        /\ UNCHANGED lent
  BY DEF Data
<1> DEFINE g == gain(m)
<1>2. F \in SUBSET Faces /\ m \in Mbufs /\ m \notin lost
  BY FreeIsUnowed DEF FreeMbufs
<1> HIDE DEF F
<1>3. IsFiniteSet(F) /\ Cardinality(F) \in Nat
  BY <1>2, FacesAssumption, FS_Subset, FS_CardinalityType
<1>4. \A x \in Mbufs : /\ g[x] = (IF x = m THEN 1 + Cardinality(F) ELSE 0)
                                   - (IF x = evicted THEN 1 ELSE 0)
                       /\ g[x] \in Int
  BY <1>3 DEF One
<1>5. g \in [Mbufs -> Int]
  BY <1>4
<1> HIDE DEF g, evicted
<1>6. /\ QueuesOK'
      /\ \A x \in Mbufs :
           Spare(x)' = Spare(x) + g[x] - (IF x = m THEN Cardinality(F) ELSE 0)
  <2>1. \E c : Send(F, m, g, c, Cardinality(F))
    BY <1>1 DEF g
  <2> QED
    BY <1>2, <1>3, <1>5, <2>1, SendKeeps
<1>7. ASSUME NEW x \in Mbufs
      PROVE  /\ Spare(x)' = Spare(x) + (IF x = m THEN 1 ELSE 0)
                              - (IF x = evicted THEN 1 ELSE 0)
             /\ Spare(x) \in Int /\ Held(x, store) \in Nat /\ Owed(x) \in Int
  <2>1. Spare(x) \in Int /\ Held(x, store) \in Nat /\ Owed(x) \in Int
    BY CountsAreNumbers
  <2>2. Spare(x)' = Spare(x) + g[x] - (IF x = m THEN Cardinality(F) ELSE 0)
    BY <1>6
  <2> QED
    BY <1>3, <1>4, <2>1, <2>2
<1>8. CASE Cs!Store(n, m) /\ lost' = lost
  <2>1. /\ StoreOK'
        /\ \A x \in Mbufs :
             Held(x, store') = Held(x, store) + (IF x = m THEN 1 ELSE 0)
                                 - (IF x = evicted THEN 1 ELSE 0)
    BY <1>2, <1>8, StoreCounts DEF StoreOK, evicted
  <2>2. ASSUME NEW x \in Mbufs
        PROVE  Balanced(x)
    <3>1. Spare(x)' - Held(x, store') = Spare(x) - Held(x, store)
      BY <1>7, <2>1
    <3>2. Owed(x)' = Owed(x)
      BY <1>1, <1>8 DEF Owed
    <3> QED
      BY <3>1, <3>2 DEF Balanced, Excess
  <2> QED
    BY <1>6, <2>1, <2>2
<1>9. CASE Cs!Refuse(n) /\ lost' = lost \cup {m}
  <2>1. store' = store /\ evicted = NoMbuf
    BY <1>9 DEF Cs!Refuse, Cs!Answer, evicted
  <2>2. ASSUME NEW x \in Mbufs
        PROVE  Balanced(x)
    <3>1. Spare(x)' = Spare(x) + (IF x = m THEN 1 ELSE 0)
      BY <1>7, <2>1, PoolAssumption
    <3>2. Owed(x)' = Owed(x) + (IF x = m THEN 1 ELSE 0)
      BY <1>1, <1>2, <1>9 DEF Owed
    <3>3. Spare(x)' - Held(x, store') - Owed(x)' = Spare(x) - Held(x, store) - Owed(x)
      BY <1>7, <2>1, <3>1, <3>2
    <3> QED
      BY <3>3 DEF Balanced, Excess
  <2> QED
    BY <1>6, <2>1, <2>2 DEF StoreOK
<1> QED
  BY <1>1, <1>8, <1>9

LEMMA DrainAccounts ==
  ASSUME QueuesOK, StoreOK, Drain
  PROVE  QueuesOK' /\ StoreOK' /\ \A x \in Mbufs : Balanced(x)
<1> DEFINE B == {p \in Faces : tx[p] # <<>>}
           g == [m \in Mbufs |-> 0]
<1>1. Transmit(tx, B, g, {}, 0) /\ UNCHANGED <<store, lent, lost>>
  BY DEF Drain
<1>2. B \in SUBSET Faces /\ g \in [Mbufs -> Int] /\ \A x \in Mbufs : g[x] = 0
  OBVIOUS
<1> HIDE DEF B, g
<1>3. /\ QueuesOK'
      /\ \A x \in Mbufs : Spare(x)' = Spare(x) + g[x] + Uses(x, tx) - Uses(x, tx)
  <2>1. tx \in Queues
    BY DEF QueuesOK
  <2> QED
    BY <1>1, <1>2, <2>1, TransmitKeeps
<1>4. ASSUME NEW x \in Mbufs
      PROVE  Balanced(x)
  <2>1. Spare(x) \in Int /\ Uses(x, tx) \in Nat
    BY CountsAreNumbers
  <2>2. Spare(x)' = Spare(x) + g[x] + Uses(x, tx) - Uses(x, tx) /\ g[x] = 0
    BY <1>2, <1>3
  <2>3. Spare(x)' = Spare(x)
    BY <2>1, <2>2
  <2> QED
    BY <1>1, <2>3, BalancedWhen
<1> QED
  BY <1>1, <1>3, <1>4 DEF StoreOK

LEMMA TransmittedAccounts ==
  ASSUME QueuesOK, StoreOK, NEW p \in Faces, Transmitted(p)
  PROVE  QueuesOK' /\ StoreOK' /\ \A x \in Mbufs : Balanced(x)
<1>1. QueuesOK' /\ \A x \in Mbufs : Spare(x)' = Spare(x)
  BY TransmittedKeeps
<1>2. UNCHANGED <<store, lent, lost>>
  BY DEF Transmitted
<1>3. \A x \in Mbufs : Balanced(x)
  BY <1>1, <1>2, BalancedWhen
<1> QED
  BY <1>1, <1>2, <1>3 DEF StoreOK

\* A buffer that another lcore takes or gives back has no other holder.
LEMMA SharedAccounts ==
  ASSUME QueuesOK, StoreOK, NoExcess, NEW m \in Mbufs, Shared(m)
  PROVE  QueuesOK' /\ StoreOK' /\ \A x \in Mbufs : Balanced(x)
<1>1. /\ UNCHANGED <<store, tx, nic, done, lost, stats>>
      /\ \/ /\ m \in FreeMbufs
            /\ lent' = lent \cup {m} /\ ref' = [ref EXCEPT ![m] = 1]
         \/ /\ m \in lent
            /\ lent' = lent \ {m} /\ ref' = [ref EXCEPT ![m] = ref[m] - 1]
  BY DEF Shared
<1>2. QueuesOK' /\ StoreOK'
  <2>1. ref' \in [Mbufs -> Int]
    BY <1>1 DEF QueuesOK
  <2> QED
    BY <1>1, <2>1 DEF QueuesOK, RingsOK, StoreOK
<1>3. ASSUME NEW x \in Mbufs
      PROVE  Balanced(x)
  <2> DEFINE owed == Owed(x)'
  <2>1. ref'[x] - owed = ref[x] - Owed(x) /\ ref'[x] \in Int /\ owed \in Int
    <3>1. ref[x] \in Int /\ ref[m] \in Int
      BY DEF QueuesOK
    <3>2. CASE x # m
      BY <1>1, <3>1, <3>2 DEF QueuesOK, Owed
    <3>3. CASE x = m /\ m \in FreeMbufs /\ lent' = lent \cup {m}
                 /\ ref' = [ref EXCEPT ![m] = 1]
      <4>1. ref[m] = 0 /\ m \notin lent /\ m \notin lost
        BY <3>3, FreeIsUnowed DEF FreeMbufs
      <4>2. m \in lent' /\ m \notin lost' /\ ref'[m] = 1
        BY <1>1, <3>3, <4>1 DEF QueuesOK
      <4>3. Owed(m) = 0 /\ Owed(m)' = 1
        BY <4>1, <4>2 DEF Owed
      <4> QED
        BY <3>3, <4>1, <4>2, <4>3
    <3>4. CASE x = m /\ m \in lent /\ lent' = lent \ {m}
                 /\ ref' = [ref EXCEPT ![m] = ref[m] - 1]
      BY <1>1, <3>1, <3>4 DEF QueuesOK, Owed
    <3> QED
      BY <1>1, <3>2, <3>3, <3>4
  <2>2. /\ ref[x] \in Int /\ Uses(x, tx) \in Nat /\ Uses(x, nic) \in Nat
        /\ Uses(x, done) \in Nat /\ Held(x, store) \in Nat /\ Owed(x) \in Int
    BY CountsAreNumbers
  <2>3. Spare(x)' = ref'[x] - Uses(x, tx) - Uses(x, nic) - Uses(x, done)
    BY <1>1 DEF Spare, Uses, Places
  <2> HIDE DEF owed
  <2>4. ref'[x] - Uses(x, tx) - Uses(x, nic) - Uses(x, done) - Held(x, store) - owed
          = ref[x] - Uses(x, tx) - Uses(x, nic) - Uses(x, done) - Held(x, store)
              - Owed(x)
    BY <2>1, <2>2
  <2> QED
    BY <1>1, <2>3, <2>4 DEF Balanced, Excess, Spare, owed
<1> QED
  BY <1>2, <1>3

LEMMA StepAccounts ==
  ASSUME QueuesOK, StoreOK, NoExcess, Next,
         pending \in [DOMAIN pending -> SUBSET Faces]
  PROVE  QueuesOK' /\ StoreOK' /\ \A x \in Mbufs : Balanced(x)
<1>1. ASSUME NEW c, FreeReceived(c), store' = store
      PROVE  QueuesOK' /\ StoreOK' /\ \A x \in Mbufs : Balanced(x)
  BY <1>1, FreeReceivedAccounts DEF StoreOK
<1>2. CASE Malformed
  BY <1>1, <1>2 DEF Malformed
<1>3. ASSUME NEW n \in Names, NEW p \in Faces,
             \/ InterestAggregated(p, n) \/ InterestRefused(p, n)
             \/ InterestNoRoute(p, n) \/ InterestLoop(p, n)
      PROVE  QueuesOK' /\ StoreOK' /\ \A x \in Mbufs : Balanced(x)
  <2>1. CsMiss(n) /\ \E c : FreeReceived(c)
    BY <1>3 DEF InterestAggregated, InterestRefused, InterestNoRoute,
                InterestLoop, InterestUnroutable
  <2> QED
    BY <1>1, <2>1, FindFacts DEF CsMiss
<1> QED
  BY <1>2, <1>3, DataAccounts, InterestCsHitAccounts, InterestForwardedAccounts,
     DrainAccounts, TransmittedAccounts, SharedAccounts
  DEF Next, Receive

-----------------------------------------------------------------------------
(* The inductive invariant.                                                *)

\* Every reference has its holder, a transmit ring never holds more than it
\* has descriptors, nor the store more than its capacity, and no pending name
\* is cached.
Consistent ==
  /\ TypeOK
  /\ Len(store) <= Capacity
  /\ RingsOK
  /\ ReferencesAccounted
  /\ PendingNotCached

\* What TypeOK says of PIT, headers and other lcores.
MapsOK == /\ pending \in [DOMAIN pending -> SUBSET Faces]
          /\ DOMAIN pending \subseteq Names
          /\ mac \in [Mbufs -> Faces]
LentOK == lent \subseteq Mbufs /\ lost \subseteq Mbufs

LEMMA HoldersSum ==
  ASSUME QueuesOK, StoreOK, NEW m \in Mbufs
  PROVE  ref[m] = Holders(m) + (IF m \in lost THEN 1 ELSE 0) <=> Excess(m) = 0
<1>1. Holders(m) = Held(m, store) + Uses(m, tx) + Uses(m, nic) + Uses(m, done)
                     + (IF m \in lent THEN 1 ELSE 0)
  BY DEF Holders, Held
<1>2. Excess(m) = ref[m] - Uses(m, tx) - Uses(m, nic) - Uses(m, done)
                    - Held(m, store) - ((IF m \in lent THEN 1 ELSE 0)
                                        + (IF m \in lost THEN 1 ELSE 0))
  BY DEF Excess, Spare, Owed
<1>3. /\ Uses(m, tx) \in Nat /\ Uses(m, nic) \in Nat /\ Uses(m, done) \in Nat
      /\ Held(m, store) \in Nat /\ ref[m] \in Int
  BY CountsAreNumbers
<1> QED
  BY <1>1, <1>2, <1>3

LEMMA ConsistentParts ==
  ASSUME Consistent
  PROVE  QueuesOK /\ StoreOK /\ MapsOK /\ LentOK /\ NoExcess
<1>1. QueuesOK /\ StoreOK /\ LentOK
  BY DEF Consistent, TypeOK, QueuesOK, StoreOK, LentOK, Queues
<1>2. MapsOK
  <2>1. PICK S \in SUBSET Names : pending \in [S -> SUBSET Faces]
    BY DEF Consistent, TypeOK
  <2>2. DOMAIN pending = S
    BY <2>1
  <2> QED
    BY <2>1, <2>2 DEF Consistent, TypeOK, MapsOK
<1>3. NoExcess
  BY <1>1, HoldersSum DEF Consistent, ReferencesAccounted, NoExcess
<1> QED
  BY <1>1, <1>2, <1>3

\* The other way round.
Parts == QueuesOK /\ StoreOK /\ MapsOK /\ LentOK /\ NoExcess /\ PendingNotCached

LEMMA PartsConsistent == Parts => Consistent
<1> SUFFICES ASSUME Parts
             PROVE  Consistent
  OBVIOUS
<1> USE DEF Parts
<1>1. ReferencesAccounted
  BY HoldersSum DEF ReferencesAccounted, NoExcess
<1>2. \A m \in Mbufs : ref[m] \in Nat
  <2> SUFFICES ASSUME NEW m \in Mbufs
               PROVE  ref[m] \in Nat
    OBVIOUS
  <2>1. ref[m] - Uses(m, tx) - Uses(m, nic) - Uses(m, done) - Held(m, store)
          - Owed(m) = 0
    BY DEF NoExcess, Excess, Spare
  <2> QED
    BY <2>1, CountsAreNumbers
<1>3. ref \in [Mbufs -> Nat]
  BY <1>2 DEF QueuesOK
<1>4. pending \in UNION {[S -> SUBSET Faces] : S \in SUBSET Names}
  BY DEF MapsOK
<1>5. TypeOK
  BY <1>3, <1>4 DEF TypeOK, QueuesOK, StoreOK, MapsOK, LentOK, Queues
<1> QED
  BY <1>1, <1>5 DEF Consistent, QueuesOK, StoreOK, LentOK

LEMMA PartsConsistentNext == Parts' => Consistent'
BY PartsConsistent, PTL

\* A set of faces has a largest one, the one whose header Data is sent with.
LEMMA LargestFace ==
  ASSUME NEW F \in SUBSET Faces, F # {}
  PROVE  (CHOOSE p \in F : \A r \in F : r <= p) \in F
<1> DEFINE Largest(X) == \E p \in X : \A r \in X : r <= p
           Order == StrictSubsetOrdering(Faces)
           Bad   == {X \in SUBSET Faces : X # {} /\ ~Largest(X)}
<1>1. IsWellFoundedOn(Order, SUBSET Faces)
  BY FacesAssumption, FS_StrictSubsetOrderingWellFounded, FS_FiniteSubsetsOfFinite
<1>2. ASSUME Bad # {}
      PROVE  FALSE
  <2>1. Bad \subseteq SUBSET Faces
    OBVIOUS
  <2> HIDE DEF Bad, Order
  <2>2. PICK X \in Bad : \A Y \in Bad : ~(<<Y, X>> \in Order)
    BY <1>1, <1>2, <2>1, WFMin
  <2> USE DEF Bad, Order
  <2>3. X \subseteq Nat
    BY FacesAssumption
  <2>4. PICK p \in X : TRUE
    OBVIOUS
  <2>5. PICK r \in X : ~(r <= p)
    BY DEF Largest
  <2>6. X \ {p} \in SUBSET Faces /\ X \ {p} # {} /\ <<X \ {p}, X>> \in Order
    <3>1. r # p
      BY <2>3, <2>5
    <3> QED
      BY <3>1 DEF StrictSubsetOrdering
  <2>7. Largest(X \ {p})
    BY <2>2, <2>6
  <2>8. PICK l \in X \ {p} : \A x \in X \ {p} : x <= l
    BY <2>7
  <2>9. \A x \in X : x <= l
    <3>1. r \in X \ {p} /\ r <= l
      BY <2>3, <2>5, <2>8
    <3> QED
      BY <2>3, <2>5, <2>8, <3>1
  <2> QED
    BY <2>8, <2>9
<1>3. Largest(F)
  BY <1>2
<1> QED
  BY <1>3

LEMMA InitConsistent == Init => Consistent
<1> SUFFICES ASSUME Init
             PROVE  Consistent
  OBVIOUS
<1>1. store = <<>> /\ pending = [n \in {} |-> {}]
  BY DEF Init, Cs!Init, Pit!Init
<1>2. StoreOK
  BY <1>1, SizesAssumption DEF StoreOK
<1>3. MapsOK /\ LentOK
  <2>1. (CHOOSE p \in Faces : TRUE) \in Faces
    BY FacesAssumption
  <2> QED
    BY <1>1, <2>1 DEF MapsOK, LentOK, Init
<1>4. QueuesOK
  BY SizesAssumption DEF QueuesOK, RingsOK, Queues, Init
<1>5. ASSUME NEW m \in Mbufs
      PROVE  Excess(m) = 0
  <2>1. \A q \in {tx, nic, done} : Places(q) = {}
    BY DEF Init, Places
  <2>2. Uses(m, tx) = 0 /\ Uses(m, nic) = 0 /\ Uses(m, done) = 0
    BY <2>1, FS_EmptySet DEF Uses
  <2>3. Held(m, store) = 0
    BY <1>1, FS_EmptySet DEF Held
  <2>4. ref[m] = 0 /\ Owed(m) = 0
    BY DEF Init, Owed
  <2> QED
    BY <2>2, <2>3, <2>4 DEF Excess, Spare
<1>6. PendingNotCached
  BY <1>1 DEF PendingNotCached
<1> QED
  BY <1>2, <1>3, <1>4, <1>5, <1>6, PartsConsistent DEF Parts, NoExcess

-----------------------------------------------------------------------------
(* What is cached and pending.                                             *)

NamesOK == MapsOK /\ PendingNotCached

\* A handler that makes no new name pending, and caches none.
LEMMA NoNewNames ==
  ASSUME NamesOK, store' = store, mac' \in [Mbufs -> Faces],
         pending' \in [DOMAIN pending' -> SUBSET Faces],
         DOMAIN pending' \subseteq DOMAIN pending
  PROVE  NamesOK'
<1>1. MapsOK'
  BY DEF NamesOK, MapsOK
<1>2. PendingNotCached'
  BY DEF NamesOK, PendingNotCached
<1> QED
  BY <1>1, <1>2 DEF NamesOK

LEMMA WithoutFacts ==
  ASSUME NEW map, map \in [DOMAIN map -> SUBSET Faces], NEW S
  PROVE  /\ DOMAIN Pit!Without(map, S) = DOMAIN map \ S
         /\ Pit!Without(map, S) \in [DOMAIN Pit!Without(map, S) -> SUBSET Faces]
BY DEF Pit!Without

\* An Interest that is not forwarded makes no name pending.
LEMMA InterestKeepsPending ==
  ASSUME MapsOK, StoreOK, NEW n \in Names, NEW p \in Faces,
         \/ InterestCsHit(p, n) \/ InterestAggregated(p, n)
         \/ InterestRefused(p, n) \/ InterestNoRoute(p, n) \/ InterestLoop(p, n)
  PROVE  /\ store' = store /\ mac' \in [Mbufs -> Faces]
         /\ pending' \in [DOMAIN pending' -> SUBSET Faces]
         /\ DOMAIN pending' \subseteq DOMAIN pending
<1>1. /\ pending \in [DOMAIN pending -> SUBSET Faces] /\ mac \in [Mbufs -> Faces]
      /\ store' = store
  BY FindFacts
  DEF MapsOK, InterestCsHit, InterestAggregated, InterestRefused,
      InterestNoRoute, InterestLoop, InterestUnroutable, CsMiss
<1>2. CASE InterestCsHit(p, n)
  <2>1. mac' \in [Mbufs -> Faces]
    BY <1>1, <1>2, FindFacts DEF InterestCsHit
  <2>2. pending' = pending
    BY <1>2 DEF InterestCsHit
  <2> QED
    BY <1>1, <2>1, <2>2
<1>3. CASE InterestAggregated(p, n)
  <2>1. mac' = mac
    BY <1>3 DEF InterestAggregated, FreeReceived
  <2>2. /\ n \in DOMAIN pending
        /\ pending' = [pending EXCEPT ![n] = pending[n] \cup {p}]
    BY <1>3 DEF InterestAggregated, Pit!Aggregate
  <2>3. pending' \in [DOMAIN pending -> SUBSET Faces]
    BY <1>1, <2>2
  <2> QED
    BY <1>1, <2>1, <2>3
<1>4. CASE InterestRefused(p, n)
  BY <1>1, <1>4 DEF InterestRefused, FreeReceived, Pit!Refuse
<1>5. CASE InterestNoRoute(p, n) \/ InterestLoop(p, n)
  <2>1. /\ mac' = mac /\ n \notin DOMAIN pending
        /\ pending' = Pit!Without(Pit!With(pending, n, p), {n})
    BY <1>5 DEF InterestNoRoute, InterestLoop, InterestUnroutable, FreeReceived
  <2> DEFINE map == Pit!With(pending, n, p)
  <2>2. /\ map \in [DOMAIN map -> SUBSET Faces]
        /\ DOMAIN map = DOMAIN pending \cup {n}
    BY <1>1 DEF Pit!With
  <2> HIDE DEF map
  <2>3. /\ DOMAIN pending' = DOMAIN map \ {n}
        /\ pending' \in [DOMAIN pending' -> SUBSET Faces]
    BY <2>1, <2>2, WithoutFacts DEF map
  <2> QED
    BY <1>1, <2>1, <2>2, <2>3
<1> QED
  BY <1>2, <1>3, <1>4, <1>5

LEMMA InterestForwardedNames ==
  ASSUME NamesOK, StoreOK, NEW n \in Names, NEW p \in Faces, NEW q \in Faces,
         InterestForwarded(p, n, q)
  PROVE  NamesOK'
<1>1. /\ pending \in [DOMAIN pending -> SUBSET Faces]
      /\ DOMAIN pending \subseteq Names /\ mac \in [Mbufs -> Faces]
  BY DEF NamesOK, MapsOK
<1>2. store' = store /\ \A k \in DOMAIN store : store[k].name # n
  BY FindFacts DEF InterestForwarded, CsMiss
<1>3. pending' = Pit!With(pending, n, p) /\ mac' \in [Mbufs -> Faces]
  BY <1>1 DEF InterestForwarded, Pit!Record, FreeMbufs
<1>4. /\ DOMAIN pending' = DOMAIN pending \cup {n}
      /\ pending' \in [DOMAIN pending' -> SUBSET Faces]
  BY <1>1, <1>3 DEF Pit!With
<1>5. MapsOK'
  BY <1>1, <1>3, <1>4 DEF MapsOK
<1>6. PendingNotCached'
  BY <1>2, <1>4 DEF NamesOK, PendingNotCached
<1> QED
  BY <1>5, <1>6 DEF NamesOK

LEMMA DataNames ==
  ASSUME NamesOK, StoreOK, NEW n \in Names, Data(n)
  PROVE  NamesOK' /\ DOMAIN pending' \subseteq DOMAIN pending
<1>1. /\ pending \in [DOMAIN pending -> SUBSET Faces]
      /\ DOMAIN pending \subseteq Names /\ mac \in [Mbufs -> Faces]
  BY DEF NamesOK, MapsOK
<1> DEFINE F == IF n \in DOMAIN pending THEN pending[n] ELSE {}
<1>2. PICK m \in Mbufs :
        /\ Cs!Store(n, m) \/ Cs!Refuse(n)
        /\ mac' = IF F = {} THEN mac
                  ELSE [mac EXCEPT ![m] = CHOOSE p \in F : \A r \in F : r <= p]
  BY DEF Data, FreeMbufs
<1>3. F \in SUBSET Faces
  BY <1>1
<1> HIDE DEF F
<1>4. mac' \in [Mbufs -> Faces]
  <2>1. CASE F = {}
    BY <1>1, <1>2, <2>1
  <2>2. CASE F # {}
    <3>1. (CHOOSE p \in F : \A r \in F : r <= p) \in Faces
      BY <1>3, <2>2, LargestFace
    <3> QED
      BY <1>1, <1>2, <2>2, <3>1
  <2> QED
    BY <2>1, <2>2
<1>5. /\ DOMAIN pending' = DOMAIN pending \ {n}
      /\ pending' \in [DOMAIN pending' -> SUBSET Faces]
  <2>1. pending' = Pit!Without(pending, {n})
    BY DEF Data, Pit!Take
  <2> QED
    BY <1>1, <2>1, WithoutFacts
<1>6. \A k \in DOMAIN store' :
        \/ store'[k].name = n
        \/ \E j \in DOMAIN store : store[j].name = store'[k].name
  BY <1>2, StoreCounts DEF StoreOK, Cs!Refuse
<1>7. MapsOK'
  BY <1>1, <1>4, <1>5 DEF MapsOK
<1>8. PendingNotCached'
  BY <1>5, <1>6 DEF NamesOK, PendingNotCached
<1> QED
  BY <1>5, <1>7, <1>8 DEF NamesOK

LEMMA DrainNames ==
  ASSUME NamesOK, Drain
  PROVE  NamesOK' /\ DOMAIN pending' \subseteq DOMAIN pending
<1>1. pending \in [DOMAIN pending -> SUBSET Faces] /\ mac' \in [Mbufs -> Faces]
  BY DEF NamesOK, MapsOK, Drain
<1>2. PICK S : pending' = Pit!Without(pending, S)
  BY DEF Drain, Pit!Drop
<1> DEFINE left == Pit!Without(pending, S)
<1>3. /\ DOMAIN left = DOMAIN pending \ S
      /\ left \in [DOMAIN left -> SUBSET Faces]
  BY <1>1, WithoutFacts
<1>4. store' = store
  BY DEF Drain
<1> HIDE DEF left
<1>5. pending' = left
  BY <1>2 DEF left
<1>6. /\ DOMAIN pending' \subseteq DOMAIN pending
      /\ pending' \in [DOMAIN pending' -> SUBSET Faces]
  BY <1>3, <1>5
<1> QED
  BY <1>1, <1>4, <1>6, NoNewNames

\* Only an Interest that is forwarded makes a name pending.
LEMMA StepNames ==
  ASSUME NamesOK, StoreOK, Next
  PROVE  /\ NamesOK'
         /\ \/ DOMAIN pending' \subseteq DOMAIN pending
            \/ \E n \in Names, p \in Faces, q \in Faces : InterestForwarded(p, n, q)
<1>1. ASSUME UNCHANGED <<store, mac, pending>>
      PROVE  NamesOK' /\ DOMAIN pending' \subseteq DOMAIN pending
  BY <1>1, NoNewNames DEF NamesOK, MapsOK
<1>2. CASE Malformed
  BY <1>1, <1>2 DEF Malformed, FreeReceived
<1>3. ASSUME NEW p \in Faces, Transmitted(p)
      PROVE  NamesOK' /\ DOMAIN pending' \subseteq DOMAIN pending
  BY <1>1, <1>3 DEF Transmitted
<1>4. ASSUME NEW m \in Mbufs, Shared(m)
      PROVE  NamesOK' /\ DOMAIN pending' \subseteq DOMAIN pending
  BY <1>1, <1>4 DEF Shared
<1>5. ASSUME NEW n \in Names, NEW p \in Faces,
             \/ InterestCsHit(p, n) \/ InterestAggregated(p, n)
             \/ InterestRefused(p, n) \/ InterestNoRoute(p, n)
             \/ InterestLoop(p, n)
      PROVE  NamesOK' /\ DOMAIN pending' \subseteq DOMAIN pending
  BY <1>5, InterestKeepsPending, NoNewNames DEF NamesOK
<1> QED
  BY <1>2, <1>3, <1>4, <1>5, InterestForwardedNames, DataNames, DrainNames
  DEF Next, Receive

-----------------------------------------------------------------------------
(* The theorems.                                                           *)

LEMMA StepLent ==
  ASSUME LentOK, Next
  PROVE  LentOK'
BY DEF LentOK, Next, Receive, Malformed, Data, InterestCsHit, InterestAggregated,
       InterestRefused, InterestNoRoute, InterestLoop, InterestUnroutable,
       InterestForwarded, FreeReceived, FreeMbufs, Drain, Transmitted, Shared

LEMMA NextKeepsConsistent ==
  ASSUME Consistent, Next
  PROVE  Consistent'
<1>1. QueuesOK /\ StoreOK /\ LentOK /\ NamesOK /\ NoExcess
  BY ConsistentParts DEF NamesOK, Consistent
<1>2. QueuesOK' /\ StoreOK' /\ \A m \in Mbufs : Balanced(m)
  BY <1>1, StepAccounts DEF NamesOK, MapsOK
<1>3. NamesOK'
  BY <1>1, StepNames
<1>4. NoExcess'
  <2>1. ASSUME NEW m \in Mbufs
        PROVE  Excess(m)' = 0
    <3>1. Excess(m)' = Spare(m)' - Held(m, store') - Owed(m)'
      BY DEF Excess
    <3> QED
      BY <1>1, <1>2, <3>1 DEF Balanced, NoExcess
  <2> QED
    BY <2>1 DEF NoExcess
<1>5. LentOK'
  BY <1>1, StepLent
<1>6. Parts'
  BY <1>2, <1>3, <1>4, <1>5 DEF Parts, NamesOK
<1> QED
  BY <1>6, PartsConsistentNext

LEMMA StutterKeepsConsistent ==
  ASSUME Consistent, UNCHANGED vars
  PROVE  Consistent'
<1> USE DEF vars
<1>1. TypeOK' /\ (Len(store) <= Capacity)'
  BY DEF Consistent, TypeOK
<1>2. RingsOK' /\ PendingNotCached'
  BY DEF Consistent, RingsOK, PendingNotCached
<1>3. ReferencesAccounted'
  <2>1. \A m \in Mbufs : Holders(m)' = Holders(m)
    BY DEF Holders, Uses, Places
  <2> QED
    BY <2>1 DEF Consistent, ReferencesAccounted
<1> QED
  BY <1>1, <1>2, <1>3 DEF Consistent

\* The invariant of the data plane holds in every reachable state.
THEOREM ForwarderConsistent == Spec => []Consistent
<1>1. Init => Consistent
  BY InitConsistent
<1>2. Consistent /\ [Next]_vars => Consistent'
  BY NextKeepsConsistent, StutterKeepsConsistent
<1> QED
  BY <1>1, <1>2, PTL DEF Spec

\* Counts, queues, cache and PIT of an lcore keep their types; in particular
\* no reference count goes below zero, as a buffer freed once too often would.
THEOREM ForwarderTypeCorrect == Spec => []TypeOK
<1>1. Consistent => TypeOK
  BY DEF Consistent
<1> QED
  BY <1>1, ForwarderConsistent, PTL

\* Every reference has its holder or is one that a refusal of the CS left
\* behind, for any cache, buckets, batch and ring, whatever the driver releases
\* and the other lcores take.
THEOREM AlwaysAccounted == Spec => []ReferencesAccounted
<1>1. Consistent => ReferencesAccounted
  BY DEF Consistent
<1> QED
  BY <1>1, ForwarderConsistent, PTL

\* No buffer that the CS, a transmit table or the driver points at is back in
\* the pool, for any cache, batch and ring, bursts the NIC refuses included.
THEOREM NeverDangling == Spec => []NoDanglingMbuf
<1>1. Consistent => NoDanglingMbuf
  <2> SUFFICES ASSUME Consistent, NEW m \in Mbufs
               PROVE  Holders(m) <= ref[m]
    BY DEF NoDanglingMbuf
  <2>1. ref[m] \in Nat /\ ref[m] = Holders(m) + (IF m \in lost THEN 1 ELSE 0)
    BY DEF Consistent, TypeOK, ReferencesAccounted
  <2>2. Holders(m) \in Int
    <3>1. QueuesOK /\ StoreOK
      BY ConsistentParts
    <3> QED
      BY <3>1, CountsAreNumbers DEF Holders, Held
  <2> QED
    BY <2>1, <2>2
<1> QED
  BY <1>1, ForwarderConsistent, PTL

\* No name is ever cached and pending.
THEOREM PendingNeverCached == Spec => []PendingNotCached
<1>1. Consistent => PendingNotCached
  BY DEF Consistent
<1> QED
  BY <1>1, ForwarderConsistent, PTL

-----------------------------------------------------------------------------
(* The balances.  Counters are kept modulo CounterMod, so every number is   *)
(* taken up to a multiple of it.                                            *)

Congruent(a, b) == \E z \in Int : a = b + CounterMod * z

LEMMA CongruentSub ==
  ASSUME NEW a \in Int, NEW b \in Int, NEW c \in Int, NEW d \in Int,
         Congruent(a, b), Congruent(c, d)
  PROVE  Congruent(a - c, b - d) /\ Congruent(a + c, b + d)
<1>1. CounterMod \in Int
  BY SizesAssumption
<1>2. PICK y \in Int : a = b + CounterMod * y
  BY DEF Congruent
<1>3. PICK z \in Int : c = d + CounterMod * z
  BY DEF Congruent
<1>4. a - c = (b - d) + CounterMod * (y - z) /\ y - z \in Int
  BY <1>1, <1>2, <1>3
<1>5. a + c = (b + d) + CounterMod * (y + z) /\ y + z \in Int
  BY <1>1, <1>2, <1>3
<1> QED
  BY <1>4, <1>5 DEF Congruent

LEMMA CongruentRemainder ==
  ASSUME NEW v \in Int
  PROVE  v % CounterMod \in Int /\ Congruent(v % CounterMod, v)
<1>1. CounterMod \in Nat \ {0}
  BY SizesAssumption
<1> DEFINE q == v \div CounterMod
           r == v % CounterMod
<1>2. v = CounterMod * q + r /\ q \in Int /\ r \in Int
  BY <1>1, Z3
<1> HIDE DEF q, r
<1>3. r = v + CounterMod * (0 - q) /\ 0 - q \in Int
  BY <1>1, <1>2
<1>4. Congruent(r, v)
  BY <1>3 DEF Congruent
<1> QED
  BY <1>2, <1>4 DEF r

LEMMA CongruentSameRemainder ==
  ASSUME NEW a \in Int, NEW b \in Int, Congruent(a, b)
  PROVE  a % CounterMod = b % CounterMod
<1>1. CounterMod \in Nat \ {0}
  BY SizesAssumption
<1>2. PICK z \in Int : a = b + CounterMod * z
  BY DEF Congruent
<1> DEFINE q == b \div CounterMod
           r == b % CounterMod
<1>3. b = CounterMod * q + r
  BY <1>1, Z3
<1>4. q \in Int /\ r \in 0 .. CounterMod - 1
  BY <1>1
<1> HIDE DEF q, r
<1>5. a = CounterMod * (q + z) + r /\ q + z \in Int
  BY <1>1, <1>2, <1>3, <1>4
<1>6. \A y \in Int : (CounterMod * y + r) % CounterMod = r
  BY <1>1, <1>4
<1>7. a % CounterMod = r
  BY <1>5, <1>6
<1> QED
  BY <1>7 DEF r

\* What a handler adds to each counter.
Hit(k, c)         == IF k \in c THEN 1 ELSE 0
Gain(k, c, n, d)  == Hit(k, c) + (IF k = "data_sent" THEN n ELSE 0)
                               + (IF k = "nic_pkt_drop" THEN d ELSE 0)

LEMMA CountedGain ==
  ASSUME QueuesOK, NEW c, NEW n \in Int, NEW d \in Int,
         stats' = Counted(c, n, d), NEW k \in Counters
  PROVE  /\ stats[k] \in Int /\ stats'[k] \in Int /\ Gain(k, c, n, d) \in Int
         /\ Congruent(stats'[k], stats[k] + Gain(k, c, n, d))
<1>1. stats[k] \in Int
  BY SizesAssumption DEF QueuesOK
<1>2. Gain(k, c, n, d) \in Int
  BY DEF Gain, Hit
<1> DEFINE v == stats[k] + (IF k \in c THEN 1 ELSE 0)
                  + (IF k = "data_sent" THEN n ELSE 0)
                  + (IF k = "nic_pkt_drop" THEN d ELSE 0)
<1>3. v = stats[k] + Gain(k, c, n, d) /\ v \in Int
  BY <1>1 DEF Gain, Hit
<1>4. stats'[k] = v % CounterMod
  BY DEF Counted
<1> HIDE DEF v
<1>5. stats'[k] \in Int /\ Congruent(stats'[k], v)
  BY <1>3, <1>4, CongruentRemainder
<1> QED
  BY <1>1, <1>2, <1>3, <1>5

\* A handler that counts an Interest counts one outcome of it.
OneOutcome(c) ==
  Hit("int_recv", c) = Hit("int_cs_hit", c) + Hit("int_pit_hit", c)
                         + Hit("int_fib_hit", c) + Hit("int_fib_loop", c)
                         + Hit("int_no_route", c) + Hit("sw_pkt_drop", c)

LEMMA InterestsKept ==
  ASSUME QueuesOK, NEW c, NEW n \in Int, NEW d \in Int,
         stats' = Counted(c, n, d), OneOutcome(c)
  PROVE  InterestsBalance' = InterestsBalance
<1> DEFINE K == {"int_recv", "int_cs_hit", "int_pit_hit", "int_fib_hit",
                 "int_fib_loop", "int_no_route", "sw_pkt_drop"}
           old(k) == stats[k]
           new(k) == stats'[k]
           sum(k) == stats[k] + Hit(k, c)
<1>1. ASSUME NEW k \in K
      PROVE  /\ old(k) \in Int /\ new(k) \in Int /\ sum(k) \in Int
             /\ Hit(k, c) \in Int
             /\ Congruent(new(k), sum(k)) /\ sum(k) = old(k) + Hit(k, c)
  <2>1. k \in Counters /\ k # "data_sent" /\ k # "nic_pkt_drop"
    BY DEF Counters
  <2>2. Gain(k, c, n, d) = Hit(k, c) /\ Hit(k, c) \in Int
    BY <2>1 DEF Gain, Hit
  <2> QED
    BY <2>1, <2>2, CountedGain
<1> DEFINE Settles(k) == /\ old(k) \in Int /\ Hit(k, c) \in Int
                      /\ new(k) \in Int /\ sum(k) \in Int
                      /\ Congruent(new(k), sum(k))
                      /\ sum(k) = old(k) + Hit(k, c)
<1>2. /\ Settles("int_recv") /\ Settles("int_cs_hit") /\ Settles("int_pit_hit")
      /\ Settles("int_fib_hit") /\ Settles("int_fib_loop") /\ Settles("int_no_route")
      /\ Settles("sw_pkt_drop")
  BY <1>1
<1> DEFINE R == "int_recv"
           S == sum(R) - sum("int_cs_hit") - sum("int_pit_hit")
                  - sum("int_fib_hit") - sum("int_fib_loop")
                  - sum("int_no_route") - sum("sw_pkt_drop")
           N == new(R) - new("int_cs_hit") - new("int_pit_hit")
                  - new("int_fib_hit") - new("int_fib_loop")
                  - new("int_no_route") - new("sw_pkt_drop")
           O == old(R) - old("int_cs_hit") - old("int_pit_hit")
                  - old("int_fib_hit") - old("int_fib_loop")
                  - old("int_no_route") - old("sw_pkt_drop")
<1>3. InterestsBalance = O % CounterMod /\ InterestsBalance' = N % CounterMod
  BY DEF InterestsBalance
<1> HIDE DEF K, old, new, sum
<1>4. Congruent(N, S) /\ N \in Int /\ S \in Int
  <2> DEFINE x0 == new(R)               y0 == sum(R)
             x1 == new("int_cs_hit")    y1 == sum("int_cs_hit")
             x2 == new("int_pit_hit")   y2 == sum("int_pit_hit")
             x3 == new("int_fib_hit")   y3 == sum("int_fib_hit")
             x4 == new("int_fib_loop")  y4 == sum("int_fib_loop")
             x5 == new("int_no_route")  y5 == sum("int_no_route")
             x6 == new("sw_pkt_drop")   y6 == sum("sw_pkt_drop")
  <2>1. /\ x0 \in Int /\ y0 \in Int /\ Congruent(x0, y0)
        /\ x1 \in Int /\ y1 \in Int /\ Congruent(x1, y1)
        /\ x2 \in Int /\ y2 \in Int /\ Congruent(x2, y2)
        /\ x3 \in Int /\ y3 \in Int /\ Congruent(x3, y3)
        /\ x4 \in Int /\ y4 \in Int /\ Congruent(x4, y4)
        /\ x5 \in Int /\ y5 \in Int /\ Congruent(x5, y5)
        /\ x6 \in Int /\ y6 \in Int /\ Congruent(x6, y6)
    BY <1>2
  <2>2. /\ N = x0 - x1 - x2 - x3 - x4 - x5 - x6
        /\ S = y0 - y1 - y2 - y3 - y4 - y5 - y6
    OBVIOUS
  <2> HIDE DEF x0, x1, x2, x3, x4, x5, x6, y0, y1, y2, y3, y4, y5, y6, N, S
  <2>3. /\ x0 - x1 \in Int /\ y0 - y1 \in Int
        /\ Congruent(x0 - x1, y0 - y1)
    BY <2>1, CongruentSub
  <2>4. /\ x0 - x1 - x2 \in Int /\ y0 - y1 - y2 \in Int
        /\ Congruent(x0 - x1 - x2, y0 - y1 - y2)
    BY <2>1, <2>3, CongruentSub
  <2>5. /\ x0 - x1 - x2 - x3 \in Int /\ y0 - y1 - y2 - y3 \in Int
        /\ Congruent(x0 - x1 - x2 - x3, y0 - y1 - y2 - y3)
    BY <2>1, <2>4, CongruentSub
  <2>6. /\ x0 - x1 - x2 - x3 - x4 \in Int /\ y0 - y1 - y2 - y3 - y4 \in Int
        /\ Congruent(x0 - x1 - x2 - x3 - x4, y0 - y1 - y2 - y3 - y4)
    BY <2>1, <2>5, CongruentSub
  <2>7. /\ x0 - x1 - x2 - x3 - x4 - x5 \in Int
        /\ y0 - y1 - y2 - y3 - y4 - y5 \in Int
        /\ Congruent(x0 - x1 - x2 - x3 - x4 - x5, y0 - y1 - y2 - y3 - y4 - y5)
    BY <2>1, <2>6, CongruentSub
  <2>8. /\ x0 - x1 - x2 - x3 - x4 - x5 - x6 \in Int
        /\ y0 - y1 - y2 - y3 - y4 - y5 - y6 \in Int
        /\ Congruent(x0 - x1 - x2 - x3 - x4 - x5 - x6,
                     y0 - y1 - y2 - y3 - y4 - y5 - y6)
    BY <2>1, <2>7, CongruentSub
  <2> QED
    BY <2>2, <2>8
<1>5. S = O
  BY <1>2 DEF OneOutcome
<1> HIDE DEF N, O, S
<1>6. N % CounterMod = S % CounterMod
  BY <1>4, CongruentSameRemainder
<1> QED
  BY <1>3, <1>5, <1>6

-----------------------------------------------------------------------------
(* How many packets queues hold.                                           *)

Size(q) == Cardinality(Places(q))

LEMMA SizeType ==
  ASSUME NEW q \in Queues
  PROVE  Size(q) \in Nat
BY PlacesFacts, FS_CardinalityType DEF Size

\* The queues q with every packet replaced by m: what q holds, m holds then.
Flat(q, m) == [p \in Faces |-> [i \in 1 .. Len(q[p]) |-> m]]

LEMMA FlatFacts ==
  ASSUME NEW q \in Queues, NEW m \in Mbufs
  PROVE  Flat(q, m) \in Queues /\ Size(q) = Uses(m, Flat(q, m))
<1>1. \A p \in Faces : q[p] \in Seq(Mbufs) /\ Len(q[p]) \in Nat
                       /\ DOMAIN q[p] = 1 .. Len(q[p])
  BY DEF Queues
<1>2. \A p \in Faces : Flat(q, m)[p] = [i \in 1 .. Len(q[p]) |-> m]
  BY DEF Flat
<1>3. \A p \in Faces : /\ Flat(q, m)[p] \in Seq(Mbufs)
                       /\ Len(Flat(q, m)[p]) = Len(q[p])
                       /\ DOMAIN Flat(q, m)[p] = DOMAIN q[p]
  <2> SUFFICES ASSUME NEW p \in Faces
               PROVE  /\ Flat(q, m)[p] \in Seq(Mbufs)
                      /\ Len(Flat(q, m)[p]) = Len(q[p])
                      /\ DOMAIN Flat(q, m)[p] = DOMAIN q[p]
    OBVIOUS
  <2> DEFINE l == Len(q[p])
             s == [i \in 1 .. l |-> m]
  <2>1. l \in Nat /\ Flat(q, m)[p] = s /\ DOMAIN q[p] = 1 .. l
    BY <1>1, <1>2
  <2> HIDE DEF l
  <2>2. s \in Seq(Mbufs) /\ Len(s) = l /\ DOMAIN s = 1 .. l
    BY <2>1
  <2> HIDE DEF s
  <2>3. Len(Flat(q, m)[p]) = Len(q[p])
    BY <2>1, <2>2 DEF l
  <2> QED
    BY <2>1, <2>2, <2>3
<1>4. Flat(q, m) \in Queues
  BY <1>3 DEF Flat, Queues
<1>5. Places(Flat(q, m)) = Places(q)
  BY <1>3 DEF Places
<1>6. \A x \in Places(q) : Flat(q, m)[x[1]][x[2]] = m
  <2> SUFFICES ASSUME NEW p, NEW i, <<p, i>> \in Places(q)
               PROVE  Flat(q, m)[p][i] = m
    BY PlacesFacts
  <2>1. p \in Faces /\ i \in 1 .. Len(q[p])
    BY PlacesFacts
  <2> QED
    BY <1>2, <2>1
<1>7. {x \in Places(Flat(q, m)) : Flat(q, m)[x[1]][x[2]] = m} = Places(q)
  BY <1>5, <1>6
<1>8. Uses(m, Flat(q, m)) = Cardinality(Places(q))
  BY <1>7 DEF Uses
<1> QED
  BY <1>4, <1>8 DEF Size

LEMMA JoinedSize ==
  ASSUME NEW a \in Queues, NEW b \in Queues, NEW c \in Queues, Joined(c, a, b)
  PROVE  Size(c) = Size(a) + Size(b)
<1>1. CASE Mbufs = {}
  <2>1. ASSUME NEW q \in Queues
        PROVE  Size(q) = 0
    <3>1. \A p \in Faces : \A i \in 1 .. Len(q[p]) : q[p][i] \in Mbufs
      BY ElementOfSeq DEF Queues
    <3>2. Places(q) = {}
      <4> SUFFICES ASSUME NEW p, NEW i, <<p, i>> \in Places(q)
                   PROVE  FALSE
        BY PlacesFacts
      <4> QED
        BY <1>1, <3>1, PlacesFacts
    <3> QED
      BY <3>2, FS_EmptySet DEF Size
  <2> QED
    BY <2>1
<1>2. ASSUME NEW m \in Mbufs
      PROVE  Size(c) = Size(a) + Size(b)
  <2>1. \A q \in Queues : Flat(q, m) \in Queues /\ Size(q) = Uses(m, Flat(q, m))
    BY FlatFacts
  <2>2. Joined(Flat(c, m), Flat(a, m), Flat(b, m))
    <3> SUFFICES ASSUME NEW p \in Faces
                 PROVE  Flat(c, m)[p] = Flat(a, m)[p] \o Flat(b, m)[p]
      BY DEF Joined
    <3> DEFINE s == a[p]  t == b[p]
               fs == [i \in 1 .. Len(s) |-> m]
               ft == [i \in 1 .. Len(t) |-> m]
    <3>1. s \in Seq(Mbufs) /\ t \in Seq(Mbufs) /\ c[p] = s \o t
      BY DEF Queues, Joined
    <3>2. Len(s) \in Nat /\ Len(t) \in Nat /\ Len(c[p]) = Len(s) + Len(t)
      BY <3>1, ConcatProperties, LenProperties
    <3>3. Flat(a, m)[p] = fs /\ Flat(b, m)[p] = ft
          /\ Flat(c, m)[p] = [i \in 1 .. Len(s) + Len(t) |-> m]
      BY <3>2 DEF Flat
    <3> HIDE DEF s, t
    <3>4. fs \o ft = [i \in 1 .. Len(s) + Len(t) |-> m]
      <4>1. /\ fs \in Seq(Mbufs) /\ ft \in Seq(Mbufs)
            /\ Len(fs) = Len(s) /\ Len(ft) = Len(t)
        BY <3>2
      <4>2. /\ fs \o ft \in Seq(Mbufs)
            /\ Len(fs \o ft) = Len(s) + Len(t)
            /\ \A i \in 1 .. Len(s) + Len(t) : (fs \o ft)[i] = m
        BY <3>2, <4>1
      <4> QED
        BY <3>2, <4>2
    <3> QED
      BY <3>3, <3>4
  <2> QED
    BY <2>1, <2>2, JoinedUses
<1> QED
  BY <1>1, <1>2

LEMMA OnceSize ==
  ASSUME NEW F \in SUBSET Faces, NEW m \in Mbufs
  PROVE  /\ Once(F, m) \in Queues
         /\ Size(Once(F, m)) = Cardinality(F) /\ Cardinality(F) \in Nat
<1>1. /\ Once(F, m) \in Queues /\ Cardinality(F) \in Nat
      /\ Uses(m, Once(F, m)) = Cardinality(F)
  BY OnceUses
<1>2. \A x \in Places(Once(F, m)) : Once(F, m)[x[1]][x[2]] = m
  <2> SUFFICES ASSUME NEW p, NEW i, <<p, i>> \in Places(Once(F, m))
               PROVE  Once(F, m)[p][i] = m
    BY <1>1, PlacesFacts
  <2>1. p \in Faces /\ i \in 1 .. Len(Once(F, m)[p])
    BY <1>1, PlacesFacts
  <2>2. Once(F, m)[p] = IF p \in F THEN <<m>> ELSE <<>>
    BY <2>1 DEF Once
  <2> QED
    BY <2>1, <2>2
<1>3. {x \in Places(Once(F, m)) : Once(F, m)[x[1]][x[2]] = m} = Places(Once(F, m))
  BY <1>2
<1> QED
  BY <1>1, <1>3 DEF Size, Uses

\* Queueing and transmitting lose no packet: what was queued, and what the
\* handler queues, is in the queues, or on the NIC, or refused.
LEMMA TransmitSizes ==
  ASSUME QueuesOK, NEW q \in Queues, NEW B \in SUBSET Faces,
         NEW gain, NEW c, NEW n, Transmit(q, B, gain, c, n)
  PROVE  /\ {Size(q), Size(tx'), Size(nic), Size(nic')} \subseteq Nat
         /\ \E d \in Nat : /\ stats' = Counted(c, n, d)
                           /\ Size(q) + Size(nic) = Size(tx') + Size(nic') + d
<1>1. tx' \in Queues /\ nic' \in Queues /\ nic \in Queues
  BY TransmitJoins DEF QueuesOK
<1> PICK both \in Queues, acc \in Queues, rej \in Queues, gone \in Queues :
      Sorted(q, B, both, acc, rej, gone) /\ Settled(gain, c, n, rej, gone)
  BY TransmitJoins
<1>2. /\ Joined(q, tx', both) /\ Joined(both, acc, rej) /\ Joined(nic', nic, acc)
      /\ stats' = Counted(c, n, Size(rej))
  BY DEF Sorted, Settled, Size
<1>3. /\ Size(q) \in Nat /\ Size(tx') \in Nat /\ Size(nic) \in Nat
      /\ Size(nic') \in Nat /\ Size(rej) \in Nat /\ Size(acc) \in Nat
      /\ Size(both) \in Nat
  BY <1>1, SizeType
<1>4. /\ Size(q) = Size(tx') + Size(both)
      /\ Size(both) = Size(acc) + Size(rej)
      /\ Size(nic') = Size(nic) + Size(acc)
  BY <1>1, <1>2, JoinedSize
<1>5. Size(q) + Size(nic) = Size(tx') + Size(nic') + Size(rej)
  BY <1>3, <1>4
<1> QED
  BY <1>2, <1>3, <1>5

\* Every packet that a step adds to the queues or takes from them is counted.
Tally(c, n, d) ==
  Size(tx) + Size(nic) + n + Hit("int_fib_hit", c)
    = Size(tx') + Size(nic') + d + Hit("wire", c)

LEMMA FramesKept ==
  ASSUME QueuesOK, tx' \in Queues, nic' \in Queues,
         NEW c, NEW n \in Int, NEW d \in Int, stats' = Counted(c, n, d),
         "data_sent" \notin c, "nic_pkt_drop" \notin c, Tally(c, n, d)
  PROVE  FramesBalance' = FramesBalance
<1> DEFINE h  == Hit("int_fib_hit", c)
           w  == Hit("wire", c)
           o0 == stats["data_sent"]      x0 == stats'["data_sent"]
           o1 == stats["int_fib_hit"]    x1 == stats'["int_fib_hit"]
           o2 == stats["wire"]           x2 == stats'["wire"]
           o3 == stats["nic_pkt_drop"]   x3 == stats'["nic_pkt_drop"]
           t  == Size(tx)                tt == Size(tx')
           r  == Size(nic)               rr == Size(nic')
<1>1. h \in Int /\ w \in Int
  BY DEF Hit
<1>2. /\ Gain("data_sent", c, n, d) = n /\ Gain("int_fib_hit", c, n, d) = h
      /\ Gain("wire", c, n, d) = w /\ Gain("nic_pkt_drop", c, n, d) = d
  BY DEF Gain, Hit
<1>3. o0 \in Int /\ x0 \in Int /\ Congruent(x0, o0 + n)
  BY <1>2, CountedGain DEF Counters
<1>4. o1 \in Int /\ x1 \in Int /\ Congruent(x1, o1 + h)
  BY <1>2, CountedGain DEF Counters
<1>5. o2 \in Int /\ x2 \in Int /\ Congruent(x2, o2 + w)
  BY <1>2, CountedGain DEF Counters
<1>6. o3 \in Int /\ x3 \in Int /\ Congruent(x3, o3 + d)
  BY <1>2, CountedGain DEF Counters
<1>7. t \in Int /\ tt \in Int /\ r \in Int /\ rr \in Int
  BY SizeType DEF QueuesOK
<1>8. t + r + n + h = tt + rr + d + w
  BY DEF Tally
<1>9. /\ FramesBalance = (o0 + o1 - o2 - o3 - t - r) % CounterMod
      /\ FramesBalance' = (x0 + x1 - x2 - x3 - tt - rr) % CounterMod
  BY DEF FramesBalance, Size, Places
<1> HIDE DEF h, w, o0, o1, o2, o3, x0, x1, x2, x3, t, tt, r, rr
<1>10. \A v \in Int : Congruent(v, v)
  <2>1. \A v \in Int : v = v + CounterMod * 0
    BY SizesAssumption
  <2> QED
    BY <2>1 DEF Congruent
<1> DEFINE y0 == o0 + n   y1 == o1 + h   y2 == o2 + w   y3 == o3 + d
<1>11. /\ y0 \in Int /\ Congruent(x0, y0) /\ y1 \in Int /\ Congruent(x1, y1)
       /\ y2 \in Int /\ Congruent(x2, y2) /\ y3 \in Int /\ Congruent(x3, y3)
       /\ Congruent(tt, tt) /\ Congruent(rr, rr)
  BY <1>1, <1>3, <1>4, <1>5, <1>6, <1>7, <1>10
<1>12. y0 + (y1 - y2 - y3 - tt - rr) = o0 + o1 - o2 - o3 - t - r
  BY <1>1, <1>3, <1>4, <1>5, <1>6, <1>7, <1>8
<1> HIDE DEF y0, y1, y2, y3
<1> DEFINE e1 == x1 - x2   f1 == y1 - y2
           e2 == e1 - x3   f2 == f1 - y3
           e3 == e2 - tt   f3 == f2 - tt
<1>13. e1 \in Int /\ f1 \in Int /\ Congruent(e1, f1)
  BY <1>4, <1>5, <1>11, CongruentSub
<1> HIDE DEF e1, f1
<1>14. e2 \in Int /\ f2 \in Int /\ Congruent(e2, f2)
  BY <1>6, <1>11, <1>13, CongruentSub
<1> HIDE DEF e2, f2
<1>15. e3 \in Int /\ f3 \in Int /\ Congruent(e3, f3)
  BY <1>7, <1>11, <1>14, CongruentSub
<1> HIDE DEF e3, f3
<1>16. /\ e3 - rr \in Int /\ f3 - rr \in Int
       /\ Congruent(e3 - rr, f3 - rr)
  BY <1>7, <1>11, <1>15, CongruentSub
<1>17. Congruent(x0 + (e3 - rr), y0 + (f3 - rr))
  BY <1>3, <1>11, <1>16, CongruentSub
<1>18. /\ x0 + x1 - x2 - x3 - tt - rr \in Int
       /\ o0 + o1 - o2 - o3 - t - r \in Int
  BY <1>3, <1>4, <1>5, <1>6, <1>7
<1>19. Congruent(x0 + x1 - x2 - x3 - tt - rr, o0 + o1 - o2 - o3 - t - r)
  <2>1. x0 + (e3 - rr) = x0 + x1 - x2 - x3 - tt - rr
    BY <1>3, <1>4, <1>5, <1>6, <1>7 DEF e1, e2, e3
  <2>2. y0 + (f3 - rr) = o0 + o1 - o2 - o3 - t - r
    BY <1>12 DEF f1, f2, f3
  <2> QED
    BY <1>17, <2>1, <2>2
<1> QED
  BY <1>9, <1>18, <1>19, CongruentSameRemainder

BalancesKept == InterestsBalance' = InterestsBalance /\ FramesBalance' = FramesBalance

LEMMA StepBalances ==
  ASSUME QueuesOK, tx' \in Queues, nic' \in Queues,
         NEW c, NEW n \in Int, NEW d \in Int, stats' = Counted(c, n, d),
         "data_sent" \notin c, "nic_pkt_drop" \notin c,
         OneOutcome(c), Tally(c, n, d)
  PROVE  BalancesKept
BY InterestsKept, FramesKept DEF BalancesKept

LEMMA FreeReceivedBalances ==
  ASSUME QueuesOK, NEW c, FreeReceived(c), OneOutcome(c),
         c \cap {"data_sent", "nic_pkt_drop", "int_fib_hit", "wire"} = {}
  PROVE  BalancesKept
<1>1. /\ tx' = tx /\ nic' = nic /\ stats' = Counted(c, 0, 0)
      /\ tx \in Queues /\ nic \in Queues
  BY DEF FreeReceived, QueuesOK
<1>2. Size(tx) \in Nat /\ Size(nic) \in Nat
  BY <1>1, SizeType
<1>3. Hit("int_fib_hit", c) = 0 /\ Hit("wire", c) = 0
  BY DEF Hit
<1>4. Tally(c, 0, 0)
  BY <1>1, <1>2, <1>3 DEF Tally
<1> QED
  BY <1>1, <1>4, StepBalances

\* A handler that sends m to the faces of F counts one more for each, as Data
\* sent or as an Interest forwarded.
LEMMA SendBalances ==
  ASSUME QueuesOK, NEW F \in SUBSET Faces, NEW m \in Mbufs, NEW gain, NEW c,
         NEW n \in Int, Send(F, m, gain, c, n), OneOutcome(c),
         c \cap {"data_sent", "nic_pkt_drop", "wire"} = {},
         n + Hit("int_fib_hit", c) = Cardinality(F)
  PROVE  BalancesKept
<1> DEFINE q == Queued(F, m)
           B == {p \in F : Len(q[p]) = MaxBurst}
<1>1. Transmit(q, B, gain, c, n)
  BY DEF Send, Queued
<1>2. q \in Queues /\ Joined(q, tx, Once(F, m)) /\ B \in SUBSET Faces
      /\ tx \in Queues
  BY SendJoins DEF QueuesOK
<1> HIDE DEF q, B
<1>3. /\ Once(F, m) \in Queues /\ Size(Once(F, m)) = Cardinality(F)
      /\ Cardinality(F) \in Nat
  BY OnceSize
<1>4. Size(q) = Size(tx) + Cardinality(F) /\ Size(tx) \in Nat
  BY <1>2, <1>3, JoinedSize, SizeType
<1>5. tx' \in Queues /\ nic' \in Queues
  BY <1>1, <1>2, TransmitJoins
<1>6. PICK d \in Nat :
        /\ {Size(q), Size(tx'), Size(nic), Size(nic')} \subseteq Nat
        /\ stats' = Counted(c, n, d)
        /\ Size(q) + Size(nic) = Size(tx') + Size(nic') + d
  BY <1>1, <1>2, TransmitSizes
<1>7. Hit("wire", c) = 0 /\ Hit("int_fib_hit", c) \in Int
  BY DEF Hit
<1>8. Tally(c, n, d)
  BY <1>3, <1>4, <1>6, <1>7 DEF Tally
<1> QED
  BY <1>5, <1>6, <1>8, StepBalances

LEMMA DrainBalances ==
  ASSUME QueuesOK, Drain
  PROVE  BalancesKept
<1> DEFINE B == {p \in Faces : tx[p] # <<>>}
           gain == [m \in Mbufs |-> 0]
<1>1. Transmit(tx, B, gain, {}, 0) /\ tx \in Queues /\ B \in SUBSET Faces
  BY DEF Drain, QueuesOK
<1> HIDE DEF B, gain
<1>2. tx' \in Queues /\ nic' \in Queues
  BY <1>1, TransmitJoins
<1>3. PICK d \in Nat :
        /\ {Size(tx), Size(tx'), Size(nic), Size(nic')} \subseteq Nat
        /\ stats' = Counted({}, 0, d)
        /\ Size(tx) + Size(nic) = Size(tx') + Size(nic') + d
  BY <1>1, TransmitSizes
<1>4. \A k : Hit(k, {}) = 0
  BY DEF Hit
<1>5. Tally({}, 0, d)
  BY <1>3, <1>4 DEF Tally
<1>6. OneOutcome({})
  BY <1>4 DEF OneOutcome
<1> QED
  BY <1>2, <1>3, <1>5, <1>6, StepBalances

LEMMA TransmittedBalances ==
  ASSUME QueuesOK, NEW p \in Faces, Transmitted(p)
  PROVE  BalancesKept
<1> DEFINE h == Head(nic[p])
           c == {"wire"}
<1>1. /\ h \in Mbufs /\ tx' = tx /\ nic' \in Queues /\ stats' = Counted(c, 0, 0)
      /\ Once({p}, h) \in Queues /\ Joined(nic, Once({p}, h), nic')
  BY TransmittedJoins
<1>2. tx \in Queues /\ nic \in Queues
  BY DEF QueuesOK
<1>3. /\ \A k : Hit(k, c) = IF k = "wire" THEN 1 ELSE 0
      /\ "data_sent" \notin c /\ "nic_pkt_drop" \notin c
  BY DEF Hit
<1> HIDE DEF h, c
<1>4. Size(Once({p}, h)) = 1
  <2>1. Cardinality({p}) = 1 /\ {p} \in SUBSET Faces
    BY FS_Singleton
  <2> QED
    BY <1>1, <2>1, OnceSize
<1>5. Size(nic) = 1 + Size(nic')
  BY <1>1, <1>2, <1>4, JoinedSize
<1>6. Size(tx) \in Nat /\ Size(nic') \in Nat
  BY <1>1, <1>2, SizeType
<1>7. Tally(c, 0, 0)
  BY <1>1, <1>3, <1>5, <1>6 DEF Tally
<1>8. OneOutcome(c)
  BY <1>3 DEF OneOutcome
<1> QED
  BY <1>1, <1>2, <1>3, <1>7, <1>8, StepBalances

LEMMA DataBalances ==
  ASSUME QueuesOK, NEW n \in Names, Data(n),
         pending \in [DOMAIN pending -> SUBSET Faces]
  PROVE  BalancesKept
<1> DEFINE F == IF n \in DOMAIN pending THEN pending[n] ELSE {}
           c == IF F = {} THEN {"data_recv", "data_pit_miss"} ELSE {"data_recv"}
<1>1. PICK m \in Mbufs : \E gain : Send(F, m, gain, c, Cardinality(F))
  BY DEF Data, FreeMbufs
<1>2. F \in SUBSET Faces
  OBVIOUS
<1>3. \A k : k \in c => k = "data_recv" \/ k = "data_pit_miss"
  OBVIOUS
<1> HIDE DEF F, c
<1>4. Cardinality(F) \in Nat
  BY <1>2, FacesAssumption, FS_Subset, FS_CardinalityType
<1>5. OneOutcome(c) /\ Hit("int_fib_hit", c) = 0
  BY <1>3 DEF OneOutcome, Hit
<1>6. c \cap {"data_sent", "nic_pkt_drop", "wire"} = {}
  BY <1>3
<1>7. Cardinality(F) + Hit("int_fib_hit", c) = Cardinality(F)
  BY <1>4, <1>5
<1> QED
  BY <1>1, <1>2, <1>4, <1>5, <1>6, <1>7, SendBalances

LEMMA NextBalances ==
  ASSUME Consistent, Next
  PROVE  BalancesKept
<1>1. QueuesOK /\ StoreOK /\ pending \in [DOMAIN pending -> SUBSET Faces]
  BY ConsistentParts DEF MapsOK
<1>2. CASE Malformed
  <2>1. /\ OneOutcome({"malformed"})
        /\ {"malformed"} \cap {"data_sent", "nic_pkt_drop", "int_fib_hit", "wire"} = {}
    BY DEF OneOutcome, Hit
  <2> QED
    BY <1>1, <1>2, <2>1, FreeReceivedBalances DEF Malformed
<1>3. ASSUME NEW n \in Names, NEW p \in Faces,
             \/ InterestAggregated(p, n) \/ InterestRefused(p, n)
             \/ InterestNoRoute(p, n) \/ InterestLoop(p, n)
      PROVE  BalancesKept
  <2>1. PICK k \in {"int_pit_hit", "sw_pkt_drop", "int_no_route", "int_fib_loop"} :
          FreeReceived({"int_recv", k})
    BY <1>3 DEF InterestAggregated, InterestRefused, InterestNoRoute,
                InterestLoop, InterestUnroutable
  <2>2. /\ OneOutcome({"int_recv", k})
        /\ {"int_recv", k} \cap {"data_sent", "nic_pkt_drop", "int_fib_hit", "wire"} = {}
    BY DEF OneOutcome, Hit
  <2> QED
    BY <1>1, <2>1, <2>2, FreeReceivedBalances
<1>4. ASSUME NEW p \in Faces, NEW m \in Mbufs, NEW gain,
             NEW k \in {"int_cs_hit", "int_fib_hit"},
             Send({p}, m, gain, {"int_recv", k}, IF k = "int_cs_hit" THEN 1 ELSE 0)
      PROVE  BalancesKept
  <2> DEFINE c == {"int_recv", k}
             one == {p}
             n == IF k = "int_cs_hit" THEN 1 ELSE 0
  <2>1. OneOutcome(c) /\ c \cap {"data_sent", "nic_pkt_drop", "wire"} = {}
    BY DEF OneOutcome, Hit
  <2>2. n \in Int /\ n + Hit("int_fib_hit", c) = 1
    BY DEF Hit
  <2>3. Cardinality(one) = 1 /\ one \in SUBSET Faces
    BY FS_Singleton
  <2>4. Send(one, m, gain, c, n)
    BY <1>4
  <2> HIDE DEF c, one, n
  <2> QED
    BY <1>1, <2>1, <2>2, <2>3, <2>4, SendBalances
<1>5. ASSUME NEW n \in Names, NEW p \in Faces, InterestCsHit(p, n)
      PROVE  BalancesKept
  <2>1. csret'.mbuf \in Mbufs
    BY <1>1, <1>5, FindFacts DEF InterestCsHit
  <2>2. Send({p}, csret'.mbuf, One(csret'.mbuf), {"int_recv", "int_cs_hit"}, 1)
    BY <1>5 DEF InterestCsHit
  <2> QED
    BY <1>4, <2>1, <2>2
<1>6. ASSUME NEW n \in Names, NEW p \in Faces, NEW q \in Faces,
             InterestForwarded(p, n, q)
      PROVE  BalancesKept
  <2>1. PICK m \in Mbufs : Send({q}, m, One(m), {"int_recv", "int_fib_hit"}, 0)
    BY <1>6 DEF InterestForwarded, FreeMbufs
  <2> QED
    BY <1>4, <2>1
<1>7. ASSUME NEW n \in Names, Data(n)
      PROVE  BalancesKept
  BY <1>1, <1>7, DataBalances
<1>8. CASE Drain
  BY <1>1, <1>8, DrainBalances
<1>9. ASSUME NEW p \in Faces, Transmitted(p)
      PROVE  BalancesKept
  BY <1>1, <1>9, TransmittedBalances
<1>10. ASSUME NEW m \in Mbufs, Shared(m)
       PROVE  BalancesKept
  BY <1>10 DEF Shared, BalancesKept, InterestsBalance, FramesBalance, Places
<1> QED
  BY <1>2, <1>3, <1>5, <1>6, <1>7, <1>8, <1>9, <1>10 DEF Next, Receive

\* Every step keeps the two balances of the counters, which wrap at any width:
\* an Interest received has one outcome, and a packet sent is on the wire, in a
\* queue, or counted as dropped by the NIC.
THEOREM StatsAlwaysBalance == Spec => StatsBalance
<1>1. Consistent /\ [Next]_vars =>
        [InterestsBalance' = InterestsBalance /\ FramesBalance' = FramesBalance]_vars
  BY NextBalances DEF BalancesKept
<1> QED
  BY <1>1, ForwarderConsistent, PTL DEF Spec, StatsBalance
-----------------------------------------------------------------------------
(* What a name that becomes pending leaves behind.                         *)

Carries(s, m) == \E i \in DOMAIN s : s[i] = m

LEMMA ConcatCarries ==
  ASSUME NEW s \in Seq(Mbufs), NEW t \in Seq(Mbufs), NEW m, Carries(s \o t, m)
  PROVE  Carries(s, m) \/ Carries(t, m)
<1>1. PICK i \in DOMAIN (s \o t) : (s \o t)[i] = m
  BY DEF Carries
<1>2. /\ Len(s) \in Nat /\ Len(t) \in Nat /\ DOMAIN s = 1 .. Len(s)
      /\ DOMAIN t = 1 .. Len(t) /\ DOMAIN (s \o t) = 1 .. Len(s) + Len(t)
      /\ (s \o t)[i] = IF i <= Len(s) THEN s[i] ELSE t[i - Len(s)]
  OBVIOUS
<1>3. CASE i <= Len(s)
  BY <1>1, <1>2, <1>3 DEF Carries
<1>4. CASE i > Len(s)
  <2>1. i - Len(s) \in DOMAIN t /\ t[i - Len(s)] = m
    BY <1>1, <1>2, <1>4
  <2> QED
    BY <2>1 DEF Carries
<1> QED
  BY <1>1, <1>2, <1>3, <1>4

LEMMA CarriesConcat ==
  ASSUME NEW s \in Seq(Mbufs), NEW t \in Seq(Mbufs), NEW m, Carries(t, m)
  PROVE  Carries(s \o t, m)
<1>1. PICK i \in DOMAIN t : t[i] = m
  BY DEF Carries
<1>2. /\ i + Len(s) \in DOMAIN (s \o t) /\ (s \o t)[i + Len(s)] = m
  BY <1>1, ConcatPlaces, LenProperties
<1> QED
  BY <1>2 DEF Carries

\* A counter that goes up by less than its range does not stay as it was.
LEMMA CounterMoves ==
  ASSUME NEW v \in 0 .. CounterMod - 1, NEW d \in Nat, 0 < d, d < CounterMod
  PROVE  (v + d) % CounterMod # v
<1>1. CounterMod \in Nat \ {0}
  BY SizesAssumption
<1>2. CASE v + d < CounterMod
  <2>1. (v + d) % CounterMod = v + d
    BY <1>1, <1>2
  <2> QED
    BY <2>1
<1>3. CASE v + d >= CounterMod
  <2>1. v + d = CounterMod + (v + d - CounterMod)
        /\ v + d - CounterMod \in 0 .. CounterMod - 1
    BY <1>1, <1>3
  <2>2. (v + d) % CounterMod = v + d - CounterMod
    BY <1>1, <2>1
  <2> QED
    BY <1>1, <2>2
<1> QED
  BY <1>1, <1>2, <1>3

\* A packet sent to one face is queued for it, with its NIC, or refused and
\* counted.
LEMMA SendOneGoes ==
  ASSUME QueuesOK, NEW q \in Faces, NEW m \in Mbufs, NEW gain, NEW c, NEW n,
         "nic_pkt_drop" \notin c, Send({q}, m, gain, c, n)
  PROVE  \/ Carries(tx'[q], m)
         \/ Carries(nic'[q], m)
         \/ stats'["nic_pkt_drop"] # stats["nic_pkt_drop"]
<1> DEFINE Q == Queued({q}, m)
           B == {p \in {q} : Len(Q[p]) = MaxBurst}
<1>1. Transmit(Q, B, gain, c, n)
  BY DEF Send, Queued
<1>2. Q \in Queues /\ Joined(Q, tx, Once({q}, m)) /\ B \in SUBSET {q}
  BY SendJoins
<1>3. \A p \in B : Len(Q[p]) = MaxBurst
  OBVIOUS
<1> HIDE DEF Q, B
<1>4. tx' \in Queues /\ nic' \in Queues
  BY <1>1, <1>2, TransmitJoins
<1> PICK both \in Queues, acc \in Queues, rej \in Queues, gone \in Queues :
      Sorted(Q, B, both, acc, rej, gone) /\ Settled(gain, c, n, rej, gone)
  BY <1>1, <1>2, TransmitJoins
<1>5. /\ Q[q] = tx'[q] \o both[q] /\ both[q] = acc[q] \o rej[q]
      /\ nic'[q] = nic[q] \o acc[q]
      /\ \A p \in Faces : p \notin B => rej[p] = <<>>
      /\ stats' = Counted(c, n, Size(rej))
  BY DEF Sorted, Settled, Joined, Size
<1>6. /\ tx'[q] \in Seq(Mbufs) /\ both[q] \in Seq(Mbufs) /\ acc[q] \in Seq(Mbufs)
      /\ rej[q] \in Seq(Mbufs) /\ nic[q] \in Seq(Mbufs) /\ tx[q] \in Seq(Mbufs)
  BY <1>4 DEF Queues, QueuesOK
<1>7. Carries(Q[q], m)
  <2>1. Q[q] = tx[q] \o <<m>>
    BY <1>2 DEF Joined, Once
  <2>2. Carries(<<m>>, m) /\ <<m>> \in Seq(Mbufs)
    BY DEF Carries
  <2> QED
    BY <1>6, <2>1, <2>2, CarriesConcat
<1>8. Carries(tx'[q], m) \/ Carries(acc[q], m) \/ Carries(rej[q], m)
  <2>1. Carries(tx'[q] \o both[q], m)
    BY <1>5, <1>7
  <2>2. Carries(tx'[q], m) \/ Carries(both[q], m)
    BY <1>6, <2>1, ConcatCarries
  <2>3. Carries(both[q], m) => Carries(acc[q] \o rej[q], m)
    BY <1>5
  <2>4. Carries(acc[q] \o rej[q], m) => Carries(acc[q], m) \/ Carries(rej[q], m)
    BY <1>6, ConcatCarries
  <2> QED
    BY <2>2, <2>3, <2>4
<1>9. CASE Carries(acc[q], m)
  BY <1>5, <1>6, <1>9, CarriesConcat
<1>10. CASE Carries(rej[q], m)
  <2> DEFINE l == Len(rej[q])
  <2>1. l \in Nat /\ 0 < l
    <3>1. PICK i \in DOMAIN rej[q] : TRUE
      BY <1>10 DEF Carries
    <3> QED
      BY <1>6, <3>1, LenProperties
  <2>2. q \in B /\ Len(Q[q]) = MaxBurst
    <3>1. rej[q] # <<>>
      BY <2>1
    <3> QED
      BY <1>3, <1>5, <3>1
  <2>3. l <= MaxBurst
    <3> DEFINE t == Len(tx'[q])
               a == Len(acc[q])
    <3>1. Len(both[q]) = a + l /\ Len(Q[q]) = t + Len(both[q])
      BY <1>5, <1>6, ConcatProperties
    <3>2. t \in Nat /\ a \in Nat
      BY <1>6, LenProperties
    <3> HIDE DEF t, a, l
    <3>3. MaxBurst = t + (a + l)
      BY <2>2, <3>1
    <3> QED
      BY <2>1, <3>2, <3>3
  <2>4. Size(rej) = l
    <3>1. \A p \in Faces : p # q => DOMAIN rej[p] = {}
      BY <1>2, <1>5
    <3>2. DOMAIN rej[q] = 1 .. l
      BY <1>6, LenProperties
    <3>3. Places(rej) = {q} \X (1 .. l)
      BY <3>1, <3>2 DEF Places
    <3> HIDE DEF l
    <3>4. IsFiniteSet(1 .. l) /\ Cardinality(1 .. l) = l
      <4>1. l \in Int /\ ~ (1 > l) /\ l - 1 + 1 = l
        BY <2>1
      <4>2. Cardinality(1 .. l) = IF 1 > l THEN 0 ELSE l - 1 + 1
        BY <4>1, FS_Interval
      <4>3. IsFiniteSet(1 .. l)
        BY <4>1, FS_Interval
      <4> QED
        BY <4>1, <4>2, <4>3
    <3>5. IsFiniteSet({q}) /\ Cardinality({q}) = 1
      BY FS_Singleton
    <3>6. Cardinality({q} \X (1 .. l)) = Cardinality({q}) * Cardinality(1 .. l)
      BY <3>4, <3>5, FS_Product
    <3>7. Cardinality({q} \X (1 .. l)) = 1 * l
      BY <3>4, <3>5, <3>6
    <3>8. 1 * l = l
      BY <2>1
    <3> QED
      BY <3>3, <3>7, <3>8 DEF Size
  <2> HIDE DEF l
  <2> DEFINE v == stats["nic_pkt_drop"]
  <2>5. v \in 0 .. CounterMod - 1 /\ stats'["nic_pkt_drop"] = (v + l) % CounterMod
    <3>1. "nic_pkt_drop" \in Counters
      BY DEF Counters
    <3>2. stats'["nic_pkt_drop"] = (v + 0 + 0 + l) % CounterMod
      BY <1>5, <2>4, <3>1 DEF Counted
    <3>3. v \in 0 .. CounterMod - 1
      BY <3>1 DEF QueuesOK
    <3>4. v + 0 + 0 + l = v + l
      BY <2>1, <3>3
    <3> QED
      BY <3>2, <3>3, <3>4
  <2> HIDE DEF v
  <2>6. l < CounterMod
    BY <2>1, <2>3, SizesAssumption
  <2>7. stats'["nic_pkt_drop"] # v
    BY <2>1, <2>5, <2>6, CounterMoves
  <2> QED
    BY <2>7 DEF v
<1> QED
  BY <1>8, <1>9, <1>10

LEMMA NextForwards ==
  ASSUME Consistent, Next, NEW n \in DOMAIN pending' \ DOMAIN pending
  PROVE  \E q \in Faces \ pending'[n], m \in FreeMbufs :
           \/ \E i \in DOMAIN tx'[q] : tx'[q][i] = m
           \/ \E i \in DOMAIN nic'[q] : nic'[q][i] = m
           \/ stats'["nic_pkt_drop"] # stats["nic_pkt_drop"]
<1>1. QueuesOK /\ StoreOK /\ NamesOK
  BY ConsistentParts DEF NamesOK, Consistent
<1>2. PICK k \in Names, p \in Faces, q \in Faces : InterestForwarded(p, k, q)
  BY <1>1, StepNames
<1>3. pending' = Pit!With(pending, k, p) /\ q # p
  BY <1>2 DEF InterestForwarded, Pit!Record
<1>4. n = k /\ pending'[n] = {p}
  BY <1>3 DEF Pit!With
<1>5. PICK m \in FreeMbufs : Send({q}, m, One(m), {"int_recv", "int_fib_hit"}, 0)
  BY <1>2 DEF InterestForwarded
<1>6. \/ Carries(tx'[q], m) \/ Carries(nic'[q], m)
      \/ stats'["nic_pkt_drop"] # stats["nic_pkt_drop"]
  <2>1. m \in Mbufs /\ "nic_pkt_drop" \notin {"int_recv", "int_fib_hit"}
    BY DEF FreeMbufs
  <2> QED
    BY <1>1, <1>5, <2>1, SendOneGoes
<1> QED
  BY <1>3, <1>4, <1>6 DEF Carries

\* A name becomes pending only with its Interest on the way to a face that did
\* not ask for it: in a batch, with the NIC, or refused by it and counted.
THEOREM PendingAlwaysForwarded == Spec => PendingIsForwarded
<1> DEFINE A == \A n \in DOMAIN pending' \ DOMAIN pending :
                  \E q \in Faces \ pending'[n], m \in FreeMbufs :
                    \/ \E i \in DOMAIN tx'[q] : tx'[q][i] = m
                    \/ \E i \in DOMAIN nic'[q] : nic'[q][i] = m
                    \/ stats'["nic_pkt_drop"] # stats["nic_pkt_drop"]
<1>1. Consistent /\ [Next]_vars => [A]_vars
  BY NextForwards
<1>2. Spec => [][A]_vars
  <2> HIDE DEF A
  <2> QED
    BY <1>1, ForwarderConsistent, PTL DEF Spec
<1> QED
  BY <1>2 DEF PendingIsForwarded

-----------------------------------------------------------------------------
(* What an lcore keeps out of the pool.                                    *)

\* So many numbers has an interval.
LEMMA IntervalSize ==
  ASSUME NEW n \in Nat
  PROVE  IsFiniteSet(1 .. n) /\ Cardinality(1 .. n) = n
<1>1. /\ Cardinality(1 .. n) = (IF 1 > n THEN 0 ELSE n - 1 + 1)
      /\ IsFiniteSet(1 .. n)
  BY FS_Interval
<1>2. (IF 1 > n THEN 0 ELSE n - 1 + 1) = n
  OBVIOUS
<1> QED
  BY <1>1, <1>2

LEMMA ConcatCarried ==
  ASSUME NEW s \in Seq(Mbufs), NEW t \in Seq(Mbufs), NEW m, Carries(s, m)
  PROVE  Carries(s \o t, m)
<1>1. PICK i \in DOMAIN s : s[i] = m
  BY DEF Carries
<1>2. i \in DOMAIN (s \o t) /\ (s \o t)[i] = m
  BY <1>1, ConcatPlaces, LenProperties
<1> QED
  BY <1>2 DEF Carries

\* A buffer that queues use is in one of them.
LEMMA UsedIsCarried ==
  ASSUME NEW q \in Queues, NEW m, Uses(m, q) # 0
  PROVE  \E p \in Faces : Carries(q[p], m)
<1>1. {x \in Places(q) : q[x[1]][x[2]] = m} # {}
  BY FS_EmptySet DEF Uses
<1>2. PICK x \in Places(q) : q[x[1]][x[2]] = m
  BY <1>1
<1>3. x[1] \in Faces /\ x[2] \in DOMAIN q[x[1]]
  BY DEF Places
<1> QED
  BY <1>2, <1>3 DEF Carries

\* A full batch is sent in the step that fills it.
BatchesOpen == \A p \in Faces : Len(tx[p]) < MaxBurst

LEMMA SendKeepsOpen ==
  ASSUME QueuesOK, BatchesOpen, NEW F \in SUBSET Faces, NEW m \in Mbufs,
         NEW gain, NEW c, NEW n, Send(F, m, gain, c, n)
  PROVE  BatchesOpen'
<1> SUFFICES ASSUME NEW p \in Faces
             PROVE  Len(tx'[p]) < MaxBurst
  BY DEF BatchesOpen
<1> DEFINE q == [r \in Faces |-> IF r \in F THEN Append(tx[r], m) ELSE tx[r]]
<1>1. tx' = [r \in Faces |->
               IF r \in {r1 \in F : Len(q[r1]) = MaxBurst} THEN <<>> ELSE q[r]]
  BY DEF Send, Transmit
<1>2. tx'[p] = IF p \in F /\ Len(q[p]) = MaxBurst THEN <<>> ELSE q[p]
  BY <1>1
<1>3. /\ Len(tx[p]) \in Nat /\ Len(tx[p]) < MaxBurst
      /\ Len(Append(tx[p], m)) = Len(tx[p]) + 1
  BY DEF QueuesOK, Queues, BatchesOpen
<1>4. q[p] = IF p \in F THEN Append(tx[p], m) ELSE tx[p]
  OBVIOUS
<1>5. Len(<<>>) = 0 /\ MaxBurst \in Nat \ {0}
  BY SizesAssumption
<1> HIDE DEF q
<1>6. CASE p \in F
  <2>1. Len(q[p]) = Len(tx[p]) + 1
    BY <1>3, <1>4, <1>6
  <2> QED
    BY <1>2, <1>3, <1>5, <1>6, <2>1
<1>7. CASE p \notin F
  BY <1>2, <1>3, <1>4, <1>7
<1> QED
  BY <1>6, <1>7

LEMMA NextKeepsOpen ==
  ASSUME Consistent, BatchesOpen, [Next]_vars
  PROVE  BatchesOpen'
<1>1. QueuesOK /\ StoreOK /\ MapsOK
  BY ConsistentParts
<1>2. ASSUME UNCHANGED tx
      PROVE  BatchesOpen'
  BY <1>2 DEF BatchesOpen
<1>3. CASE UNCHANGED vars
  BY <1>2, <1>3 DEF vars
<1>4. CASE Malformed
  BY <1>2, <1>4 DEF Malformed, FreeReceived
<1>5. ASSUME NEW p \in Faces, NEW n \in Names, InterestCsHit(p, n)
      PROVE  BatchesOpen'
  <2>1. csret'.mbuf \in Mbufs
    BY <1>1, <1>5, FindFacts DEF InterestCsHit
  <2> QED
    BY <1>1, <1>5, <2>1, SendKeepsOpen DEF InterestCsHit
<1>6. ASSUME NEW p \in Faces, NEW n \in Names,
             \/ InterestAggregated(p, n) \/ InterestRefused(p, n)
             \/ InterestNoRoute(p, n) \/ InterestLoop(p, n)
      PROVE  BatchesOpen'
  BY <1>2, <1>6 DEF InterestAggregated, InterestRefused, InterestNoRoute,
                    InterestLoop, InterestUnroutable, FreeReceived
<1>7. ASSUME NEW p \in Faces, NEW n \in Names, NEW q \in Faces,
             InterestForwarded(p, n, q)
      PROVE  BatchesOpen'
  <2>1. PICK m \in FreeMbufs : Send({q}, m, One(m), {"int_recv", "int_fib_hit"}, 0)
    BY <1>7 DEF InterestForwarded
  <2>2. m \in Mbufs /\ {q} \in SUBSET Faces
    BY DEF FreeMbufs
  <2> QED
    BY <1>1, <2>1, <2>2, SendKeepsOpen
<1>8. ASSUME NEW n \in Names, Data(n)
      PROVE  BatchesOpen'
  <2> DEFINE F == IF n \in DOMAIN pending THEN pending[n] ELSE {}
             c == IF F = {} THEN {"data_recv", "data_pit_miss"} ELSE {"data_recv"}
             gain(m) == [x \in Mbufs |-> (1 + Cardinality(F)) * One(m)[x]
                                         - (IF x = csret'.freed THEN 1 ELSE 0)]
  <2>1. F \in SUBSET Faces
    BY <1>1 DEF MapsOK
  <2>2. PICK m \in FreeMbufs : Send(F, m, gain(m), c, Cardinality(F))
    BY <1>8 DEF Data
  <2>3. m \in Mbufs
    BY DEF FreeMbufs
  <2> HIDE DEF F, c, gain
  <2> QED
    BY <1>1, <2>1, <2>2, <2>3, SendKeepsOpen
<1>9. CASE Drain
  <2> SUFFICES ASSUME NEW p \in Faces
               PROVE  Len(tx'[p]) < MaxBurst
    BY DEF BatchesOpen
  <2>1. tx'[p] = IF tx[p] # <<>> THEN <<>> ELSE tx[p]
    BY <1>9 DEF Drain, Transmit
  <2>2. tx'[p] = <<>> /\ Len(<<>>) = 0 /\ MaxBurst \in Nat \ {0}
    BY <2>1, SizesAssumption
  <2> QED
    BY <2>2
<1>10. ASSUME NEW p \in Faces, Transmitted(p)
       PROVE  BatchesOpen'
  BY <1>2, <1>10 DEF Transmitted
<1>11. ASSUME NEW m \in Mbufs, Shared(m)
       PROVE  BatchesOpen'
  BY <1>2, <1>11 DEF Shared
<1> QED
  BY <1>3, <1>4, <1>5, <1>6, <1>7, <1>8, <1>9, <1>10, <1>11 DEF Next, Receive

\* The batch, ring and released frames of each face, one after the other.
OnTheWay == [p \in Faces |-> tx[p] \o (nic[p] \o done[p])]

LEMMA FewOnTheWay ==
  ASSUME QueuesOK, BatchesOpen
  PROVE  /\ OnTheWay \in Queues
         /\ \A p \in Faces : Len(OnTheWay[p]) <= MaxBurst - 1 + NicRing
         /\ \A p \in Faces : \A m : Carries(tx[p], m) \/ Carries(nic[p], m)
                                   \/ Carries(done[p], m) => Carries(OnTheWay[p], m)
<1> SUFFICES ASSUME NEW p \in Faces
             PROVE  /\ OnTheWay[p] \in Seq(Mbufs)
                    /\ Len(OnTheWay[p]) <= MaxBurst - 1 + NicRing
                    /\ \A m : Carries(tx[p], m) \/ Carries(nic[p], m)
                             \/ Carries(done[p], m) => Carries(OnTheWay[p], m)
  BY DEF OnTheWay, Queues
<1> DEFINE t == tx[p]
           k == nic[p]
           d == done[p]
<1>1. t \in Seq(Mbufs) /\ k \in Seq(Mbufs) /\ d \in Seq(Mbufs)
  BY DEF QueuesOK, Queues
<1>2. OnTheWay[p] = t \o (k \o d)
  BY DEF OnTheWay
<1>3. Len(t) < MaxBurst /\ Len(k) + Len(d) <= NicRing
  BY DEF BatchesOpen, QueuesOK, RingsOK
<1> HIDE DEF t, k, d
<1>4. k \o d \in Seq(Mbufs) /\ Len(k \o d) = Len(k) + Len(d)
  BY <1>1, ConcatProperties
<1>5. t \o (k \o d) \in Seq(Mbufs) /\ Len(t \o (k \o d)) = Len(t) + Len(k \o d)
  BY <1>1, <1>4, ConcatProperties
<1>6. Len(t) \in Nat /\ Len(k) \in Nat /\ Len(d) \in Nat
  BY <1>1, LenProperties
<1>7. Len(OnTheWay[p]) <= MaxBurst - 1 + NicRing
  BY <1>2, <1>3, <1>4, <1>5, <1>6, SizesAssumption
<1>8. ASSUME NEW m, Carries(t, m) \/ Carries(k, m) \/ Carries(d, m)
      PROVE  Carries(t \o (k \o d), m)
  BY <1>1, <1>4, <1>8, ConcatCarried, CarriesConcat
<1> QED
  BY <1>2, <1>5, <1>7, <1>8 DEF t, k, d

LEMMA ShareBound ==
  ASSUME Consistent, BatchesOpen
  PROVE  ShareIsBounded
<1> DEFINE InStore == {store[k].mbuf : k \in DOMAIN store}
           w       == MaxBurst - 1 + NicRing
           Spaces  == Faces \X (1 .. w)
           Used    == {x \in Spaces : x[2] \in DOMAIN OnTheWay[x[1]]}
           Away    == {OnTheWay[x[1]][x[2]] : x \in Used}
<1>1. QueuesOK /\ StoreOK
  BY ConsistentParts
<1>2. w \in Nat /\ Capacity \in Nat
  BY SizesAssumption
<1>3. Share \subseteq InStore \cup Away
  <2> SUFFICES ASSUME NEW m \in Share
               PROVE  m \in InStore \cup Away
    OBVIOUS
  <2>1. m \in Mbufs /\ ref[m] > 0 /\ m \notin lent /\ m \notin lost
    BY DEF Share
  <2>2. ref[m] = Holders(m)
    <3>1. ref[m] = Holders(m) + 0 /\ ref[m] \in Nat
      BY <2>1 DEF Consistent, ReferencesAccounted, TypeOK
    <3>2. Holders(m) = Held(m, store) + Uses(m, tx) + Uses(m, nic) + Uses(m, done) + 0
      BY <2>1 DEF Holders, Held
    <3>3. Holders(m) \in Int
      BY <1>1, <2>1, <3>2, CountsAreNumbers
    <3> QED
      BY <3>1, <3>3
  <2>3. Holders(m) = Held(m, store) + Uses(m, tx) + Uses(m, nic) + Uses(m, done) + 0
    BY <2>1 DEF Holders, Held
  <2>4. Held(m, store) # 0 \/ Uses(m, tx) # 0 \/ Uses(m, nic) # 0 \/ Uses(m, done) # 0
    BY <2>1, <2>2, <2>3
  <2>5. CASE Held(m, store) # 0
    <3>1. {k \in DOMAIN store : store[k].mbuf = m} # {}
      BY <2>5, FS_EmptySet DEF Held
    <3> QED
      BY <3>1
  <2>6. CASE Uses(m, tx) # 0 \/ Uses(m, nic) # 0 \/ Uses(m, done) # 0
    <3>1. \E p \in Faces : Carries(tx[p], m) \/ Carries(nic[p], m) \/ Carries(done[p], m)
      BY <1>1, <2>6, UsedIsCarried DEF QueuesOK
    <3>2. PICK p \in Faces : Carries(OnTheWay[p], m)
      BY <1>1, <3>1, FewOnTheWay
    <3>3. PICK i \in DOMAIN OnTheWay[p] : OnTheWay[p][i] = m
      BY <3>2 DEF Carries
    <3>4. DOMAIN OnTheWay[p] = 1 .. Len(OnTheWay[p]) /\ Len(OnTheWay[p]) \in Nat
          /\ Len(OnTheWay[p]) <= w
      BY <1>1, FewOnTheWay, LenProperties DEF Queues
    <3>5. i \in 1 .. w
      <4> HIDE DEF w
      <4> QED
        BY <1>2, <3>3, <3>4
    <3>6. <<p, i>> \in Used
      BY <3>3, <3>5
    <3>7. OnTheWay[<<p, i>>[1]][<<p, i>>[2]] \in Away
      BY <3>6
    <3> QED
      BY <3>3, <3>7
  <2> QED
    BY <2>4, <2>5, <2>6
<1>4. IsFiniteSet(InStore) /\ Cardinality(InStore) <= Capacity
  <2> DEFINE f == [k \in DOMAIN store |-> store[k].mbuf]
  <2>1. f \in Surjection(DOMAIN store, InStore)
    BY DEF Surjection
  <2>2. DOMAIN store = 1 .. Len(store) /\ Len(store) \in Nat /\ Len(store) <= Capacity
    BY <1>1, LenProperties DEF StoreOK
  <2>3. IsFiniteSet(DOMAIN store) /\ Cardinality(DOMAIN store) = Len(store)
    <3> DEFINE n == Len(store)
    <3> HIDE DEF n
    <3>1. IsFiniteSet(1 .. n) /\ Cardinality(1 .. n) = n
      BY <2>2, IntervalSize DEF n
    <3> QED
      BY <2>2, <3>1 DEF n
  <2> HIDE DEF InStore, f
  <2>4. IsFiniteSet(InStore) /\ Cardinality(InStore) <= Cardinality(DOMAIN store)
    BY <2>1, <2>3, FS_Surjection
  <2>5. Cardinality(InStore) \in Nat
    BY <2>4, FS_CardinalityType
  <2> QED
    BY <1>2, <2>2, <2>3, <2>4, <2>5
<1>5. IsFiniteSet(Away) /\ Cardinality(Away) <= Cardinality(Faces) * w
  <2>1. IsFiniteSet(1 .. w) /\ Cardinality(1 .. w) = w
    BY <1>2, IntervalSize
  <2>2. IsFiniteSet(Spaces) /\ Cardinality(Spaces) = Cardinality(Faces) * Cardinality(1 .. w)
    BY <2>1, FacesAssumption, FS_Product
  <2>3. IsFiniteSet(Used) /\ Cardinality(Used) <= Cardinality(Spaces)
    <3>1. Used \in SUBSET Spaces
      OBVIOUS
    <3> HIDE DEF Used, Spaces
    <3> QED
      BY <2>2, <3>1, FS_Subset
  <2> DEFINE g == [x \in Used |-> OnTheWay[x[1]][x[2]]]
  <2>4. g \in Surjection(Used, Away)
    BY DEF Surjection
  <2> HIDE DEF Used, Spaces, Away, g
  <2>5. IsFiniteSet(Away) /\ Cardinality(Away) <= Cardinality(Used)
    BY <2>3, <2>4, FS_Surjection
  <2>6. /\ Cardinality(Away) \in Nat /\ Cardinality(Used) \in Nat
        /\ Cardinality(Spaces) \in Nat
    BY <2>2, <2>3, <2>5, FS_CardinalityType
  <2>7. Cardinality(Spaces) = Cardinality(Faces) * w
    BY <2>1, <2>2
  <2> QED
    BY <2>3, <2>5, <2>6, <2>7
<1> HIDE DEF InStore, Away
<1>6. /\ IsFiniteSet(InStore \cup Away)
      /\ Cardinality(InStore \cup Away)
           = Cardinality(InStore) + Cardinality(Away) - Cardinality(InStore \cap Away)
  BY <1>4, <1>5, FS_Union
<1>7. Cardinality(Share) <= Cardinality(InStore \cup Away)
      /\ IsFiniteSet(Share) /\ IsFiniteSet(InStore \cap Away)
  BY <1>3, <1>4, <1>6, FS_Subset, FS_Intersection
<1>8. /\ Cardinality(Share) \in Nat /\ Cardinality(InStore) \in Nat
      /\ Cardinality(Away) \in Nat /\ Cardinality(InStore \cap Away) \in Nat
      /\ Cardinality(InStore \cup Away) \in Nat /\ Cardinality(Faces) \in Nat
  BY <1>4, <1>5, <1>6, <1>7, FacesAssumption, FS_CardinalityType
<1>9. Demand = Capacity + Cardinality(Faces) * w
  BY DEF Demand
<1> DEFINE z == Cardinality(Faces) * w
<1>10. z \in Nat
  <2> HIDE DEF w
  <2> QED
    BY <1>2, <1>8
<1>11. Cardinality(Away) <= z /\ Demand = Capacity + z
  BY <1>5, <1>9
<1> HIDE DEF z, w
<1> QED
  BY <1>2, <1>4, <1>6, <1>7, <1>8, <1>10, <1>11 DEF ShareIsBounded

\* An lcore never keeps more buffers of the shared pool than its cache, its
\* batches and its rings have room for, buffers that the CS refused aside
\* (defaults.h:147-149, 173-175).
THEOREM ShareAlwaysBounded == Spec => []ShareIsBounded
<1>1. Init => BatchesOpen
  BY SizesAssumption DEF Init, BatchesOpen
<1>2. Consistent /\ BatchesOpen /\ [Next]_vars => BatchesOpen'
  BY NextKeepsOpen
<1>3. Consistent /\ BatchesOpen => ShareIsBounded
  BY ShareBound
<1> QED
  BY <1>1, <1>2, <1>3, ForwarderConsistent, PTL DEF Spec
=============================================================================
