------------------------------ MODULE FibProofs ------------------------------
(***************************************************************************)
(* Proofs about Fib for every set of prefixes, hash and table size.        *)
(***************************************************************************)
EXTENDS Fib, FiniteSetTheorems, FunctionTheorems, TLAPS

LEMMA InitConsistent == Init => Consistent
<1> SUFFICES ASSUME Init
             PROVE  Consistent
  OBVIOUS
<1>1. 0 \in Index /\ 0 \in 0 .. MaxElements
  BY SizesAssumption DEF Index
<1> QED
  BY <1>1
  DEF Init, Consistent, TypeOK, SlotsOwnEntries, TableEntry, FwdEntry

\* A step that at most frees slots keeps the table consistent.
LEMMA FreeingKeepsConsistent ==
  ASSUME Consistent, busy' \subseteq busy,
         UNCHANGED <<entry, fwd, next_free>>,
         ret' \in Faces \cup {0, -EINVAL, -ENOENT, -ENOSPC}
  PROVE  Consistent'
<1>1. TypeOK'
  BY DEF Consistent, TypeOK
<1>2. SlotsOwnEntries'
  BY DEF Consistent, SlotsOwnEntries, RouteAt, BucketOf
<1> QED
  BY <1>1, <1>2 DEF Consistent

\* What an addition writes: a slot that was free, an entry no slot led to, and
\* over the ends of the names that ran into that entry.
LEMMA AddWrites ==
  ASSUME Consistent, NEW p \in Prefixes, NEW f \in Faces, Add(p, f)
  PROVE  \E s \in Slots :
           /\ s \notin busy /\ s[1] = BucketOf(p)
           /\ busy' = busy \cup {s}
           /\ entry' \in [Slots -> TableEntry]
           /\ entry'[s] = [crc |-> Crc[p], index |-> next_free]
           /\ \A r \in Slots \ {s} : entry'[r] = entry[r]
           /\ next_free \in Index /\ next_free' = next_free + 1
           /\ fwd' \in [Index -> FwdEntry]
           /\ fwd'[next_free] = [name |-> p, face |-> f]
           /\ \A i \in Index \ {next_free} :
                fwd'[i] = IF i \in Overrun THEN [fwd[i] EXCEPT !.name = NoPrefix]
                          ELSE fwd[i]
<1>1. PICK s \in FreeSlots(p) :
        /\ busy' = busy \cup {s}
        /\ entry' = [entry EXCEPT ![s] = [crc |-> Crc[p], index |-> next_free]]
  BY DEF Add
<1>2. /\ s \in Slots /\ s \notin busy /\ s[1] = BucketOf(p)
      /\ entry \in [Slots -> TableEntry] /\ fwd \in [Index -> FwdEntry]
  BY DEF FreeSlots, Consistent, TypeOK
<1>3. next_free \in Index
  BY SizesAssumption DEF Consistent, TypeOK, Index, Add, IsFull
<1>4. /\ entry' \in [Slots -> TableEntry]
      /\ entry'[s] = [crc |-> Crc[p], index |-> next_free]
      /\ \A r \in Slots \ {s} : entry'[r] = entry[r]
  BY <1>1, <1>2, <1>3, CrcAssumption DEF TableEntry
<1>5. /\ fwd' \in [Index -> FwdEntry]
      /\ fwd'[next_free] = [name |-> p, face |-> f]
      /\ \A i \in Index \ {next_free} :
           fwd'[i] = IF i \in Overrun THEN [fwd[i] EXCEPT !.name = NoPrefix]
                     ELSE fwd[i]
  <2>1. fwd' = [i \in Index |->
                  CASE i = next_free -> [name |-> p, face |-> f]
                    [] i \in Overrun -> [fwd[i] EXCEPT !.name = NoPrefix]
                    [] OTHER         -> fwd[i]]
    BY DEF Add
  <2>2. next_free \notin Overrun
    BY <1>3 DEF Overrun, Index
  <2>3. ASSUME NEW i \in Index
        PROVE  fwd'[i] = IF i = next_free THEN [name |-> p, face |-> f]
                         ELSE IF i \in Overrun
                              THEN [fwd[i] EXCEPT !.name = NoPrefix]
                              ELSE fwd[i]
    BY <2>1, <2>2
  <2>4. ASSUME NEW i \in Index
        PROVE  fwd'[i] \in FwdEntry
    <3>1. fwd[i] \in FwdEntry
      BY <1>2
    <3>2. [fwd[i] EXCEPT !.name = NoPrefix] \in FwdEntry
      BY <3>1 DEF FwdEntry
    <3>3. [name |-> p, face |-> f] \in FwdEntry
      BY DEF FwdEntry
    <3> QED
      BY <2>3, <3>1, <3>2, <3>3
  <2> QED
    BY <1>3, <2>1, <2>3, <2>4
<1> QED
  BY <1>1, <1>2, <1>3, <1>4, <1>5 DEF Add

\* An addition writes to no slot in use; of the entry one leads to it changes
\* at most the name, and that only if the name runs into the next entry.
LEMMA AddLeavesRoutes ==
  ASSUME Consistent, NEW p \in Prefixes, NEW f \in Faces, Add(p, f)
  PROVE  \A r \in busy :
           /\ r \in Slots
           /\ entry'[r] = entry[r]
           /\ entry[r].index \in Index /\ entry[r].index < next_free
           /\ RouteAt(r)' = fwd'[entry[r].index]
           /\ RouteAt(r)'.face = RouteAt(r).face
           /\ RouteAt(r)'.name \in {RouteAt(r).name, NoPrefix}
           /\ RouteAt(r).name \in Fitting => RouteAt(r)' = RouteAt(r)
<1>1. PICK s \in Slots :
        /\ s \notin busy
        /\ \A r \in Slots \ {s} : entry'[r] = entry[r]
        /\ next_free \in Index
        /\ \A i \in Index \ {next_free} :
             fwd'[i] = IF i \in Overrun THEN [fwd[i] EXCEPT !.name = NoPrefix]
                       ELSE fwd[i]
  BY AddWrites
<1> SUFFICES ASSUME NEW r \in busy
             PROVE  /\ r \in Slots
                    /\ entry'[r] = entry[r]
                    /\ entry[r].index \in Index /\ entry[r].index < next_free
                    /\ RouteAt(r)' = fwd'[entry[r].index]
                    /\ RouteAt(r)'.face = RouteAt(r).face
                    /\ RouteAt(r)'.name \in {RouteAt(r).name, NoPrefix}
                    /\ RouteAt(r).name \in Fitting => RouteAt(r)' = RouteAt(r)
  OBVIOUS
<1>2. r \in Slots /\ entry'[r] = entry[r]
  BY <1>1 DEF Consistent, TypeOK
<1>3. entry[r].index \in Index /\ entry[r].index < next_free
  BY <1>2 DEF Consistent, TypeOK, TableEntry, SlotsOwnEntries
<1>4. entry[r].index # next_free
  BY <1>1, <1>3 DEF Index
<1>5. RouteAt(r)' = fwd'[entry[r].index] /\ RouteAt(r) = fwd[entry[r].index]
  BY <1>2 DEF RouteAt
<1>6. RouteAt(r) \in FwdEntry
  BY <1>3, <1>5 DEF Consistent, TypeOK
<1>7. RouteAt(r)' = IF entry[r].index \in Overrun
                    THEN [RouteAt(r) EXCEPT !.name = NoPrefix] ELSE RouteAt(r)
  BY <1>1, <1>3, <1>4, <1>5
<1>8. ASSUME RouteAt(r).name \in Fitting
      PROVE  entry[r].index \notin Overrun
  <2>1. Reach[RouteAt(r).name] = 0
    BY <1>8 DEF Fitting
  <2> QED
    BY <1>1, <1>3, <1>5, <2>1 DEF Overrun, Index
<1>9. /\ RouteAt(r)'.face = RouteAt(r).face
      /\ RouteAt(r)'.name \in {RouteAt(r).name, NoPrefix}
  BY <1>6, <1>7 DEF FwdEntry
<1> QED
  BY <1>2, <1>3, <1>5, <1>7, <1>8, <1>9

LEMMA AddKeepsConsistent ==
  ASSUME Consistent, NEW p \in Prefixes, NEW f \in Faces, Add(p, f)
  PROVE  Consistent'
<1>1. PICK s \in Slots :
        /\ s \notin busy /\ s[1] = BucketOf(p)
        /\ busy' = busy \cup {s}
        /\ entry' \in [Slots -> TableEntry]
        /\ entry'[s] = [crc |-> Crc[p], index |-> next_free]
        /\ next_free \in Index /\ next_free' = next_free + 1
        /\ fwd' \in [Index -> FwdEntry]
        /\ fwd'[next_free] = [name |-> p, face |-> f]
  BY AddWrites
<1>2. TypeOK'
  <2>1. next_free' \in 0 .. MaxElements /\ busy' \subseteq Slots
    BY <1>1, SizesAssumption DEF Index, Consistent, TypeOK
  <2>2. ret' = 0
    BY DEF Add
  <2> QED
    BY <1>1, <2>1, <2>2 DEF TypeOK
<1>3. \A r \in busy : /\ entry'[r] = entry[r]
                      /\ entry[r].index \in Index
                      /\ entry[r].index < next_free
                      /\ RouteAt(r)'.face = RouteAt(r).face
                      /\ RouteAt(r)'.name \in {RouteAt(r).name, NoPrefix}
                      /\ RouteAt(r).name \in Fitting => RouteAt(r)' = RouteAt(r)
  BY AddLeavesRoutes
<1>4. \A r \in busy' : /\ entry'[r].index < next_free'
                       /\ RouteAt(r)'.face \in Faces
                       /\ NamesFit => RouteAt(r)'.name \in Prefixes
                       /\ RouteAt(r)'.name \in Prefixes =>
                            /\ entry'[r].crc = Crc[RouteAt(r)'.name]
                            /\ r[1] = BucketOf(RouteAt(r)'.name)
  <2> SUFFICES ASSUME NEW r \in busy'
               PROVE  /\ entry'[r].index < next_free'
                      /\ RouteAt(r)'.face \in Faces
                      /\ NamesFit => RouteAt(r)'.name \in Prefixes
                      /\ RouteAt(r)'.name \in Prefixes =>
                           /\ entry'[r].crc = Crc[RouteAt(r)'.name]
                           /\ r[1] = BucketOf(RouteAt(r)'.name)
    OBVIOUS
  <2>1. CASE r = s
    <3>1. RouteAt(r)' = [name |-> p, face |-> f]
      BY <1>1, <2>1 DEF RouteAt
    <3>2. entry'[r].index < next_free' /\ entry'[r].crc = Crc[p]
      BY <1>1, <2>1 DEF Index
    <3> QED
      BY <1>1, <2>1, <3>1, <3>2
  <2>2. CASE r \in busy
    <3>1. /\ entry'[r] = entry[r] /\ entry[r].index \in Index
          /\ RouteAt(r)'.face = RouteAt(r).face
          /\ RouteAt(r)'.name \in {RouteAt(r).name, NoPrefix}
          /\ RouteAt(r).name \in Fitting => RouteAt(r)' = RouteAt(r)
      BY <1>3, <2>2
    <3>2. /\ entry[r].index < next_free
          /\ RouteAt(r).face \in Faces
          /\ NamesFit => RouteAt(r).name \in Prefixes
          /\ RouteAt(r).name \in Prefixes =>
               /\ entry[r].crc = Crc[RouteAt(r).name]
               /\ r[1] = BucketOf(RouteAt(r).name)
      BY <2>2 DEF Consistent, SlotsOwnEntries
    <3>3. entry'[r].index < next_free'
      BY <1>1, <3>1, <3>2 DEF Index
    <3>4. NamesFit => RouteAt(r)'.name \in Prefixes
      BY <3>1, <3>2 DEF NamesFit
    <3>5. RouteAt(r)'.name \in Prefixes => RouteAt(r)'.name = RouteAt(r).name
      BY <3>1, PrefixesAssumption
    <3> QED
      BY <3>1, <3>2, <3>3, <3>4, <3>5
  <2> QED
    BY <1>1, <2>1, <2>2
<1>5. \A r, q \in busy' : entry'[r].index = entry'[q].index => r = q
  <2>1. \A r \in busy : entry'[r].index # next_free
    BY <1>1, <1>3 DEF Index
  <2>2. \A r, q \in busy : entry'[r].index = entry'[q].index => r = q
    BY <1>3 DEF Consistent, SlotsOwnEntries
  <2>3. entry'[s].index = next_free
    BY <1>1
  <2> QED
    BY <1>1, <2>1, <2>2, <2>3
<1>6. SlotsOwnEntries'
  BY <1>4, <1>5 DEF SlotsOwnEntries, BucketOf
<1> QED
  BY <1>2, <1>6 DEF Consistent

\* A lookup answers with a face or an error.
LEMMA LookupAnswers ==
  ASSUME Consistent, NEW n \in Names, Lookup(n)
  PROVE  ret' \in Faces \cup {-ENOENT}
<1>1. CASE \E k \in DOMAIN Path[n] : Found(n, k)
  <2>1. PICK k \in DOMAIN Path[n], s \in busy : ret' = RouteAt(s).face
    BY <1>1 DEF Found, Matches
  <2> QED
    BY <2>1 DEF Consistent, SlotsOwnEntries
<1>2. CASE ret' = -ENOENT
  BY <1>2
<1> QED
  BY <1>1, <1>2 DEF Lookup

LEMMA StepKeepsConsistent ==
  ASSUME Consistent, [Next]_vars
  PROVE  Consistent'
<1>1. ASSUME NEW p \in Prefixes, NEW f \in Faces, Add(p, f)
      PROVE  Consistent'
  BY <1>1, AddKeepsConsistent
<1>2. ASSUME NEW p \in Prefixes, NEW f \in Faces, Del(p, f)
      PROVE  Consistent'
  BY <1>2, FreeingKeepsConsistent DEF Del
<1>3. ASSUME NEW p \in Prefixes, NEW f \in Faces, DelMissing(p, f)
      PROVE  Consistent'
  BY <1>3, FreeingKeepsConsistent DEF DelMissing
<1>4. ASSUME NEW p \in Prefixes, AddRefused(p)
      PROVE  Consistent'
  BY <1>4, FreeingKeepsConsistent DEF AddRefused
<1>5. CASE Invalid
  BY <1>5, FreeingKeepsConsistent DEF Invalid
<1>6. ASSUME NEW n \in Names, Lookup(n)
      PROVE  Consistent'
  BY <1>6, LookupAnswers, FreeingKeepsConsistent DEF Lookup
<1>7. CASE UNCHANGED vars
  <2>1. ret' \in Faces \cup {0, -EINVAL, -ENOENT, -ENOSPC}
    BY <1>7 DEF vars, Consistent, TypeOK
  <2> QED
    BY <1>7, <2>1, FreeingKeepsConsistent DEF vars
<1> QED
  BY <1>1, <1>2, <1>3, <1>4, <1>5, <1>6, <1>7 DEF Next

\* The type invariant and the ownership of entries hold in every state.
THEOREM FibConsistent == Spec => []Consistent
<1>1. Init => Consistent
  BY InitConsistent
<1>2. Consistent /\ [Next]_vars => Consistent'
  BY StepKeepsConsistent
<1> QED
  BY <1>1, <1>2, PTL DEF Spec

\* Slots and entries of a FIB stay within their ranges for any sizes: the next
\* free entry is never beyond the table.
THEOREM FibTypeCorrect == Spec => []TypeOK
<1>1. Consistent => TypeOK
  BY DEF Consistent
<1> QED
  BY <1>1, FibConsistent, PTL

\* No two routes share an entry, and every route is in the bucket, and under
\* the CRC, that a lookup of its prefix looks at.
THEOREM AlwaysOwnEntries == Spec => []SlotsOwnEntries
<1>1. Consistent => SlotsOwnEntries
  BY DEF Consistent
<1> QED
  BY <1>1, FibConsistent, PTL

-----------------------------------------------------------------------------
(* Routes in use are not written to.                                       *)

LEMMA StepLeavesRoutes ==
  ASSUME Consistent, [Next]_vars
  PROVE  LeavesRoutes
<1>1. ASSUME NEW p \in Prefixes, NEW f \in Faces, Add(p, f)
      PROVE  LeavesRoutes
  BY <1>1, AddLeavesRoutes DEF LeavesRoutes
<1>2. ASSUME UNCHANGED <<entry, fwd>>
      PROVE  LeavesRoutes
  BY <1>2 DEF LeavesRoutes, RouteAt
<1> QED
  BY <1>1, <1>2 DEF Next, vars, Del, DelMissing, AddRefused, Invalid, Lookup

\* Additions and deletions leave every other route whose name fits in an entry
\* as it is, however long the names of the others are; a route whose name does
\* not fit keeps its slot and its face.
THEOREM AlwaysUndisturbed == Spec => RoutesUndisturbed
<1>1. Consistent /\ [Next]_vars => [LeavesRoutes]_vars
  BY StepLeavesRoutes
<1> QED
  BY <1>1, FibConsistent, PTL DEF Spec, RoutesUndisturbed

-----------------------------------------------------------------------------
(* The FIB implements RouteTable if all names fit in an entry.  The bag    *)
(* counts, for each route, the busy slots that lead to it.                 *)

\* The busy slots of a route, and those of a prefix's bucket.
Via(r)    == {s \in busy : RouteAt(s).name = r[1] /\ RouteAt(s).face = r[2]}
InUse(p)  == {s \in busy : s[1] = BucketOf(p)}

\* A bucket has BucketSize slots, and is full when all are in use.
LEMMA BucketCount ==
  ASSUME TypeOK, NEW p \in Prefixes
  PROVE  /\ IsFiniteSet(InUse(p)) /\ Cardinality(InUse(p)) \in 0 .. BucketSize
         /\ Cardinality(InUse(p)) = BucketSize <=> FreeSlots(p) = {}
<1> DEFINE b == BucketOf(p)
           T == {k \in Tabs : <<b, k>> \in busy}
           g == [k \in T |-> <<b, k>>]
           B == InUse(p)
<1>1. b \in Buckets
  <2>1. Crc[p] \in Nat /\ NumBuckets \in Nat \ {0}
    BY CrcAssumption, SizesAssumption
  <2> QED
    BY <2>1 DEF BucketOf, Buckets
<1>2. busy \subseteq Slots /\ Slots = Buckets \X Tabs
  BY DEF TypeOK, Slots
<1>3. g \in Bijection(T, B)
  <2>1. B = {s \in busy : s[1] = b}
    BY DEF InUse
  <2>2. g \in [T -> B] /\ \A k, l \in T : g[k] = g[l] => k = l
    BY <2>1
  <2>3. ASSUME NEW s \in B
        PROVE  \E k \in T : g[k] = s
    <3>1. s = <<b, s[2]>> /\ s[2] \in Tabs /\ s \in busy
      BY <1>2, <2>1
    <3>2. s[2] \in T /\ g[s[2]] = s
      BY <3>1
    <3> QED
      BY <3>2
  <2> HIDE DEF g, T, B
  <2> QED
    BY <2>2, <2>3 DEF Bijection, Injection, Surjection, IsInjective
<1>4. IsFiniteSet(Tabs) /\ Cardinality(Tabs) = BucketSize
  <2>1. BucketSize \in Nat \ {0}
    BY SizesAssumption
  <2>2. /\ IsFiniteSet(0 .. BucketSize - 1)
        /\ Cardinality(0 .. BucketSize - 1) =
             IF 0 > BucketSize - 1 THEN 0 ELSE BucketSize - 1 - 0 + 1
    BY <2>1, FS_Interval
  <2> QED
    BY <2>1, <2>2 DEF Tabs
<1>5. /\ IsFiniteSet(T) /\ Cardinality(T) <= BucketSize
      /\ Cardinality(T) = BucketSize <=> T = Tabs
  <2>1. T \in SUBSET Tabs
    OBVIOUS
  <2> HIDE DEF T
  <2> QED
    BY <1>4, <2>1, FS_Subset
<1>6. IsFiniteSet(B) /\ Cardinality(B) = Cardinality(T) /\ Cardinality(B) \in Nat
  <2> HIDE DEF g, T, B
  <2>1. IsFiniteSet(B) /\ Cardinality(B) = Cardinality(T)
    BY <1>3, <1>5, FS_Bijection DEF ExistsBijection
  <2> QED
    BY <2>1, FS_CardinalityType
<1>7. FreeSlots(p) = {} <=> T = Tabs
  <2>1. FreeSlots(p) = {s \in Slots : s \notin busy /\ s[1] = b}
    BY DEF FreeSlots
  <2>2. ASSUME FreeSlots(p) = {}, NEW k \in Tabs
        PROVE  k \in T
    <3>1. <<b, k>> \in Slots /\ <<b, k>>[1] = b
      BY <1>1 DEF Slots
    <3> QED
      BY <2>1, <2>2, <3>1
  <2>3. ASSUME T = Tabs, NEW s \in FreeSlots(p)
        PROVE  FALSE
    <3>1. s = <<b, s[2]>> /\ s[2] \in Tabs /\ s \notin busy
      BY <2>1, <2>3 DEF Slots
    <3> QED
      BY <2>3, <3>1
  <2> QED
    BY <2>2, <2>3
<1> HIDE DEF T, B
<1>8. Cardinality(B) \in 0 .. BucketSize
  BY <1>5, <1>6, SizesAssumption
<1>9. Cardinality(B) = BucketSize <=> FreeSlots(p) = {}
  BY <1>5, <1>6, <1>7
<1> QED
  BY <1>6, <1>8, <1>9 DEF B

\* How many slots a route has, and that these are the slots a search finds.
LEMMA RouteCount ==
  ASSUME Consistent, NEW p \in Prefixes, NEW f \in Faces
  PROVE  /\ Via(<<p, f>>) = MatchesVia(p, f)
         /\ IsFiniteSet(Via(<<p, f>>))
         /\ routes[<<p, f>>] = Cardinality(Via(<<p, f>>))
         /\ routes[<<p, f>>] \in 0 .. BucketSize
         /\ routes[<<p, f>>] > 0 <=> Via(<<p, f>>) # {}
         /\ routes[<<p, f>>] = 0 <=> Via(<<p, f>>) = {}
<1> DEFINE V == Via(<<p, f>>)
<1>1. V = {s \in busy : RouteAt(s).name = p /\ RouteAt(s).face = f}
  BY DEF Via
<1>2. V = MatchesVia(p, f)
  BY <1>1 DEF MatchesVia, Matches, Consistent, SlotsOwnEntries
<1>3. V \in SUBSET InUse(p)
  BY <1>1 DEF InUse, Consistent, SlotsOwnEntries
<1>4. routes[<<p, f>>] = Cardinality(V)
  BY <1>1 DEF routes
<1>5. IsFiniteSet(InUse(p)) /\ Cardinality(InUse(p)) \in 0 .. BucketSize
  BY BucketCount DEF Consistent
<1> HIDE DEF V
<1>6. IsFiniteSet(V) /\ Cardinality(V) <= Cardinality(InUse(p))
  BY <1>3, <1>5, FS_Subset
<1>7. Cardinality(V) \in Nat /\ (Cardinality(V) = 0 <=> V = {})
  BY <1>6, FS_CardinalityType, FS_EmptySet
<1>8. Cardinality(V) \in 0 .. BucketSize
  BY <1>5, <1>6, <1>7, SizesAssumption
<1> QED
  BY <1>2, <1>4, <1>6, <1>7, <1>8 DEF V

\* The routes that share p's bucket, each as often as it is in the bag, are as
\* many as the slots in use there.
LEMMA LoadCount ==
  ASSUME NamesFit, Consistent, NEW p \in Prefixes
  PROVE  Abs!Load(p) = Cardinality(InUse(p))
<1> DEFINE R == Prefixes \X Faces
           X == {x \in R \X (1 .. BucketSize) : /\ BucketOf(x[1][1]) = BucketOf(p)
                                               /\ x[2] <= routes[x[1]]}
           num(r) == CHOOSE g : g \in Bijection(1 .. routes[r], Via(r))
           h == [x \in X |-> num(x[1])[x[2]]]
           B == InUse(p)
<1>1. Abs!Load(p) = Cardinality(X)
  <2>1. X = {x \in Abs!Routes \X (1 .. BucketSize) :
               /\ [q \in Prefixes |-> BucketOf(q)][x[1][1]] =
                    [q \in Prefixes |-> BucketOf(q)][p]
               /\ x[2] <= routes[x[1]]}
    BY DEF Abs!Routes
  <2> HIDE DEF X
  <2> QED
    BY <2>1 DEF Abs!Load, Abs!Routes, Cardinality, Abs!Cardinality
<1>2. ASSUME NEW r \in R
      PROVE  /\ num(r) \in [1 .. routes[r] -> Via(r)]
             /\ \A i, j \in 1 .. routes[r] : num(r)[i] = num(r)[j] => i = j
             /\ \A s \in Via(r) : \E i \in 1 .. routes[r] : num(r)[i] = s
             /\ routes[r] \in 0 .. BucketSize
  <2>1. r = <<r[1], r[2]>> /\ r[1] \in Prefixes /\ r[2] \in Faces
    OBVIOUS
  <2>2. /\ IsFiniteSet(Via(r)) /\ routes[r] = Cardinality(Via(r))
        /\ routes[r] \in 0 .. BucketSize
    BY <2>1, RouteCount
  <2>3. \E g : g \in Bijection(1 .. routes[r], Via(r))
    BY <2>2, FS_CardinalityType DEF ExistsBijection
  <2>4. num(r) \in Bijection(1 .. routes[r], Via(r))
    BY <2>3
  <2> HIDE DEF num
  <2> QED
    BY <2>2, <2>4 DEF Bijection, Injection, Surjection, IsInjective
<1> HIDE DEF num
<1>3. ASSUME NEW x \in X
      PROVE  /\ x = <<x[1], x[2]>> /\ x[1] \in R /\ x[2] \in 1 .. routes[x[1]]
             /\ h[x] = num(x[1])[x[2]]
             /\ h[x] \in Via(x[1]) /\ h[x] \in B
  <2>1. /\ x = <<x[1], x[2]>> /\ x[1] \in R /\ x[2] \in 1 .. BucketSize
        /\ x[2] <= routes[x[1]] /\ BucketOf(x[1][1]) = BucketOf(p)
    OBVIOUS
  <2>2. x[2] \in 1 .. routes[x[1]]
    BY <1>2, <2>1, SizesAssumption
  <2>3. h[x] = num(x[1])[x[2]]
    OBVIOUS
  <2> HIDE DEF h, X
  <2>4. h[x] \in Via(x[1])
    BY <1>2, <2>1, <2>2, <2>3
  <2>5. h[x] \in B
    BY <2>1, <2>4 DEF Via, InUse, Consistent, SlotsOwnEntries
  <2> QED
    BY <2>1, <2>2, <2>3, <2>4, <2>5
<1>4. \A x, y \in X : h[x] = h[y] => x = y
  <2> SUFFICES ASSUME NEW x \in X, NEW y \in X, h[x] = h[y]
               PROVE  x = y
    OBVIOUS
  <2>1. /\ x = <<x[1], x[2]>> /\ x[1] \in R /\ x[2] \in 1 .. routes[x[1]]
        /\ h[x] = num(x[1])[x[2]] /\ h[x] \in Via(x[1])
        /\ y = <<y[1], y[2]>> /\ y[1] \in R /\ y[2] \in 1 .. routes[y[1]]
        /\ h[y] = num(y[1])[y[2]] /\ h[y] \in Via(y[1])
    BY <1>3
  <2> HIDE DEF h, X
  <2>2. x[1] = y[1]
    <3>1. x[1][1] = y[1][1] /\ x[1][2] = y[1][2]
      BY <2>1 DEF Via
    <3> QED
      BY <2>1, <3>1
  <2>3. x[2] = y[2]
    <3>1. \A i, j \in 1 .. routes[x[1]] : num(x[1])[i] = num(x[1])[j] => i = j
      BY <1>2, <2>1
    <3>2. num(x[1])[x[2]] = num(x[1])[y[2]]
      BY <2>1, <2>2
    <3>3. x[2] \in 1 .. routes[x[1]] /\ y[2] \in 1 .. routes[x[1]]
      BY <2>1, <2>2
    <3> QED
      BY <3>1, <3>2, <3>3
  <2> QED
    BY <2>1, <2>2, <2>3
<1>5. ASSUME NEW s \in B
      PROVE  \E x \in X : h[x] = s
  <2> DEFINE r == <<RouteAt(s).name, RouteAt(s).face>>
  <2>1. r \in R /\ s \in Via(r) /\ BucketOf(r[1]) = BucketOf(p)
    BY DEF InUse, Via, Consistent, SlotsOwnEntries
  <2> HIDE DEF r
  <2>2. PICK i \in 1 .. routes[r] : num(r)[i] = s
    BY <1>2, <2>1
  <2>3. i \in 1 .. BucketSize /\ i <= routes[r]
    BY <1>2, <2>1, SizesAssumption
  <2>4. <<r, i>> \in X
    BY <2>1, <2>3
  <2>5. h[<<r, i>>] = num(r)[i]
    BY <2>4
  <2> QED
    BY <2>2, <2>4, <2>5
<1>6. h \in Bijection(X, B)
  <2>1. h \in [X -> B]
    BY <1>3
  <2> HIDE DEF h, X, B
  <2> QED
    BY <1>4, <1>5, <2>1 DEF Bijection, Injection, Surjection, IsInjective
<1>7. Cardinality(X) = Cardinality(B)
  <2>1. IsFiniteSet(B)
    BY BucketCount DEF Consistent
  <2> HIDE DEF h, X, B
  <2>2. ExistsBijection(B, X)
    BY <1>6, Fun_ExistsBijSymmetric DEF ExistsBijection
  <2> QED
    BY <2>1, <2>2, FS_Bijection
<1> QED
  BY <1>1, <1>7

\* The bag before and after a step, by the slots of each route.
LEMMA RoutesBySlots ==
  /\ routes = [r \in Prefixes \X Faces |-> Cardinality(Via(r))]
  /\ routes' = [r \in Prefixes \X Faces |-> Cardinality(Via(r)')]
BY DEF routes, Via

\* The bag refuses an addition when fib_add does.
LEMMA ExhaustedWhenFull ==
  ASSUME NamesFit, Consistent, NEW p \in Prefixes
  PROVE  Abs!Exhausted(p) <=> IsFull \/ FreeSlots(p) = {}
BY LoadCount, BucketCount DEF Consistent, Abs!Exhausted, IsFull

LEMMA AddImplements ==
  ASSUME NamesFit, Consistent, NEW p \in Prefixes, NEW f \in Faces, Add(p, f)
  PROVE  Abs!Add(p, f)
<1>1. PICK s \in Slots :
        /\ s \notin busy /\ busy' = busy \cup {s}
        /\ entry'[s] = [crc |-> Crc[p], index |-> next_free]
        /\ fwd'[next_free] = [name |-> p, face |-> f]
  BY AddWrites
<1>2. \A t \in busy : RouteAt(t)' = RouteAt(t)
  BY AddLeavesRoutes DEF Consistent, SlotsOwnEntries, NamesFit
<1>3. /\ RouteAt(s)' = [name |-> p, face |-> f]
      /\ \A t \in busy : RouteAt(t)' = RouteAt(t)
  BY <1>1, <1>2 DEF RouteAt
<1> DEFINE v == <<p, f>>
<1>4. Via(v)' = Via(v) \cup {s} /\ s \notin Via(v)
  BY <1>1, <1>3 DEF Via
<1>5. \A r \in Prefixes \X Faces : r # v => Via(r)' = Via(r)
  <2> SUFFICES ASSUME NEW r \in Prefixes \X Faces, r # v
               PROVE  Via(r)' = Via(r)
    OBVIOUS
  <2>1. ~(p = r[1] /\ f = r[2])
    OBVIOUS
  <2> QED
    BY <1>1, <1>3, <2>1 DEF Via
<1>6. Cardinality(Via(v)') = Cardinality(Via(v)) + 1
  <2>1. IsFiniteSet(Via(v))
    BY RouteCount
  <2> QED
    BY <1>4, <2>1, FS_AddElement
<1>7. v \in Prefixes \X Faces
  OBVIOUS
<1>8. routes' = [routes EXCEPT ![v] = @ + 1]
  <2> HIDE DEF v
  <2> QED
    BY <1>5, <1>6, <1>7, RoutesBySlots
<1>9. ~Abs!Exhausted(p)
  BY ExhaustedWhenFull DEF Add
<1> QED
  BY <1>8, <1>9 DEF Add, Abs!Add

LEMMA DelImplements ==
  ASSUME Consistent, NEW p \in Prefixes, NEW f \in Faces, Del(p, f)
  PROVE  Abs!Del(p, f)
<1> DEFINE v == <<p, f>>
<1>1. PICK s \in MatchesVia(p, f) : busy' = busy \ {s}
  BY DEF Del
<1>2. s \in Via(v) /\ s \in busy
  BY RouteCount DEF Via
<1>3. UNCHANGED <<entry, fwd>>
  BY DEF Del
<1>4. \A r : Via(r)' = Via(r) \ {s}
  BY <1>1, <1>3 DEF Via, RouteAt
<1>5. \A r \in Prefixes \X Faces : r # v => Via(r)' = Via(r)
  <2> SUFFICES ASSUME NEW r \in Prefixes \X Faces, r # v
               PROVE  Via(r)' = Via(r)
    OBVIOUS
  <2>1. s \notin Via(r)
    BY <1>2 DEF Via
  <2> QED
    BY <1>4, <2>1
<1>6. Cardinality(Via(v)') = Cardinality(Via(v)) - 1
  <2>1. IsFiniteSet(Via(v))
    BY RouteCount
  <2> QED
    BY <1>2, <1>4, <2>1, FS_RemoveElement
<1>7. v \in Prefixes \X Faces /\ routes[v] > 0
  BY <1>2, RouteCount
<1>8. routes' = [routes EXCEPT ![v] = @ - 1]
  <2> HIDE DEF v
  <2> QED
    BY <1>5, <1>6, <1>7, RoutesBySlots
<1> QED
  BY <1>7, <1>8 DEF Del, Abs!Del

\* What leaves the table alone leaves the bag alone.
LEMMA SameTableSameBag ==
  ASSUME UNCHANGED <<busy, entry, fwd>>
  PROVE  routes' = routes
BY DEF routes, RouteAt

LEMMA RefusedImplements ==
  ASSUME NamesFit, Consistent, NEW p \in Prefixes, AddRefused(p)
  PROVE  Abs!Refuse(p)
BY ExhaustedWhenFull, SameTableSameBag
DEF AddRefused, Abs!Refuse, ENOSPC, Abs!ENOSPC

LEMMA MissingImplements ==
  ASSUME Consistent, NEW p \in Prefixes, NEW f \in Faces, DelMissing(p, f)
  PROVE  Abs!Missing(p, f)
<1>1. routes[<<p, f>>] = 0
  BY RouteCount DEF DelMissing
<1> QED
  BY <1>1, SameTableSameBag DEF DelMissing, Abs!Missing, ENOENT, Abs!ENOENT

\* The next hops of a prefix are the faces of the slots that match it.
LEMMA HopsMatch ==
  ASSUME Consistent, NEW q \in Prefixes
  PROVE  /\ \A s \in Matches(q) : RouteAt(s).face \in Abs!NextHops(q)
         /\ Matches(q) = {} => Abs!NextHops(q) = {}
<1>1. ASSUME NEW s \in Matches(q)
      PROVE  RouteAt(s).face \in Abs!NextHops(q)
  <2> DEFINE f == RouteAt(s).face
  <2>1. f \in Faces /\ s \in MatchesVia(q, f)
    BY DEF MatchesVia, Matches, Consistent, SlotsOwnEntries
  <2> HIDE DEF f
  <2>2. routes[<<q, f>>] > 0
    BY <2>1, RouteCount
  <2>3. f \in Abs!NextHops(q)
    BY <2>1, <2>2 DEF Abs!NextHops
  <2> QED
    BY <2>3 DEF f
<1>2. ASSUME Matches(q) = {}, NEW f \in Abs!NextHops(q)
      PROVE  FALSE
  <2>1. f \in Faces /\ routes[<<q, f>>] > 0
    BY DEF Abs!NextHops
  <2>2. MatchesVia(q, f) # {}
    BY <2>1, RouteCount
  <2> QED
    BY <1>2, <2>2 DEF MatchesVia
<1> QED
  BY <1>1, <1>2

LEMMA LookupImplements ==
  ASSUME Consistent, NEW n \in Names, Lookup(n)
  PROVE  Abs!Lookup(n)
<1>1. /\ DOMAIN Path[n] \subseteq Nat
      /\ \A k \in DOMAIN Path[n] : Path[n][k] \in Prefixes
  <2>1. Path[n] \in Seq(Prefixes)
    BY PathAssumption
  <2> QED
    BY <2>1
<1>2. routes' = routes /\ next_free' = next_free
  BY SameTableSameBag DEF Lookup
<1>3. ASSUME NEW k \in DOMAIN Path[n], Found(n, k)
      PROVE  /\ k \in Abs!Routed(n)
             /\ \A j \in Abs!Routed(n) : j <= k
             /\ ret' \in Abs!NextHops(Path[n][k])
  <2>1. /\ \A j \in DOMAIN Path[n] : j > k => Matches(Path[n][j]) = {}
        /\ \E s \in Matches(Path[n][k]) : ret' = RouteAt(s).face
    BY <1>3 DEF Found
  <2>2. ret' \in Abs!NextHops(Path[n][k])
    BY <1>1, <2>1, HopsMatch
  <2>3. k \in Abs!Routed(n)
    BY <2>2 DEF Abs!Routed
  <2>4. ASSUME NEW j \in Abs!Routed(n)
        PROVE  j <= k
    <3>1. j \in DOMAIN Path[n] /\ Abs!NextHops(Path[n][j]) # {}
      BY DEF Abs!Routed
    <3>2. Matches(Path[n][j]) # {}
      BY <1>1, <3>1, HopsMatch
    <3>3. j \in Nat /\ k \in Nat /\ ~(j > k)
      BY <1>1, <2>1, <3>1, <3>2
    <3> QED
      BY <3>3
  <2> QED
    BY <2>2, <2>3, <2>4
<1>4. ASSUME \A k \in DOMAIN Path[n] : Matches(Path[n][k]) = {}
      PROVE  Abs!Routed(n) = {}
  BY <1>1, <1>4, HopsMatch DEF Abs!Routed
<1> QED
  BY <1>2, <1>3, <1>4 DEF Lookup, Abs!Lookup, ENOENT, Abs!ENOENT

LEMMA StepImplements ==
  ASSUME NamesFit, Consistent, [Next]_vars
  PROVE  [Abs!Next]_(Abs!vars)
<1>1. ASSUME NEW p \in Prefixes, NEW f \in Faces,
             Add(p, f) \/ AddRefused(p), call' = <<"add", p, f>>
      PROVE  Abs!Next
  BY <1>1, AddImplements, RefusedImplements DEF Abs!Next
<1>2. ASSUME NEW p \in Prefixes, NEW f \in Faces,
             Del(p, f) \/ DelMissing(p, f), call' = <<"del", p, f>>
      PROVE  Abs!Next
  BY <1>2, DelImplements, MissingImplements DEF Abs!Next
<1>3. ASSUME NEW n \in Names, Lookup(n), call' = <<"lookup", n>>
      PROVE  Abs!Next
  BY <1>3, LookupImplements DEF Abs!Next
<1>4. CASE Invalid /\ call' = <<"invalid">>
  BY <1>4, SameTableSameBag
  DEF Invalid, EINVAL, Abs!Next, Abs!Invalid, Abs!EINVAL
<1>5. CASE UNCHANGED vars
  BY <1>5, SameTableSameBag DEF vars, Abs!vars
<1> QED
  BY <1>1, <1>2, <1>3, <1>4, <1>5 DEF Next

\* A FIB whose names fit in its entries is a bag of routes for any table, hash
\* and set of prefixes: it refuses a route only when the bucket is full or the
\* entries are used up, and a lookup answers with a face of the longest prefix
\* of the name that has a route.
THEOREM FibImplementsRouteTable ==
  ASSUME NamesFit
  PROVE  Spec => ImplementsRouteTable
<1>1. Init => Abs!Init
  <2>1. ASSUME busy = {}
        PROVE  \A r : Cardinality(Via(r)) = 0
    <3>1. \A r : Via(r) = {}
      BY <2>1 DEF Via
    <3> QED
      BY <3>1, FS_EmptySet
  <2>2. busy = {} => routes = [r \in Prefixes \X Faces |-> 0]
    BY <2>1, RoutesBySlots
  <2> QED
    BY <2>2 DEF Init, Abs!Init, Abs!Routes
<1>2. Consistent /\ [Next]_vars => [Abs!Next]_(Abs!vars)
  BY StepImplements
<1> QED
  BY <1>1, <1>2, FibConsistent, PTL DEF Spec, ImplementsRouteTable, Abs!Spec
=============================================================================
