---------------------------- MODULE FibRaceProofs ----------------------------
(***************************************************************************)
(* Proofs about module FibRace: for every number of lcores, every table    *)
(* size, every set of prefixes and names and every CRC, a lookup that runs *)
(* beside the control plane answers with a route unless a slot of its      *)
(* bucket changes hands meanwhile, and with a face that some route has even*)
(* then, does not lose sight of the routes that stay, and the FIBs of the  *)
(* lcores agree.                                                           *)
(*                                                                         *)
(* The three properties speak of finished lookups and of whole commands;   *)
(* the inductive invariant says what holds between two stores and between  *)
(* two loads.  It has three parts:                                         *)
(*   - TableOK: what each FIB is like while one of its slots is filled;    *)
(*   - CommandOK: what the command being applied makes of each FIB;        *)
(*   - LookupOK: what each lookup has seen, and may still rely on.         *)
(***************************************************************************)
EXTENDS FibRace, FiniteSetTheorems, WellFoundedInduction, TLAPS

-----------------------------------------------------------------------------
(* The FIB as a value.                                                     *)

BucketOf(p) == Crc[p] % NumBuckets
At(f, s)    == f.fwd[f.entry[s].index]

Free(f, p) == {s \in Slots \ f.busy : s[1] = BucketOf(p)}
Via(f, p, c) ==
  {s \in f.busy : /\ s[1] = BucketOf(p) /\ f.entry[s].crc = Crc[p]
                  /\ At(f, s).name = p /\ At(f, s).face = c}

\* The slot that the scan of a bucket meets first.
First(S) == CHOOSE s \in S : \A r \in S : s[2] <= r[2]

\* f when fib_add, which was called for command c and has taken slot s, returns.
Filled(c, f, s) ==
  [busy  |-> f.busy \cup {s},
   entry |-> [f.entry EXCEPT ![s] = [crc |-> Crc[c.prefix], index |-> f.next_free]],
   fwd   |-> [f.fwd EXCEPT ![f.next_free] = [name |-> c.prefix, face |-> c.face]],
   next_free |-> f.next_free + 1]

Added(c, f) ==
  IF f.next_free = MaxElements \/ Free(f, c.prefix) = {} THEN f
  ELSE Filled(c, f, First(Free(f, c.prefix)))

Deleted(c, f) ==
  LET S == Via(f, c.prefix, c.face) IN
  IF S = {} THEN f ELSE [f EXCEPT !.busy = @ \ {First(S)}]

\* What a command makes of f, and what the present one will have made of the
\* FIB of at.
After(c, f) == IF c.op = "add" THEN Added(c, f) ELSE Deleted(c, f)
Target      == IF wr.stage = "start" THEN After(cmd, fib[at])
               ELSE Filled(cmd, fib[at], wr.slot)

-----------------------------------------------------------------------------
(* The inductive invariant.                                                *)

\* The entries below next_free are routes, those from there on have no name
\* yet, and every slot that is in use and not being filled leads to a route,
\* for a prefix that hashes to that slot's CRC and bucket.
TableOK(l) ==
  LET f == fib[l] IN
  /\ \A s \in Slots : f.entry[s].index <= f.next_free
  /\ \A i \in Index : i >= f.next_free => f.fwd[i].name = NoPrefix
  /\ \A i \in Index :
       i < f.next_free => f.fwd[i].name \in Prefixes /\ f.fwd[i].face \in Faces
  /\ \A s \in Complete(l) : /\ f.entry[s].index < f.next_free
                            /\ f.entry[s].crc = Crc[At(f, s).name]
                            /\ s[1] = BucketOf(At(f, s).name)

\* The entries that are no routes yet have no face either, but for the one that
\* is being filled.
UnfilledOK(l) ==
  LET f == fib[l] IN
  \A i \in Index : i >= f.next_free =>
    \/ f.fwd[i].face = 0
    \/ /\ i = f.next_free
       /\ [name |-> cmd.prefix, face |-> f.fwd[i].face] \in Coming(l)

\* What fib_add has stored so far.
WriterOK ==
  wr.stage # "start" =>
    /\ cmd.op = "add" /\ cmd.prefix \in Prefixes /\ cmd.face \in Faces
    /\ fib[at].next_free < MaxElements
    /\ wr.slot \in fib[at].busy /\ wr.slot[1] = BucketOf(cmd.prefix)
    /\ wr.stage \in {"index", "face", "len", "name"} =>
         fib[at].entry[wr.slot].crc = Crc[cmd.prefix]
    /\ wr.stage \in {"face", "len", "name"} =>
         fib[at].entry[wr.slot].index = fib[at].next_free
    /\ wr.stage \in {"len", "name"} =>
         fib[at].fwd[fib[at].next_free].face = cmd.face

\* The FIBs behind the loop are what the one at hand will be, and those before
\* it are alike and will become the same.
CommandOK ==
  IF cmd = NoCmd THEN wr.stage = "start" /\ \A l, m \in Lcores : fib[l] = fib[m]
  ELSE /\ \A l \in Lcores : l < at => fib[l] = Target
       /\ \A l \in Lcores : l > at => After(cmd, fib[l]) = Target
       /\ \A l, m \in Lcores : l > at /\ m > at => fib[l] = fib[m]

\* The history of the lookup of lcore l: what was stored when it began or since
\* is among present, the slots of stable are in use, and none of them holds a
\* longer prefix of the name than the one that is tried.
SeenOK(l) ==
  /\ rd[l].stable \subseteq Complete(l)
  /\ Routes(l) \subseteq rd[l].present /\ Stale(l) \subseteq rd[l].stale
  /\ Coming(l) \subseteq rd[l].begun
  /\ \A s \in rd[l].stable, j \in DOMAIN Path[rd[l].name] :
       At(fib[l], s).name = Path[rd[l].name][j] => j <= rd[l].k

\* What the slot at hand leads to is known, unless that slot is being filled.
SlotOK(l) ==
  \/ Slot(l) \in Complete(l)
  \/ Adding(l) /\ Slot(l) = wr.slot
  \/ /\ fib[l].entry[Slot(l)].index < fib[l].next_free
     /\ At(fib[l], Slot(l)) \in Known(l)

\* So is what an index leads to that was loaded from it; it is still the slot's
\* index unless the slot was refilled.
IndexOK(l) ==
  /\ rd[l].index <= fib[l].next_free
  /\ rd[l].index < fib[l].next_free => fib[l].fwd[rd[l].index] \in Known(l)
  /\ Slot(l) \in rd[l].stable \/ Slot(l) \notin rd[l].refilled =>
       rd[l].index = fib[l].entry[Slot(l)].index

\* The length was compared; and so was the name.
LenOK(l) ==
  Slot(l) \notin rd[l].refilled =>
    LenAt(l, fib[l].entry[Slot(l)].index) = Length[Prefix(l)]
NameOK(l) ==
  /\ \E r \in Seen(l) : r.name \in Starts[Prefix(l)]
  /\ Slot(l) \notin rd[l].refilled =>
       /\ fib[l].entry[Slot(l)].index < fib[l].next_free
       /\ At(fib[l], Slot(l)).name = Prefix(l)

\* The scan of a bucket: the slots of stable that are behind have been matched,
\* every match is explained, and the slot at hand is as far as it has come.
ScanOK(l) ==
  /\ rd[l].k > 0
  /\ rd[l].stage # "busy" => rd[l].tab < BucketSize
  /\ \A s \in rd[l].stable :
       At(fib[l], s).name = Prefix(l) /\ s[2] < rd[l].tab => rd[l].found # {}
  /\ \A c \in rd[l].found : Explained(l, Prefix(l), c)
  /\ rd[l].stage # "busy" => SlotOK(l)
  /\ rd[l].stage \in {"len", "name", "face"} => IndexOK(l)
  /\ rd[l].stage \in {"indexOfName", "name"} => LenOK(l)
  /\ rd[l].stage \in {"indexOfFace", "face"} => NameOK(l)

InProgress == {"busy", "crc", "indexOfLen", "len", "indexOfName", "name",
               "indexOfFace", "face"}

LookupOK(l) ==
  /\ rd[l].stage # "idle" => SeenOK(l)
  /\ rd[l].stage \in InProgress => ScanOK(l)
  /\ rd[l].stage = "done" /\ rd[l].k > 0 =>
       Explained(l, Path[rd[l].name][rd[l].k], rd[l].answer)

Consistent ==
  /\ TypeOK
  /\ \A l \in Lcores : TableOK(l) /\ UnfilledOK(l)
  /\ WriterOK
  /\ CommandOK
  /\ \A l \in Readers : LookupOK(l)

-----------------------------------------------------------------------------
(* Lemmas about the operators.                                             *)

LEMMA Sizes ==
  /\ NumBuckets \in Nat /\ NumBuckets > 0
  /\ BucketSize \in Nat /\ BucketSize > 0
  /\ MaxElements \in Nat /\ MaxElements > 0
BY SizesAssumption

\* The loop over the lcores always has a first one.
LEMMA Lowest ==
  ASSUME NEW S \in SUBSET Lcores, S # {}
  PROVE  LET low == CHOOSE l \in S : \A m \in S : l <= m
         IN  low \in S /\ \A m \in S : low <= m
<1> DEFINE Least(X) == \E l \in X : \A m \in X : l <= m
           Order == StrictSubsetOrdering(Lcores)
           Bad   == {X \in SUBSET Lcores : X # {} /\ ~Least(X)}
<1>1. IsWellFoundedOn(Order, SUBSET Lcores)
  BY LcoresAssumption, FS_StrictSubsetOrderingWellFounded, FS_FiniteSubsetsOfFinite
<1>2. ASSUME Bad # {}
      PROVE  FALSE
  <2>1. Bad \subseteq SUBSET Lcores
    OBVIOUS
  <2> HIDE DEF Bad, Order
  <2>2. PICK X \in Bad : \A Y \in Bad : ~(<<Y, X>> \in Order)
    BY <1>1, <1>2, <2>1, WFMin
  <2> USE DEF Bad, Order
  <2>3. X \subseteq Nat
    BY LcoresAssumption
  <2>4. PICK p \in X : TRUE
    OBVIOUS
  <2>5. PICK r \in X : ~(p <= r)
    BY DEF Least
  <2>6. X \ {p} \in SUBSET Lcores /\ X \ {p} # {} /\ <<X \ {p}, X>> \in Order
    <3>1. r # p
      BY <2>3, <2>5
    <3> QED
      BY <3>1 DEF StrictSubsetOrdering
  <2>7. Least(X \ {p})
    BY <2>2, <2>6
  <2>8. PICK l \in X \ {p} : \A x \in X \ {p} : l <= x
    BY <2>7
  <2>9. \A x \in X : l <= x
    <3>1. r \in X \ {p} /\ l <= r
      BY <2>3, <2>5, <2>8
    <3> QED
      BY <2>3, <2>5, <2>8, <3>1
  <2> QED
    BY <2>8, <2>9
<1>3. Least(S)
  BY <1>2
<1> QED
  BY <1>3

\* A bucket has one first slot.
LEMMA FirstIsUnique ==
  ASSUME NEW S \in SUBSET Slots, NEW s \in S,
         \A r \in S : r[1] = s[1] /\ s[2] <= r[2]
  PROVE  First(S) = s
<1> DEFINE t == First(S)
<1>1. t \in S /\ \A r \in S : t[2] <= r[2]
  BY DEF First
<1> HIDE DEF t
<1>2. t \in Slots /\ s \in Slots /\ t[1] = s[1] /\ t[2] <= s[2] /\ s[2] <= t[2]
  BY <1>1
<1>3. s[2] \in Int /\ t[2] \in Int /\ s = <<s[1], s[2]>> /\ t = <<t[1], t[2]>>
  BY <1>2, Sizes DEF Slots
<1>4. t = s
  BY <1>2, <1>3
<1> QED
  BY <1>4 DEF t

\* What module Fib says about the FIB of lcore l, by its value.
LEMMA FibOperators ==
  ASSUME NEW l \in Lcores, NEW p, NEW c, NEW s
  PROVE  /\ F(l)!RouteAt(s) = At(fib[l], s)
         /\ F(l)!BucketOf(p) = BucketOf(p)
         /\ F(l)!IsFull <=> fib[l].next_free = MaxElements
         /\ F(l)!FreeSlots(p) = Free(fib[l], p)
         /\ F(l)!MatchesVia(p, c) = Via(fib[l], p, c)
BY DEF F!RouteAt, F!BucketOf, F!IsFull, F!FreeSlots, F!MatchesVia, F!Matches,
       F!Slots, F!Buckets, F!Tabs, At, BucketOf, Slots, Free, Via

LEMMA AdvanceFacts ==
  ASSUME TypeOK, Advance
  PROVE  /\ at' \in Lcores /\ at \in Nat /\ at' \in Nat
         /\ \/ cmd' = NoCmd /\ at' = at /\ \A l \in Lcores : l <= at
            \/ /\ cmd' = cmd /\ at' > at
               /\ \A l \in Lcores : l > at => l >= at'
<1>1. at \in Lcores /\ Lcores \subseteq Nat
  BY LcoresAssumption DEF TypeOK
<1>2. CASE Later = {}
  BY <1>1, <1>2 DEF Later, Advance
<1>3. CASE Later # {}
  <2>1. Later \in SUBSET Lcores
    BY DEF Later
  <2> DEFINE low == CHOOSE l \in Later : \A m \in Later : l <= m
  <2>2. low \in Later /\ \A m \in Later : low <= m
    BY <1>3, <2>1, Lowest
  <2>3. at' = low /\ cmd' = cmd
    BY <1>3 DEF Advance
  <2> HIDE DEF low
  <2> QED
    BY <1>1, <2>2, <2>3 DEF Later
<1> QED
  BY <1>2, <1>3

-----------------------------------------------------------------------------
(* The initial states.                                                     *)

LEMMA InitTypes == Init => TypeOK
<1> SUFFICES ASSUME Init
             PROVE  TypeOK
  OBVIOUS
<1>1. 0 \in Index /\ 0 \in 0 .. MaxElements /\ 0 \in 0 .. BucketSize
      /\ <<0, 0>> \in Slots
  BY Sizes DEF Index, Slots
<1>2. EmptyFib \in FibState
  BY <1>1 DEF EmptyFib, FibState, TableEntry, Route
<1>3. (CHOOSE n \in Names : TRUE) \in Names
  BY NamesAssumption
<1>4. NoLookup \in LookupState
  BY <1>1, <1>3 DEF NoLookup, LookupState, Answers
<1>5. at \in Lcores
  BY LcoresAssumption, Lowest DEF Init
<1>6. \A l \in Readers : rd[l].k \in 0 .. Len(Path[rd[l].name])
  <2>1. Len(Path[CHOOSE n \in Names : TRUE]) \in Nat
    BY <1>3, NamesAssumption
  <2> QED
    BY <2>1 DEF Init, NoLookup
<1>7. wr \in [slot : Slots, stage : Stages] /\ cmd \in Cmds \cup {NoCmd}
  BY <1>1 DEF Init, NoWr, Stages
<1> QED
  BY <1>2, <1>4, <1>5, <1>6, <1>7 DEF Init, TypeOK

LEMMA InitConsistent == Init => Consistent
<1> SUFFICES ASSUME Init
             PROVE  Consistent
  OBVIOUS
<1>1. TypeOK
  BY InitTypes
<1>2. 0 \in Index /\ ~(wr.stage # "start") /\ cmd = NoCmd
  BY Sizes DEF Index, Init, NoWr
<1>3. \A l \in Lcores : fib[l] = EmptyFib
  BY DEF Init
<1>4. \A l \in Lcores : TableOK(l)
  <2> SUFFICES ASSUME NEW l \in Lcores
               PROVE  TableOK(l)
    OBVIOUS
  <2>1. Complete(l) = {}
    BY <1>3 DEF Complete, EmptyFib
  <2> QED
    BY <1>2, <1>3, <2>1, Sizes DEF TableOK, EmptyFib, Index
<1>5. \A l \in Lcores : UnfilledOK(l)
  BY <1>3 DEF UnfilledOK, EmptyFib
<1>6. WriterOK /\ CommandOK
  BY <1>2, <1>3 DEF WriterOK, CommandOK
<1>7. \A l \in Readers : LookupOK(l)
  BY DEF Init, NoLookup, LookupOK, InProgress
<1> QED
  BY <1>1, <1>4, <1>6, <1>7, <1>5 DEF Consistent

-----------------------------------------------------------------------------
(* Type correctness.                                                       *)

LEMMA TypeFacts ==
  ASSUME TypeOK
  PROVE  /\ \A l \in Lcores : /\ fib[l] \in FibState
                              /\ fib[l].busy \subseteq Slots
                              /\ fib[l].entry \in [Slots -> TableEntry]
                              /\ fib[l].fwd \in [Index -> Route]
                              /\ fib[l].next_free \in 0 .. MaxElements
         /\ DOMAIN fib = Lcores /\ DOMAIN rd = Readers
         /\ at \in Lcores /\ wr.slot \in Slots /\ Readers \subseteq Lcores
         /\ wr \in [slot : Slots, stage : Stages]
         /\ \A l \in Readers : rd[l] \in LookupState
BY LcoresAssumption DEF TypeOK, FibState

\* A store to one FIB, and what the lookups see of it.
LEMMA ObserveTypes ==
  ASSUME TypeOK, fib' \in [Lcores -> FibState], wr' \in [slot : Slots, stage : Stages],
         cmd' \in Cmds \cup {NoCmd}, Observe
  PROVE  /\ rd' \in [Readers -> LookupState]
         /\ \A l \in Readers : rd'[l].k \in 0 .. Len(Path[rd'[l].name])
<1>1. ASSUME NEW l \in Readers
      PROVE  /\ Complete(l)' \subseteq Slots
             /\ Routes(l)' \subseteq Route /\ Stale(l)' \subseteq Route
             /\ Coming(l)' \subseteq Route /\ Reindexed(l)' \subseteq Slots
  <2>1. /\ fib'[l] \in FibState /\ wr'.slot \in Slots /\ l \in Lcores
    BY <1>1, LcoresAssumption
  <2>2. \A s \in Slots : F(l)!RouteAt(s)' \in Route
    BY <2>1 DEF F!RouteAt, FibState, TableEntry
  <2>3. Complete(l)' \subseteq Slots
    BY <2>1 DEF Complete, FibState
  <2>4. Coming(l)' \subseteq Route
    BY DEF Coming, Adding, Cmds, NoCmd, Route
  <2>5. Reindexed(l)' \subseteq Slots
    BY <2>1 DEF Reindexed
  <2> QED
    BY <2>1, <2>2, <2>3, <2>4, <2>5 DEF Routes, Stale, Behind
<1>2. ASSUME NEW l \in Readers
      PROVE  rd'[l] \in LookupState /\ rd'[l].k \in 0 .. Len(Path[rd'[l].name])
  <2>1. rd[l] \in LookupState /\ rd[l].k \in 0 .. Len(Path[rd[l].name])
    BY <1>2, TypeFacts DEF TypeOK
  <2>2. rd'[l] = IF l # at THEN rd[l]
                 ELSE [rd[l] EXCEPT !.stable  = @ \cap Complete(l)',
                                    !.present = @ \cup Routes(l)',
                                    !.stale   = @ \cup Stale(l)',
                                    !.begun   = @ \cup Coming(l)',
                                    !.refilled = @ \cup Reindexed(l)']
    BY <1>2 DEF Observe
  <2> DEFINE stable  == rd[l].stable \cap Complete(l)'
             present == rd[l].present \cup Routes(l)'
             stale   == rd[l].stale \cup Stale(l)'
             begun   == rd[l].begun \cup Coming(l)'
             refilled == rd[l].refilled \cup Reindexed(l)'
  <2>3. /\ stable \in SUBSET Slots /\ refilled \in SUBSET Slots
        /\ present \in SUBSET Route /\ stale \in SUBSET Route
        /\ begun \in SUBSET Route
    BY <1>1, <1>2, <2>1 DEF LookupState
  <2> HIDE DEF stable, present, stale, begun, refilled
  <2>4. rd'[l] = IF l # at THEN rd[l]
                 ELSE [rd[l] EXCEPT !.stable = stable, !.present = present,
                                    !.stale = stale, !.begun = begun,
                                    !.refilled = refilled]
    BY <2>2 DEF stable, present, stale, begun, refilled
  <2>5. CASE l # at
    BY <2>1, <2>4, <2>5
  <2>6. CASE l = at
    <3>1. /\ rd'[l] \in LookupState
          /\ rd'[l].k = rd[l].k /\ rd'[l].name = rd[l].name
      BY <2>1, <2>3, <2>4, <2>6 DEF LookupState
    <3> QED
      BY <2>1, <3>1
  <2> QED
    BY <2>5, <2>6
<1>3. rd' = [l \in Readers |-> rd'[l]]
  BY DEF Observe
<1> QED
  BY <1>2, <1>3

LEMMA ControlTypes ==
  ASSUME TypeOK, WriterOK, ControlPlane
  PROVE  TypeOK'
<1> USE TypeFacts
<1>1. at' \in Lcores /\ cmd' \in Cmds \cup {NoCmd}
  <2>1. CASE ReceiveCmd
    BY <2>1, LcoresAssumption, Lowest DEF ReceiveCmd
  <2>2. CASE Advance
    BY <2>2, AdvanceFacts DEF TypeOK
  <2>3. CASE UNCHANGED <<cmd, at>>
    BY <2>3 DEF TypeOK
  <2> QED
    BY <2>1, <2>2, <2>3
       DEF ControlPlane, AddRefused, TakeSlot, StoreCrc, StoreIndex, StoreFace,
           StoreLen, StoreName, Delete, DeleteMissing
<1>2. CASE UNCHANGED <<fib, wr, rd>>
  BY <1>1, <1>2 DEF TypeOK
<1>3. ASSUME fib' \in [Lcores -> FibState], Observe,
             wr' \in [slot : Slots, stage : Stages]
      PROVE  TypeOK'
  BY <1>1, <1>3, ObserveTypes DEF TypeOK
<1>4. NoWr \in [slot : Slots, stage : Stages]
  BY Sizes DEF NoWr, Stages, Slots
<1>5. fib[at] \in FibState /\ at \in Lcores /\ fib \in [Lcores -> FibState]
  BY DEF TypeOK
<1>6. wr.stage # "start" => /\ fib[at].next_free \in Index
                            /\ fib[at].next_free + 1 \in 0 .. MaxElements
                            /\ cmd.prefix \in Prefixes /\ cmd.face \in Faces
                            /\ Crc[cmd.prefix] \in Nat
  BY <1>5, Sizes, CrcAssumption DEF WriterOK, Index, FibState
<1>7. CASE TakeSlot
  <2>1. PICK s \in Free(fib[at], cmd.prefix) :
          /\ fib' = [fib EXCEPT ![at].busy = @ \cup {s}]
          /\ wr' = [slot |-> s, stage |-> "crc"]
    BY <1>7, FibOperators DEF TakeSlot
  <2>2. s \in Slots
    BY <2>1 DEF Free
  <2> QED
    BY <1>3, <1>5, <1>7, <2>1, <2>2 DEF TakeSlot, FibState, Stages
<1> DEFINE f == fib[at]
<1>f. /\ f \in FibState /\ f.entry[wr.slot] \in TableEntry
       /\ \A e \in TableEntry : [f.entry EXCEPT ![wr.slot] = e] \in [Slots -> TableEntry]
       /\ f.next_free \in Index => f.fwd[f.next_free] \in Route
       /\ \A r \in Route : [f.fwd EXCEPT ![f.next_free] = r] \in [Index -> Route]
  BY <1>5 DEF FibState
<1>8. CASE StoreCrc
  <2>1. [f.entry[wr.slot] EXCEPT !.crc = Crc[cmd.prefix]] \in TableEntry
    BY <1>6, <1>8, <1>f DEF StoreCrc, TableEntry
  <2> DEFINE e == [f.entry[wr.slot] EXCEPT !.crc = Crc[cmd.prefix]]
  <2>2. [f EXCEPT !.entry = [f.entry EXCEPT ![wr.slot] = e]] \in FibState
    BY <1>f, <2>1 DEF FibState
  <2>3. fib' = [fib EXCEPT ![at] = [f EXCEPT !.entry = [f.entry EXCEPT ![wr.slot] = e]]]
    BY <1>8 DEF StoreCrc
  <2> QED
    BY <1>3, <1>5, <1>8, <2>2, <2>3 DEF StoreCrc, Stages
<1>9. CASE StoreIndex
  <2>1. [f.entry[wr.slot] EXCEPT !.index = f.next_free] \in TableEntry
    BY <1>6, <1>9, <1>f DEF StoreIndex, TableEntry
  <2> DEFINE e == [f.entry[wr.slot] EXCEPT !.index = f.next_free]
  <2>2. [f EXCEPT !.entry = [f.entry EXCEPT ![wr.slot] = e]] \in FibState
    BY <1>f, <2>1 DEF FibState
  <2>3. fib' = [fib EXCEPT ![at] = [f EXCEPT !.entry = [f.entry EXCEPT ![wr.slot] = e]]]
    BY <1>9 DEF StoreIndex
  <2> QED
    BY <1>3, <1>5, <1>9, <2>2, <2>3 DEF StoreIndex, Stages
<1>10. CASE StoreFace
  <2>1. [f.fwd[f.next_free] EXCEPT !.face = cmd.face] \in Route
    BY <1>6, <1>10, <1>f DEF StoreFace, Route
  <2> DEFINE r == [f.fwd[f.next_free] EXCEPT !.face = cmd.face]
  <2>2. [f EXCEPT !.fwd = [f.fwd EXCEPT ![f.next_free] = r]] \in FibState
    BY <1>f, <2>1 DEF FibState
  <2>3. fib' = [fib EXCEPT ![at] = [f EXCEPT !.fwd = [f.fwd EXCEPT ![f.next_free] = r]]]
    BY <1>10 DEF StoreFace
  <2> QED
    BY <1>3, <1>5, <1>10, <2>2, <2>3 DEF StoreFace, Stages
<1>11. CASE StoreName
  <2>1. [f.fwd[f.next_free] EXCEPT !.name = cmd.prefix] \in Route
    BY <1>6, <1>11, <1>f DEF StoreName, Route
  <2> DEFINE r == [f.fwd[f.next_free] EXCEPT !.name = cmd.prefix]
  <2>2. [f EXCEPT !.fwd = [f.fwd EXCEPT ![f.next_free] = r], !.next_free = @ + 1]
          \in FibState
    BY <1>6, <1>11, <1>f, <2>1 DEF StoreName, FibState
  <2>3. fib' = [fib EXCEPT ![at] = [f EXCEPT
                  !.fwd = [f.fwd EXCEPT ![f.next_free] = r], !.next_free = @ + 1]]
    BY <1>11 DEF StoreName
  <2> QED
    BY <1>3, <1>4, <1>5, <1>11, <2>2, <2>3 DEF StoreName
<1>12. CASE Delete
  BY <1>3, <1>5, <1>12 DEF Delete, FibState
<1>13. CASE StoreLen
  BY <1>3, <1>5, <1>13 DEF StoreLen, Stages
<1> QED
  BY <1>2, <1>7, <1>8, <1>9, <1>10, <1>11, <1>12, <1>13
     DEF ControlPlane, ReceiveCmd, AddRefused, DeleteMissing

-----------------------------------------------------------------------------
(* What each store of the control plane leaves in the FIB of at.           *)

\* All other FIBs stay, and of the FIB of at these fields become these values.
Becomes(busy, entry, fwd, next_free) ==
  /\ \A l \in Lcores : l # at => fib'[l] = fib[l]
  /\ fib'[at].busy = busy /\ fib'[at].entry = entry
  /\ fib'[at].fwd = fwd /\ fib'[at].next_free = next_free

LEMMA TakeSlotEffect ==
  ASSUME TypeOK, TakeSlot
  PROVE  LET f == fib[at] IN
         \E s \in Free(f, cmd.prefix) :
           /\ Becomes(f.busy \cup {s}, f.entry, f.fwd, f.next_free)
           /\ First(Free(f, cmd.prefix)) = s
           /\ f.next_free # MaxElements
           /\ wr' = [slot |-> s, stage |-> "crc"]
<1>1. PICK s \in Free(fib[at], cmd.prefix) :
        /\ F(at)!IsFirst(s, Free(fib[at], cmd.prefix))
        /\ fib' = [fib EXCEPT ![at].busy = @ \cup {s}]
        /\ wr' = [slot |-> s, stage |-> "crc"]
  BY TypeFacts, FibOperators DEF TakeSlot
<1>2. First(Free(fib[at], cmd.prefix)) = s
  BY <1>1, FirstIsUnique DEF F!IsFirst, Free
<1>3. fib[at].next_free # MaxElements
  BY TypeFacts, FibOperators DEF TakeSlot
<1>4. Becomes(fib[at].busy \cup {s}, fib[at].entry, fib[at].fwd, fib[at].next_free)
  BY <1>1, TypeFacts DEF Becomes, FibState
<1> QED
  BY <1>1, <1>2, <1>3, <1>4

LEMMA StoreCrcEffect ==
  ASSUME TypeOK, StoreCrc
  PROVE  LET f == fib[at]
             e == [crc |-> Crc[cmd.prefix], index |-> f.entry[wr.slot].index]
         IN  Becomes(f.busy, [f.entry EXCEPT ![wr.slot] = e], f.fwd, f.next_free)
<1> DEFINE f == fib[at]
           e == [f.entry[wr.slot] EXCEPT !.crc = Crc[cmd.prefix]]
<1>1. f \in FibState /\ f.entry[wr.slot] \in TableEntry /\ at \in DOMAIN fib
  BY TypeFacts DEF FibState
<1>2. e = [crc |-> Crc[cmd.prefix], index |-> f.entry[wr.slot].index]
  BY <1>1 DEF TableEntry
<1>3. fib' = [fib EXCEPT ![at] = [f EXCEPT !.entry = [f.entry EXCEPT ![wr.slot] = e]]]
  BY DEF StoreCrc
<1> HIDE DEF e
<1>4. Becomes(f.busy, [f.entry EXCEPT ![wr.slot] = e], f.fwd, f.next_free)
  BY <1>1, <1>3, TypeFacts DEF Becomes, FibState
<1> QED
  BY <1>2, <1>4

LEMMA StoreIndexEffect ==
  ASSUME TypeOK, StoreIndex
  PROVE  LET f == fib[at]
             e == [crc |-> f.entry[wr.slot].crc, index |-> f.next_free]
         IN  Becomes(f.busy, [f.entry EXCEPT ![wr.slot] = e], f.fwd, f.next_free)
<1> DEFINE f == fib[at]
           e == [f.entry[wr.slot] EXCEPT !.index = f.next_free]
<1>1. f \in FibState /\ f.entry[wr.slot] \in TableEntry /\ at \in DOMAIN fib
  BY TypeFacts DEF FibState
<1>2. e = [crc |-> f.entry[wr.slot].crc, index |-> f.next_free]
  BY <1>1 DEF TableEntry
<1>3. fib' = [fib EXCEPT ![at] = [f EXCEPT !.entry = [f.entry EXCEPT ![wr.slot] = e]]]
  BY DEF StoreIndex
<1> HIDE DEF e
<1>4. Becomes(f.busy, [f.entry EXCEPT ![wr.slot] = e], f.fwd, f.next_free)
  BY <1>1, <1>3, TypeFacts DEF Becomes, FibState
<1> QED
  BY <1>2, <1>4

LEMMA StoreFaceEffect ==
  ASSUME TypeOK, WriterOK, StoreFace
  PROVE  LET f == fib[at]
             r == [name |-> f.fwd[f.next_free].name, face |-> cmd.face]
         IN  Becomes(f.busy, f.entry, [f.fwd EXCEPT ![f.next_free] = r], f.next_free)
<1> DEFINE f == fib[at]
           r == [f.fwd[f.next_free] EXCEPT !.face = cmd.face]
<1>1. /\ f \in FibState /\ f.next_free \in Index
      /\ f.fwd[f.next_free] \in Route /\ at \in DOMAIN fib
  BY Sizes, TypeFacts DEF FibState, WriterOK, StoreFace, Index
<1>2. r = [name |-> f.fwd[f.next_free].name, face |-> cmd.face]
  BY <1>1 DEF Route
<1>3. fib' = [fib EXCEPT ![at] = [f EXCEPT !.fwd = [f.fwd EXCEPT ![f.next_free] = r]]]
  BY DEF StoreFace
<1> HIDE DEF r
<1>4. Becomes(f.busy, f.entry, [f.fwd EXCEPT ![f.next_free] = r], f.next_free)
  BY <1>1, <1>3, TypeFacts DEF Becomes, FibState
<1> QED
  BY <1>2, <1>4

LEMMA StoreNameEffect ==
  ASSUME TypeOK, WriterOK, StoreName
  PROVE  LET f == fib[at]
             r == [name |-> cmd.prefix, face |-> cmd.face]
         IN  Becomes(f.busy, f.entry, [f.fwd EXCEPT ![f.next_free] = r],
                     f.next_free + 1)
<1> DEFINE f == fib[at]
           r == [f.fwd[f.next_free] EXCEPT !.name = cmd.prefix]
<1>1. /\ f \in FibState /\ f.next_free \in Index
      /\ f.fwd[f.next_free] \in Route /\ at \in DOMAIN fib
      /\ f.fwd[f.next_free].face = cmd.face
  BY Sizes, TypeFacts DEF FibState, WriterOK, StoreName, Index
<1>2. r = [name |-> cmd.prefix, face |-> cmd.face]
  BY <1>1 DEF Route
<1>3. fib' = [fib EXCEPT ![at] = [f EXCEPT !.fwd = [f.fwd EXCEPT ![f.next_free] = r],
                                            !.next_free = @ + 1]]
  BY DEF StoreName
<1> HIDE DEF r
<1>4. Becomes(f.busy, f.entry, [f.fwd EXCEPT ![f.next_free] = r], f.next_free + 1)
  BY <1>1, <1>3, TypeFacts DEF Becomes, FibState
<1> QED
  BY <1>2, <1>4

LEMMA DeleteEffect ==
  ASSUME TypeOK, Delete
  PROVE  LET f == fib[at]
             S == Via(f, cmd.prefix, cmd.face)
         IN  \E s \in S : /\ Becomes(f.busy \ {s}, f.entry, f.fwd, f.next_free)
                          /\ First(S) = s
<1>1. PICK s \in Via(fib[at], cmd.prefix, cmd.face) :
        /\ F(at)!IsFirst(s, Via(fib[at], cmd.prefix, cmd.face))
        /\ fib' = [fib EXCEPT ![at].busy = @ \ {s}]
  <2>1. F(at)!MatchesVia(cmd.prefix, cmd.face) = Via(fib[at], cmd.prefix, cmd.face)
    BY TypeFacts, FibOperators
  <2> QED
    BY <2>1 DEF Delete
<1>2. Via(fib[at], cmd.prefix, cmd.face) \subseteq Slots
  BY TypeFacts DEF Via
<1>3. First(Via(fib[at], cmd.prefix, cmd.face)) = s
  BY <1>1, <1>2, FirstIsUnique DEF F!IsFirst, Via
<1>4. Becomes(fib[at].busy \ {s}, fib[at].entry, fib[at].fwd, fib[at].next_free)
  BY <1>1, TypeFacts DEF Becomes, FibState
<1> QED
  BY <1>1, <1>3, <1>4

-----------------------------------------------------------------------------
(* The tables.                                                             *)

\* The control plane fills a slot of the FIB of at only, and only between
\* TakeSlot and StoreName.
LEMMA AddingFacts ==
  ASSUME TypeOK, WriterOK, ControlPlane, NEW l \in Lcores
  PROVE  /\ l # at => ~Adding(l) /\ ~Adding(l)'
         /\ TakeSlot /\ l = at =>
              ~Adding(l) /\ Adding(l)'
         /\ (StoreCrc \/ StoreIndex \/ StoreFace \/ StoreLen) /\ l = at =>
              Adding(l) /\ Adding(l)' /\ wr'.slot = wr.slot
         /\ StoreName /\ l = at => Adding(l) /\ ~Adding(l)'
         /\ ReceiveCmd \/ AddRefused \/ Delete \/ DeleteMissing =>
              ~Adding(l) /\ ~Adding(l)'
<1>1. /\ cmd.op = "none" \/ cmd.op = "del" => wr.stage = "start"
      /\ cmd = NoCmd => cmd.op = "none"
      /\ wr \in [slot : Slots, stage : Stages]
  BY TypeFacts DEF WriterOK, NoCmd
<1>2. CASE ReceiveCmd
  BY <1>1, <1>2 DEF ReceiveCmd, Adding, TakeSlot, StoreCrc, StoreIndex, StoreFace, StoreLen,
                    StoreName
<1>3. CASE AddRefused
  BY <1>1, <1>3 DEF AddRefused, Adding, TakeSlot, StoreCrc, StoreIndex, StoreFace, StoreLen,
                    StoreName
<1>4. CASE Delete \/ DeleteMissing
  BY <1>1, <1>4 DEF Delete, DeleteMissing, Adding, TakeSlot, StoreCrc, StoreIndex,
                    StoreFace, StoreLen, StoreName
<1>5. CASE TakeSlot
  <2>1. cmd.op = "add" /\ cmd' = cmd /\ at' = at /\ wr.stage = "start"
        /\ wr'.stage = "crc"
    BY <1>5 DEF TakeSlot
  <2> QED
    BY <2>1 DEF ReceiveCmd, AddRefused, Delete, DeleteMissing, Adding, TakeSlot,
                StoreCrc, StoreIndex, StoreFace, StoreLen, StoreName, NoCmd
<1>6. CASE StoreCrc \/ StoreIndex \/ StoreFace \/ StoreLen
  <2>1. /\ cmd.op = "add" /\ cmd' = cmd /\ at' = at
        /\ wr.stage \in {"crc", "index", "face", "len"}
        /\ wr'.stage \in {"index", "face", "len", "name"} /\ wr'.slot = wr.slot
    BY <1>1, <1>6 DEF StoreCrc, StoreIndex, StoreFace, StoreLen, WriterOK
  <2> QED
    BY <2>1 DEF ReceiveCmd, AddRefused, Delete, DeleteMissing, Adding, TakeSlot,
                StoreName, NoCmd
<1>7. CASE StoreName
  <2>1. cmd.op = "add" /\ wr.stage = "name" /\ wr'.stage = "start"
    BY <1>7 DEF StoreName, WriterOK, NoWr
  <2> QED
    BY <2>1 DEF ReceiveCmd, AddRefused, Delete, DeleteMissing, Adding, TakeSlot,
                StoreCrc, StoreIndex, StoreFace, StoreLen, NoCmd
<1> QED
  BY <1>2, <1>3, <1>4, <1>5, <1>6, <1>7 DEF ControlPlane

\* What a lookup on lcore l may rely on in a store to its FIB: entries below
\* next_free keep what they lead to, a slot is written while it is filled
\* only, and it is filled until it is complete.
TableStep(l) ==
  LET f == fib[l]
      g == fib'[l]
  IN  /\ \A i \in Index : i < f.next_free => g.fwd[i] = f.fwd[i]
      /\ \A s \in Slots :
           g.entry[s] = f.entry[s] \/ (Adding(l) /\ Adding(l)' /\ wr.slot = s)
      /\ Adding(l) => \/ Adding(l)' /\ wr'.slot = wr.slot
                      \/ wr.slot \in Complete(l)'
      /\ \/ g.next_free = f.next_free
         \/ g.next_free = f.next_free + 1 /\ g.fwd[f.next_free] \in Routes(l)'

Stores == \/ TakeSlot \/ StoreCrc \/ StoreIndex
          \/ StoreFace \/ StoreLen \/ StoreName \/ Delete

LEMMA SameTable ==
  ASSUME NEW l \in Lcores, TableOK(l),
         fib'[l].next_free = fib[l].next_free,
         \A s \in Slots : fib'[l].entry[s].index <= fib'[l].next_free,
         \A i \in Index : fib'[l].fwd[i].name = fib[l].fwd[i].name,
         \A i \in Index : i < fib[l].next_free => fib'[l].fwd[i] = fib[l].fwd[i],
         \A s \in Complete(l)' :
           /\ s \in Complete(l) /\ fib'[l].entry[s] = fib[l].entry[s]
           /\ At(fib[l], s)' = At(fib[l], s)
  PROVE  TableOK(l)'
<1> DEFINE f == fib[l]
           g == fib'[l]
<1>1. \A i \in Index :
        /\ i >= g.next_free => g.fwd[i].name = NoPrefix
        /\ i < g.next_free => g.fwd[i].name \in Prefixes /\ g.fwd[i].face \in Faces
  BY DEF TableOK
<1>2. ASSUME NEW s \in Complete(l)'
      PROVE  /\ g.entry[s].index < g.next_free
             /\ g.entry[s].crc = Crc[At(f, s)'.name]
             /\ s[1] = BucketOf(At(f, s)'.name)
  <2>1. /\ s \in Complete(l) /\ g.entry[s] = f.entry[s]
        /\ At(f, s)' = At(f, s)
    BY <1>2
  <2> HIDE DEF f, g
  <2>2. /\ f.entry[s].index < f.next_free
        /\ f.entry[s].crc = Crc[At(f, s).name]
        /\ s[1] = BucketOf(At(f, s).name)
    BY <2>1 DEF TableOK, f
  <2>3. g.next_free = f.next_free
    BY DEF f, g
  <2> QED
    BY <2>1, <2>2, <2>3
<1> QED
  BY <1>1, <1>2 DEF TableOK

LEMMA TakeSlotTable ==
  ASSUME TypeOK, WriterOK, TakeSlot, NEW l \in Lcores, l = at, TableOK(l)
  PROVE  TableOK(l)' /\ TableStep(l) /\ WriterOK'
<1> DEFINE f == fib[l]
<1>1. PICK s \in Free(f, cmd.prefix) :
        /\ Becomes(f.busy \cup {s}, f.entry, f.fwd, f.next_free)
        /\ f.next_free # MaxElements
        /\ wr' = [slot |-> s, stage |-> "crc"]
  BY TakeSlotEffect
<1>2. ~Adding(l) /\ Adding(l)'
  BY AddingFacts DEF ControlPlane
<1>3. /\ fib'[l].busy = f.busy \cup {s} /\ fib'[l].entry = f.entry
      /\ fib'[l].fwd = f.fwd /\ fib'[l].next_free = f.next_free
  BY <1>1 DEF Becomes
<1>4. Complete(l)' = Complete(l)
  BY <1>1, <1>2, <1>3 DEF Complete, Free
<1>5. TableOK(l)'
  <2>1. \A r \in Slots : fib'[l].entry[r].index <= fib'[l].next_free
    BY <1>3 DEF TableOK
  <2> QED
    BY <1>3, <1>4, <2>1, SameTable DEF At
<1>6. TableStep(l)
  BY <1>2, <1>3 DEF TableStep
<1>7. WriterOK'
  <2>1. /\ cmd' = cmd /\ at' = at /\ cmd.op = "add"
        /\ cmd.prefix \in Prefixes /\ cmd.face \in Faces
    BY DEF TakeSlot, TypeOK, Cmds, NoCmd
  <2>2. s[1] = BucketOf(cmd.prefix) /\ f.next_free < MaxElements
    BY <1>1, TypeFacts, Sizes DEF Free
  <2> QED
    BY <1>1, <1>3, <2>1, <2>2 DEF WriterOK, Becomes
<1> QED
  BY <1>5, <1>6, <1>7

LEMMA StoreCrcTable ==
  ASSUME TypeOK, WriterOK, StoreCrc, NEW l \in Lcores, l = at, TableOK(l)
  PROVE  TableOK(l)' /\ TableStep(l) /\ WriterOK'
<1> DEFINE f == fib[l]
           e == [crc |-> Crc[cmd.prefix], index |-> f.entry[wr.slot].index]
<1>1. Becomes(f.busy, [f.entry EXCEPT ![wr.slot] = e], f.fwd, f.next_free)
  BY StoreCrcEffect
<1>2. Adding(l) /\ Adding(l)' /\ wr'.slot = wr.slot
  BY AddingFacts DEF ControlPlane
<1>3. /\ fib'[l].busy = f.busy /\ fib'[l].fwd = f.fwd
      /\ fib'[l].next_free = f.next_free
      /\ fib'[l].entry[wr.slot] = e
      /\ \A s \in Slots \ {wr.slot} : fib'[l].entry[s] = f.entry[s]
  BY <1>1, TypeFacts DEF Becomes
<1>4. Complete(l)' = Complete(l) /\ wr.slot \notin Complete(l)
      /\ Complete(l) \subseteq Slots
  BY <1>2, <1>3, TypeFacts DEF Complete
<1>5. TableOK(l)'
  <2>1. \A s \in Slots : fib'[l].entry[s].index = f.entry[s].index
    BY <1>3
  <2>2. \A s \in Slots : fib'[l].entry[s].index <= fib'[l].next_free
    BY <1>3, <2>1 DEF TableOK
  <2>3. ASSUME NEW s \in Complete(l)'
        PROVE  /\ s \in Complete(l) /\ fib'[l].entry[s] = f.entry[s]
               /\ At(f, s)' = At(f, s)
    BY <1>3, <1>4, <2>3 DEF At
  <2> QED
    BY <1>3, <2>2, <2>3, SameTable
<1>6. TableStep(l)
  BY <1>2, <1>3 DEF TableStep
<1>7. WriterOK'
  <2>1. cmd' = cmd /\ at' = at /\ wr' = [wr EXCEPT !.stage = "index"]
    BY DEF StoreCrc
  <2>2. wr'.stage = "index" /\ wr'.slot = wr.slot /\ wr.stage = "crc"
    BY <2>1, TypeFacts DEF StoreCrc
  <2> QED
    BY <1>3, <2>1, <2>2 DEF WriterOK
<1> QED
  BY <1>5, <1>6, <1>7

LEMMA StoreIndexTable ==
  ASSUME TypeOK, WriterOK, StoreIndex, NEW l \in Lcores, l = at, TableOK(l)
  PROVE  TableOK(l)' /\ TableStep(l) /\ WriterOK'
<1> DEFINE f == fib[l]
           e == [crc |-> f.entry[wr.slot].crc, index |-> f.next_free]
<1>1. Becomes(f.busy, [f.entry EXCEPT ![wr.slot] = e], f.fwd, f.next_free)
  BY StoreIndexEffect
<1>2. Adding(l) /\ Adding(l)' /\ wr'.slot = wr.slot
  BY AddingFacts DEF ControlPlane
<1>3. /\ fib'[l].busy = f.busy /\ fib'[l].fwd = f.fwd
      /\ fib'[l].next_free = f.next_free
      /\ fib'[l].entry[wr.slot] = e
      /\ \A s \in Slots \ {wr.slot} : fib'[l].entry[s] = f.entry[s]
  BY <1>1, TypeFacts DEF Becomes
<1>4. Complete(l)' = Complete(l) /\ wr.slot \notin Complete(l)
      /\ Complete(l) \subseteq Slots
  BY <1>2, <1>3, TypeFacts DEF Complete
<1>5. TableOK(l)'
  <2>1. f.next_free \in Nat
    BY TypeFacts, Sizes
  <2>2. \A s \in Slots : fib'[l].entry[s].index <= f.next_free
    BY <1>3, <2>1 DEF TableOK
  <2>3. ASSUME NEW s \in Complete(l)'
        PROVE  /\ s \in Complete(l) /\ fib'[l].entry[s] = f.entry[s]
               /\ At(f, s)' = At(f, s)
    BY <1>3, <1>4, <2>3 DEF At
  <2> QED
    BY <1>3, <2>2, <2>3, SameTable
<1>6. TableStep(l)
  BY <1>2, <1>3 DEF TableStep
<1>7. WriterOK'
  <2>1. cmd' = cmd /\ at' = at /\ wr' = [wr EXCEPT !.stage = "face"]
    BY DEF StoreIndex
  <2>2. wr'.stage = "face" /\ wr'.slot = wr.slot /\ wr.stage = "index"
    BY <2>1, TypeFacts DEF StoreIndex
  <2> QED
    BY <1>3, <2>1, <2>2 DEF WriterOK
<1> QED
  BY <1>5, <1>6, <1>7

LEMMA StoreFaceTable ==
  ASSUME TypeOK, WriterOK, StoreFace, NEW l \in Lcores, l = at, TableOK(l)
  PROVE  TableOK(l)' /\ TableStep(l) /\ WriterOK'
<1> DEFINE f == fib[l]
           r == [name |-> f.fwd[f.next_free].name, face |-> cmd.face]
<1>1. Becomes(f.busy, f.entry, [f.fwd EXCEPT ![f.next_free] = r], f.next_free)
  BY StoreFaceEffect
<1>2. Adding(l) /\ Adding(l)' /\ wr'.slot = wr.slot
  BY AddingFacts DEF ControlPlane
<1>3. f.next_free \in Index /\ \A i \in Index : i \in Int
  BY Sizes, TypeFacts DEF WriterOK, Index, StoreFace
<1>4. /\ fib'[l].busy = f.busy /\ fib'[l].entry = f.entry
      /\ fib'[l].next_free = f.next_free
      /\ fib'[l].fwd[f.next_free] = r
      /\ \A i \in Index \ {f.next_free} : fib'[l].fwd[i] = f.fwd[i]
  BY <1>1, <1>3, TypeFacts DEF Becomes
<1>5. Complete(l)' = Complete(l) /\ Complete(l) \subseteq Slots
  BY <1>2, <1>4, TypeFacts DEF Complete
<1>6. TableOK(l)'
  <2>1. \A i \in Index : fib'[l].fwd[i].name = f.fwd[i].name
    BY <1>4
  <2>2. ASSUME NEW s \in Complete(l)
        PROVE  At(f, s)' = At(f, s)
    <3>1. f.entry[s].index \in Index /\ f.entry[s].index < f.next_free
      BY <1>5, <2>2, TypeFacts DEF TableOK, TableEntry
    <3> QED
      BY <1>3, <1>4, <3>1 DEF At
  <2>3. \A s \in Slots : fib'[l].entry[s].index <= fib'[l].next_free
    BY <1>4 DEF TableOK
  <2>4. \A i \in Index : i < f.next_free => fib'[l].fwd[i] = f.fwd[i]
    BY <1>3, <1>4
  <2> QED
    BY <1>4, <1>5, <2>1, <2>2, <2>3, <2>4, SameTable
<1>7. TableStep(l)
  BY <1>2, <1>3, <1>4 DEF TableStep
<1>8. WriterOK'
  <2>1. cmd' = cmd /\ at' = at /\ wr' = [wr EXCEPT !.stage = "len"]
    BY DEF StoreFace
  <2>2. wr'.stage = "len" /\ wr'.slot = wr.slot /\ wr.stage = "face"
    BY <2>1, TypeFacts DEF StoreFace
  <2> QED
    BY <1>4, <2>1, <2>2 DEF WriterOK
<1> QED
  BY <1>6, <1>7, <1>8

LEMMA StoreLenTable ==
  ASSUME TypeOK, WriterOK, StoreLen, NEW l \in Lcores, l = at, TableOK(l)
  PROVE  TableOK(l)' /\ TableStep(l) /\ WriterOK'
<1>1. /\ fib' = fib /\ cmd' = cmd /\ at' = at
      /\ wr'.stage = "name" /\ wr'.slot = wr.slot /\ wr.stage = "len"
  BY TypeFacts DEF StoreLen
<1>2. Adding(l) /\ Adding(l)'
  BY AddingFacts DEF ControlPlane
<1>3. Complete(l)' = Complete(l)
  BY <1>1, <1>2 DEF Complete
<1>4. TableOK(l)'
  BY <1>1, <1>3 DEF TableOK, At
<1>5. TableStep(l)
  BY <1>1, <1>2 DEF TableStep
<1>6. WriterOK'
  BY <1>1 DEF WriterOK
<1> QED
  BY <1>4, <1>5, <1>6

LEMMA StoreNameTable ==
  ASSUME TypeOK, WriterOK, StoreName, NEW l \in Lcores, l = at, TableOK(l)
  PROVE  TableOK(l)' /\ TableStep(l) /\ WriterOK'
<1> DEFINE f == fib[l]
           r == [name |-> cmd.prefix, face |-> cmd.face]
<1>1. Becomes(f.busy, f.entry, [f.fwd EXCEPT ![f.next_free] = r], f.next_free + 1)
  BY StoreNameEffect
<1>2. Adding(l) /\ ~Adding(l)'
  BY AddingFacts DEF ControlPlane
<1>3. f.next_free \in Index /\ f.next_free \in Nat /\ \A i \in Index : i \in Int
  BY Sizes, TypeFacts DEF WriterOK, Index, StoreName
<1>4. /\ fib'[l].busy = f.busy /\ fib'[l].entry = f.entry
      /\ fib'[l].next_free = f.next_free + 1
      /\ fib'[l].fwd[f.next_free] = r
      /\ \A i \in Index \ {f.next_free} : fib'[l].fwd[i] = f.fwd[i]
  BY <1>1, <1>3, TypeFacts DEF Becomes
<1>5. /\ Complete(l)' = Complete(l) \cup {wr.slot} /\ Complete(l) \subseteq Slots
      /\ wr.slot \in Slots
  BY <1>2, <1>4, TypeFacts DEF Complete, WriterOK, StoreName
<1>6. /\ f.entry[wr.slot].index = f.next_free
      /\ f.entry[wr.slot].crc = Crc[cmd.prefix]
      /\ wr.slot[1] = BucketOf(cmd.prefix)
      /\ cmd.prefix \in Prefixes /\ cmd.face \in Faces
  BY DEF WriterOK, StoreName
<1>7. \A s \in Slots : f.entry[s].index \in Index /\ f.entry[s].index <= f.next_free
  BY TypeFacts DEF TableOK, TableEntry
<1>8. TableOK(l)'
  <2>1. \A s \in Slots : fib'[l].entry[s].index <= fib'[l].next_free
    BY <1>3, <1>4, <1>7
  <2>2. \A i \in Index :
          /\ i >= fib'[l].next_free => fib'[l].fwd[i].name = NoPrefix
          /\ i < fib'[l].next_free =>
               fib'[l].fwd[i].name \in Prefixes /\ fib'[l].fwd[i].face \in Faces
    <3> SUFFICES ASSUME NEW i \in Index
                 PROVE  /\ i >= f.next_free + 1 => fib'[l].fwd[i].name = NoPrefix
                        /\ i < f.next_free + 1 =>
                             /\ fib'[l].fwd[i].name \in Prefixes
                             /\ fib'[l].fwd[i].face \in Faces
      BY <1>4
    <3>1. CASE i = f.next_free
      BY <1>3, <1>4, <1>6, <3>1
    <3>2. CASE i # f.next_free
      <4>1. fib'[l].fwd[i] = f.fwd[i] /\ i \in Int
        BY <1>3, <1>4, <3>2
      <4>2. /\ i >= f.next_free + 1 => i >= f.next_free
            /\ i < f.next_free + 1 => i < f.next_free
        BY <1>3, <3>2, <4>1
      <4> QED
        BY <4>1, <4>2 DEF TableOK
    <3> QED
      BY <3>1, <3>2
  <2>3. ASSUME NEW s \in Complete(l)
        PROVE  At(f, s)' = At(f, s)
    <3>1. f.entry[s].index \in Index /\ f.entry[s].index < f.next_free
      BY <1>5, <1>7, <2>3 DEF TableOK
    <3> QED
      BY <1>3, <1>4, <3>1 DEF At
  <2>4. ASSUME NEW s \in Complete(l)'
        PROVE  /\ fib'[l].entry[s].index < fib'[l].next_free
               /\ fib'[l].entry[s].crc = Crc[At(f, s)'.name]
               /\ s[1] = BucketOf(At(f, s)'.name)
    <3>1. CASE s \in Complete(l)
      BY <1>3, <1>4, <1>5, <1>7, <2>3, <3>1 DEF TableOK
    <3>2. CASE s = wr.slot
      <4>1. At(f, s)' = r
        BY <1>4, <1>6, <3>2 DEF At
      <4> QED
        BY <1>3, <1>4, <1>6, <3>2, <4>1
    <3> QED
      BY <1>5, <2>4, <3>1, <3>2
  <2> QED
    BY <2>1, <2>2, <2>4 DEF TableOK
<1>9. TableStep(l)
  <2>1. PICK s \in Slots : s = wr.slot
    BY <1>5
  <2>2. F(l)!RouteAt(s)' = fib'[l].fwd[f.next_free]
    BY <1>4, <1>6, <2>1 DEF F!RouteAt
  <2>3. fib'[l].fwd[f.next_free] \in Routes(l)'
    BY <1>5, <2>1, <2>2 DEF Routes
  <2> QED
    BY <1>2, <1>3, <1>4, <1>5, <2>3 DEF TableStep
<1>10. WriterOK'
  BY DEF WriterOK, StoreName, NoWr
<1> QED
  BY <1>8, <1>9, <1>10

LEMMA DeleteTable ==
  ASSUME TypeOK, WriterOK, Delete, NEW l \in Lcores, l = at, TableOK(l)
  PROVE  TableOK(l)' /\ TableStep(l) /\ WriterOK'
<1> DEFINE f == fib[l]
<1>1. PICK s \in Via(f, cmd.prefix, cmd.face) :
        Becomes(f.busy \ {s}, f.entry, f.fwd, f.next_free)
  BY DeleteEffect
<1>2. ~Adding(l) /\ ~Adding(l)'
  BY AddingFacts DEF ControlPlane
<1>3. /\ fib'[l].busy = f.busy \ {s} /\ fib'[l].entry = f.entry
      /\ fib'[l].fwd = f.fwd /\ fib'[l].next_free = f.next_free
  BY <1>1 DEF Becomes
<1>4. Complete(l)' \subseteq Complete(l)
  BY <1>2, <1>3 DEF Complete
<1>5. TableOK(l)'
  <2>1. \A r \in Slots : fib'[l].entry[r].index <= fib'[l].next_free
    BY <1>3 DEF TableOK
  <2> QED
    BY <1>3, <1>4, <2>1, SameTable DEF At
<1>6. TableStep(l)
  BY <1>2, <1>3 DEF TableStep
<1>7. WriterOK'
  BY DEF WriterOK, Delete
<1> QED
  BY <1>5, <1>6, <1>7

-----------------------------------------------------------------------------
(* Lengths, indices and faces, store by store.                             *)

\* An index is stored in the slot that is being filled only, a length stays,
\* and entries not yet handed out have no face.
LenStep(l) ==
  /\ \A s \in Slots : \/ fib'[l].entry[s].index = fib[l].entry[s].index
                      \/ s \in Reindexed(l)'
  /\ \A i \in Index : LenAt(l, i) # 0 => LenAt(l, i)' = LenAt(l, i)

\* Nothing is stored in the forwarding table, and no name is under way.
LEMMA SameLens ==
  ASSUME NEW l \in Lcores, fib'[l].fwd = fib[l].fwd,
         \A i : ~InStore(l, i), \A i : ~InStore(l, i)'
  PROVE  \A i \in Index : LenAt(l, i)' = LenAt(l, i)
BY DEF LenAt

LEMMA ControlLens ==
  ASSUME TypeOK, WriterOK, Stores, NEW l \in Lcores, l = at, TableOK(l),
         UnfilledOK(l)
  PROVE  LenStep(l) /\ UnfilledOK(l)'
<1> DEFINE f == fib[l]
           g == fib'[l]
<1>1. f.next_free \in Int /\ \A i \in Index : i \in Int
  BY TypeFacts, Sizes DEF Index
<1>2. ASSUME ~(wr.stage = "name" /\ Adding(l)), ~(wr'.stage = "name" /\ Adding(l)'),
             g.fwd = f.fwd
      PROVE  \A i \in Index : LenAt(l, i)' = LenAt(l, i)
  BY <1>2, SameLens DEF InStore
<1>3. ASSUME Coming(l) = {}, g.fwd = f.fwd, g.next_free = f.next_free
      PROVE  UnfilledOK(l)'
  BY <1>3 DEF UnfilledOK
<1>4. CASE TakeSlot
  <2>1. g.entry = f.entry /\ g.fwd = f.fwd /\ g.next_free = f.next_free
    BY <1>4, TakeSlotEffect DEF Becomes
  <2>2. wr.stage = "start" /\ wr'.stage = "crc"
    BY <1>4 DEF TakeSlot
  <2>3. Coming(l) = {}
    BY <2>2 DEF Coming
  <2> QED
    BY <1>2, <1>3, <2>1, <2>2, <2>3 DEF LenStep
<1>5. CASE StoreCrc
  <2>1. /\ g.fwd = f.fwd /\ g.next_free = f.next_free
        /\ \A s \in Slots : g.entry[s].index = f.entry[s].index
    BY <1>5, TypeFacts, StoreCrcEffect DEF Becomes
  <2>2. wr.stage = "crc" /\ wr'.stage = "index"
    BY <1>5, TypeFacts DEF StoreCrc
  <2>3. Coming(l) = {}
    BY <2>2 DEF Coming
  <2> QED
    BY <1>2, <1>3, <2>1, <2>2, <2>3 DEF LenStep
<1>6. CASE StoreIndex
  <2>1. /\ g.fwd = f.fwd /\ g.next_free = f.next_free
        /\ \A s \in Slots \ {wr.slot} : g.entry[s].index = f.entry[s].index
    BY <1>6, TypeFacts, StoreIndexEffect DEF Becomes
  <2>2. wr.stage = "index" /\ wr'.stage = "face" /\ wr'.slot = wr.slot
    BY <1>6, TypeFacts DEF StoreIndex
  <2>3. Coming(l) = {}
    BY <2>2 DEF Coming
  <2>4. wr.slot \in Reindexed(l)'
    <3>1. Adding(l)'
      BY <1>6, AddingFacts DEF ControlPlane
    <3> QED
      BY <2>2, <3>1 DEF Reindexed
  <2> QED
    BY <1>2, <1>3, <2>1, <2>2, <2>3, <2>4 DEF LenStep
<1>7. CASE StoreFace
  <2>1. wr.stage = "face" /\ wr'.stage = "len" /\ cmd' = cmd /\ Adding(l)'
    BY <1>7, TypeFacts, AddingFacts DEF StoreFace, ControlPlane
  <2>2. f.next_free \in Index
    BY <1>7, <2>1, TypeFacts, Sizes DEF WriterOK, Index
  <2>3. /\ g.entry = f.entry /\ g.next_free = f.next_free
        /\ g.fwd[f.next_free].name = f.fwd[f.next_free].name
        /\ g.fwd[f.next_free].face = cmd.face
        /\ \A i \in Index \ {f.next_free} : g.fwd[i] = f.fwd[i]
    BY <1>7, <2>2, TypeFacts, StoreFaceEffect DEF Becomes
  <2>4. \A i \in Index : g.fwd[i].name = f.fwd[i].name
    BY <2>3
  <2>5. \A i \in Index : LenAt(l, i)' = LenAt(l, i)
    BY <2>1, <2>4 DEF LenAt, InStore
  <2>6. Coming(l) = {} /\ [name |-> cmd.prefix, face |-> cmd.face] \in Coming(l)'
    BY <2>1 DEF Coming
  <2>7. UnfilledOK(l)'
    <3> SUFFICES ASSUME NEW i \in Index, i >= g.next_free
                 PROVE  \/ g.fwd[i].face = 0
                        \/ /\ i = g.next_free
                           /\ [name |-> cmd'.prefix, face |-> g.fwd[i].face]
                                \in Coming(l)'
      BY DEF UnfilledOK
    <3>1. CASE i = f.next_free
      BY <2>1, <2>3, <2>6, <3>1
    <3>2. CASE i # f.next_free
      BY <2>3, <2>6, <3>2 DEF UnfilledOK
    <3> QED
      BY <3>1, <3>2
  <2> QED
    BY <2>3, <2>5, <2>7 DEF LenStep
<1>8. CASE StoreLen
  <2>1. /\ fib' = fib /\ cmd' = cmd /\ wr.stage = "len" /\ wr'.stage = "name"
        /\ Adding(l) /\ Adding(l)'
    BY <1>8, TypeFacts, AddingFacts DEF StoreLen, ControlPlane
  <2>2. Coming(l)' = Coming(l)
    BY <2>1 DEF Coming
  <2>3. UnfilledOK(l)'
    BY <2>1, <2>2 DEF UnfilledOK
  <2>4. ASSUME NEW i \in Index, LenAt(l, i) # 0
        PROVE  LenAt(l, i)' = LenAt(l, i)
    <3>1. f.fwd[i].name # NoPrefix
      BY <2>1, <2>4 DEF LenAt, InStore
    <3>2. i # f.next_free
      BY <1>1, <3>1 DEF TableOK
    <3> QED
      BY <2>1, <3>2 DEF LenAt, InStore
  <2> QED
    BY <2>1, <2>3, <2>4 DEF LenStep
<1>9. CASE StoreName
  <2>1. wr.stage = "name" /\ wr'.stage = "start" /\ Adding(l)
        /\ cmd.prefix \in Prefixes
    BY <1>9, AddingFacts DEF StoreName, NoWr, ControlPlane, WriterOK
  <2>2. f.next_free \in Index
    BY <2>1, TypeFacts, Sizes DEF WriterOK, Index
  <2>3. /\ g.entry = f.entry /\ g.next_free = f.next_free + 1
        /\ g.fwd[f.next_free].name = cmd.prefix
        /\ \A i \in Index \ {f.next_free} : g.fwd[i] = f.fwd[i]
    BY <1>9, <2>2, TypeFacts, StoreNameEffect DEF Becomes
  <2>4. ASSUME NEW i \in Index
        PROVE  LenAt(l, i)' = LenAt(l, i)
    <3>0. ~InStore(l, i)'
      BY <2>1 DEF InStore
    <3>1. CASE i = f.next_free
      BY <2>1, <2>3, <3>0, <3>1, PrefixesAssumption DEF LenAt, InStore
    <3>2. CASE i # f.next_free
      BY <2>3, <3>0, <3>2 DEF LenAt, InStore
    <3> QED
      BY <3>1, <3>2
  <2>5. UnfilledOK(l)'
    <3> SUFFICES ASSUME NEW i \in Index, i >= f.next_free + 1
                 PROVE  g.fwd[i].face = 0
      BY <2>3 DEF UnfilledOK
    <3>1. i >= f.next_free /\ i # f.next_free
      BY <1>1
    <3> QED
      BY <2>3, <3>1 DEF UnfilledOK
  <2> QED
    BY <2>3, <2>4, <2>5 DEF LenStep
<1>10. CASE Delete
  <2>1. g.entry = f.entry /\ g.fwd = f.fwd /\ g.next_free = f.next_free
    BY <1>10, DeleteEffect DEF Becomes
  <2>2. ~Adding(l) /\ ~Adding(l)'
    BY <1>10, AddingFacts DEF ControlPlane
  <2>3. Coming(l) = {}
    BY <2>2 DEF Coming
  <2> QED
    BY <1>2, <1>3, <2>1, <2>2, <2>3 DEF LenStep
<1> QED
  BY <1>4, <1>5, <1>6, <1>7, <1>8, <1>9, <1>10 DEF Stores

-----------------------------------------------------------------------------
(* The command.                                                            *)

\* A store of fib_add on the way does not change what becomes of the FIB.
LEMMA FilledAnyway ==
  ASSUME NEW c, NEW f \in FibState, NEW g \in FibState, NEW s \in Slots,
         g.busy \cup {s} = f.busy \cup {s},
         g.next_free = f.next_free,
         \A r \in Slots \ {s} : g.entry[r] = f.entry[r],
         \A i \in Index \ {f.next_free} : g.fwd[i] = f.fwd[i]
  PROVE  Filled(c, g, s) = Filled(c, f, s)
<1> DEFINE e == [crc |-> Crc[c.prefix], index |-> f.next_free]
           r == [name |-> c.prefix, face |-> c.face]
<1>1. /\ f.entry \in [Slots -> TableEntry] /\ g.entry \in [Slots -> TableEntry]
      /\ f.fwd \in [Index -> Route] /\ g.fwd \in [Index -> Route]
  BY DEF FibState
<1> HIDE DEF e, r
<1>2. [g.entry EXCEPT ![s] = e] = [f.entry EXCEPT ![s] = e]
  BY <1>1
<1>3. [g.fwd EXCEPT ![f.next_free] = r] = [f.fwd EXCEPT ![f.next_free] = r]
  BY <1>1
<1> QED
  BY <1>2, <1>3 DEF Filled, e, r

\* The command is done with the FIB of at, and the loop goes on.
LEMMA PassOn ==
  ASSUME TypeOK, TypeOK', CommandOK, cmd # NoCmd, Advance, wr'.stage = "start",
         \A l \in Lcores : l # at => fib'[l] = fib[l],
         fib'[at] = Target
  PROVE  CommandOK'
<1>1. \A l \in Lcores : l \in Nat
  BY LcoresAssumption
<1>2. /\ \A l \in Lcores : l < at => fib[l] = Target
      /\ \A l \in Lcores : l > at => After(cmd, fib[l]) = Target
      /\ \A l, m \in Lcores : l > at /\ m > at => fib[l] = fib[m]
  BY DEF CommandOK
<1> DEFINE T == Target
<1>3. \A l \in Lcores : l <= at => fib'[l] = T
  BY <1>1, <1>2, AdvanceFacts
<1>4. CASE cmd' = NoCmd /\ \A l \in Lcores : l <= at
  <2>1. \A l, m \in Lcores : fib'[l] = fib'[m]
    BY <1>3, <1>4
  <2> QED
    BY <1>4, <2>1 DEF CommandOK
<1>5. CASE /\ cmd' = cmd /\ at' > at
           /\ \A l \in Lcores : l > at => l >= at'
  <2>1. at' \in Lcores /\ at \in Nat /\ at' \in Nat
    BY AdvanceFacts
  <2>2. \A l \in Lcores : l > at => fib'[l] = fib[l] /\ After(cmd', fib'[l]) = T
    BY <1>1, <1>2, <1>5, <2>1
  <2>3. Target' = T
    BY <1>5, <2>1, <2>2 DEF Target
  <2>4. \A l \in Lcores : l < at' => fib'[l] = T
    BY <1>1, <1>3, <1>5, <2>1
  <2>5. \A l \in Lcores : l > at' => l > at
    BY <1>1, <1>5, <2>1
  <2> HIDE DEF T
  <2>6. /\ \A l \in Lcores : l < at' => fib'[l] = Target'
        /\ \A l \in Lcores : l > at' => After(cmd', fib'[l]) = Target'
    BY <2>2, <2>3, <2>4, <2>5
  <2>7. \A l, m \in Lcores : l > at' /\ m > at' => fib'[l] = fib'[m]
    BY <1>2, <2>2, <2>5
  <2> QED
    BY <1>5, <2>6, <2>7 DEF CommandOK
<1> QED
  BY <1>4, <1>5, AdvanceFacts

\* The command goes on with the FIB of at.
LEMMA StayOn ==
  ASSUME TypeOK, TypeOK', CommandOK, cmd # NoCmd, UNCHANGED <<cmd, at>>,
         \A l \in Lcores : l # at => fib'[l] = fib[l],
         Target' = Target
  PROVE  CommandOK'
<1>1. \A l \in Lcores : l < at \/ l > at => fib'[l] = fib[l]
  BY LcoresAssumption DEF TypeOK
<1>2. /\ \A l \in Lcores : l < at => fib[l] = Target
      /\ \A l \in Lcores : l > at => After(cmd, fib[l]) = Target
      /\ \A l, m \in Lcores : l > at /\ m > at => fib[l] = fib[m]
  BY DEF CommandOK
<1> DEFINE T == Target
<1> HIDE DEF T
<1>3. Target = T /\ Target' = T /\ cmd' = cmd /\ at' = at
  BY DEF T
<1>4. /\ \A l \in Lcores : l < at' => fib'[l] = Target'
      /\ \A l \in Lcores : l > at' => After(cmd', fib'[l]) = Target'
      /\ \A l, m \in Lcores : l > at' /\ m > at' => fib'[l] = fib'[m]
  BY <1>1, <1>2, <1>3
<1> QED
  BY <1>3, <1>4 DEF CommandOK

LEMMA ControlCommand ==
  ASSUME TypeOK, TypeOK', WriterOK, CommandOK, ControlPlane
  PROVE  CommandOK'
<1> DEFINE f == fib[at]
           g == fib'[at]
<1>1. /\ f \in FibState /\ g \in FibState /\ wr.slot \in Slots
      /\ f.entry \in [Slots -> TableEntry] /\ f.fwd \in [Index -> Route]
  BY TypeFacts DEF TypeOK, FibState
<1>2. CASE ReceiveCmd
  <2>1. /\ cmd = NoCmd /\ wr.stage = "start" /\ fib' = fib /\ wr' = wr
        /\ \A l, m \in Lcores : fib[l] = fib[m]
    BY <1>2 DEF ReceiveCmd, CommandOK
  <2>2. cmd' # NoCmd /\ at' \in Lcores
    BY <1>2 DEF ReceiveCmd, Cmds, NoCmd, TypeOK
  <2>3. Target' = After(cmd', fib'[at'])
    BY <2>1 DEF Target
  <2> DEFINE c == cmd' T == Target'
  <2>4. \A l \in Lcores : l > at' => After(c, fib'[l]) = T
    BY <2>1, <2>2, <2>3
  <2>5. \A l \in Lcores : ~(l < at')
    <3>1. \A l \in Lcores : l >= at'
      BY <1>2, LcoresAssumption, Lowest DEF ReceiveCmd
    <3> QED
      BY <2>2, <3>1, LcoresAssumption
  <2> QED
    BY <2>1, <2>2, <2>4, <2>5 DEF CommandOK
<1>3. CASE AddRefused
  <2>1. /\ cmd.op = "add" /\ wr.stage = "start" /\ wr' = wr /\ fib' = fib /\ Advance
        /\ f.next_free = MaxElements \/ Free(f, cmd.prefix) = {}
    BY <1>3, TypeFacts, FibOperators DEF AddRefused
  <2>2. Target = f
    BY <2>1 DEF Target, After, Added
  <2> QED
    BY <2>1, <2>2, PassOn DEF NoCmd
<1>4. CASE TakeSlot
  <2>1. PICK s \in Free(f, cmd.prefix) :
          /\ Becomes(f.busy \cup {s}, f.entry, f.fwd, f.next_free)
          /\ First(Free(f, cmd.prefix)) = s
          /\ f.next_free # MaxElements
          /\ wr' = [slot |-> s, stage |-> "crc"]
    BY <1>4, TakeSlotEffect
  <2>2. cmd.op = "add" /\ wr.stage = "start" /\ cmd' = cmd /\ at' = at
    BY <1>4 DEF TakeSlot
  <2>3. Target = Filled(cmd, f, s)
    BY <2>1, <2>2 DEF Target, After, Added
  <2>4. s \in Slots
    BY <2>1 DEF Free
  <2>5. Filled(cmd, g, s) = Filled(cmd, f, s)
    BY <1>1, <2>1, <2>4, FilledAnyway DEF Becomes
  <2>6. Target' = Target
    BY <2>1, <2>2, <2>3, <2>5 DEF Target
  <2> QED
    BY <2>1, <2>2, <2>6, StayOn DEF NoCmd, Becomes
<1>5. CASE StoreCrc \/ StoreIndex \/ StoreFace \/ StoreLen
  <2>1. /\ cmd' = cmd /\ at' = at /\ cmd.op = "add"
        /\ wr.stage # "start" /\ wr'.stage # "start" /\ wr'.slot = wr.slot
    BY <1>5, TypeFacts DEF StoreCrc, StoreIndex, StoreFace, StoreLen, WriterOK
  <2>2. /\ g.busy = f.busy /\ g.next_free = f.next_free
        /\ \A r \in Slots \ {wr.slot} : g.entry[r] = f.entry[r]
        /\ \A i \in Index \ {f.next_free} : g.fwd[i] = f.fwd[i]
        /\ \A l \in Lcores : l # at => fib'[l] = fib[l]
    <3>1. CASE StoreCrc
      BY <1>1, <3>1, StoreCrcEffect DEF Becomes
    <3>2. CASE StoreIndex
      BY <1>1, <3>2, StoreIndexEffect DEF Becomes
    <3>3. CASE StoreFace
      BY <1>1, <3>3, StoreFaceEffect DEF Becomes
    <3>4. CASE StoreLen
      BY <3>4 DEF StoreLen
    <3> QED
      BY <1>5, <3>1, <3>2, <3>3, <3>4
  <2>3. Filled(cmd, g, wr.slot) = Filled(cmd, f, wr.slot)
    BY <1>1, <2>2, FilledAnyway
  <2>4. Target' = Target
    BY <2>1, <2>3 DEF Target
  <2> QED
    BY <2>1, <2>2, <2>4, StayOn DEF NoCmd
<1>6. CASE StoreName
  <2> DEFINE r == [name |-> cmd.prefix, face |-> cmd.face]
             e == [crc |-> Crc[cmd.prefix], index |-> f.next_free]
  <2>1. Becomes(f.busy, f.entry, [f.fwd EXCEPT ![f.next_free] = r], f.next_free + 1)
    BY <1>6, StoreNameEffect
  <2>2. /\ cmd.op = "add" /\ wr.stage = "name" /\ wr'.stage = "start" /\ Advance
        /\ wr.slot \in f.busy /\ f.entry[wr.slot].crc = Crc[cmd.prefix]
        /\ f.entry[wr.slot].index = f.next_free
    BY <1>6 DEF StoreName, WriterOK, NoWr
  <2>3. f.entry[wr.slot] = e
    BY <1>1, <2>2 DEF TableEntry
  <2> HIDE DEF e, r
  <2>4. [f.entry EXCEPT ![wr.slot] = e] = f.entry
    BY <1>1, <2>3
  <2>5. g = [busy |-> f.busy, entry |-> f.entry,
             fwd |-> [f.fwd EXCEPT ![f.next_free] = r],
             next_free |-> f.next_free + 1]
    BY <1>1, <2>1 DEF Becomes, FibState
  <2>6. f.busy \cup {wr.slot} = f.busy
    BY <2>2
  <2>7. Target = g
    BY <2>2, <2>4, <2>5, <2>6 DEF Target, Filled, e, r
  <2> QED
    BY <2>1, <2>2, <2>7, PassOn DEF NoCmd, Becomes
<1>7. CASE Delete
  <2>1. PICK s \in Via(f, cmd.prefix, cmd.face) :
          /\ Becomes(f.busy \ {s}, f.entry, f.fwd, f.next_free)
          /\ First(Via(f, cmd.prefix, cmd.face)) = s
    BY <1>7, DeleteEffect
  <2>2. /\ cmd.op = "del" /\ Advance /\ wr' = wr
        /\ wr.stage = "start"
    BY <1>7 DEF Delete, WriterOK
  <2>3. Target = [f EXCEPT !.busy = f.busy \ {s}]
    BY <2>1, <2>2 DEF Target, After, Deleted
  <2>4. g = [f EXCEPT !.busy = f.busy \ {s}]
    BY <1>1, <2>1 DEF Becomes, FibState
  <2> QED
    BY <2>1, <2>2, <2>3, <2>4, PassOn DEF NoCmd, Becomes
<1>8. CASE DeleteMissing
  <2>1. /\ cmd.op = "del" /\ wr' = wr /\ fib' = fib /\ Advance /\ wr.stage = "start"
        /\ Via(f, cmd.prefix, cmd.face) = {}
    BY <1>8, TypeFacts, FibOperators DEF DeleteMissing, WriterOK
  <2>2. Target = f
    BY <2>1 DEF Target, After, Deleted
  <2> QED
    BY <2>1, <2>2, PassOn DEF NoCmd
<1> QED
  BY <1>2, <1>3, <1>4, <1>5, <1>6, <1>7, <1>8 DEF ControlPlane

-----------------------------------------------------------------------------
(* The lookups beside a step of the control plane.                         *)

LEMMA LookupFacts ==
  ASSUME TypeOK, NEW l \in Readers
  PROVE  /\ l \in Lcores /\ rd[l].name \in Names
         /\ rd[l].tab \in Nat /\ rd[l].tab <= BucketSize
         /\ rd[l].index \in Index /\ rd[l].found \subseteq Faces \cup {0}
         /\ rd[l].stable \subseteq Slots /\ rd[l].refilled \subseteq Slots
         /\ rd[l].k \in Nat
         /\ rd[l].k > 0 =>
              /\ rd[l].k \in DOMAIN Path[rd[l].name]
              /\ Prefix(l) \in Prefixes
              /\ Slot(l) = <<BucketOf(Prefix(l)), rd[l].tab>>
              /\ rd[l].tab < BucketSize => Slot(l) \in Slots
<1>1. /\ rd[l] \in LookupState /\ rd[l].k \in 0 .. Len(Path[rd[l].name])
      /\ l \in Lcores
  BY TypeFacts DEF TypeOK
<1>2. /\ rd[l].name \in Names /\ rd[l].tab \in 0 .. BucketSize
      /\ rd[l].index \in Index /\ rd[l].found \subseteq Faces \cup {0}
      /\ rd[l].stable \subseteq Slots /\ rd[l].refilled \subseteq Slots
      /\ rd[l].k \in Nat
  BY <1>1 DEF LookupState
<1>3. rd[l].tab \in Nat /\ rd[l].tab <= BucketSize
  BY <1>2, Sizes
<1>4. ASSUME rd[l].k > 0
      PROVE  /\ rd[l].k \in DOMAIN Path[rd[l].name]
             /\ Prefix(l) \in Prefixes
             /\ Slot(l) = <<BucketOf(Prefix(l)), rd[l].tab>>
             /\ rd[l].tab < BucketSize => Slot(l) \in Slots
  <2>1. Path[rd[l].name] \in Seq(Prefixes)
    BY <1>2, NamesAssumption
  <2>2. rd[l].k \in DOMAIN Path[rd[l].name]
    BY <1>1, <1>2, <1>4, <2>1
  <2>3. Prefix(l) \in Prefixes
    BY <2>1, <2>2 DEF Prefix
  <2>4. Slot(l) = <<BucketOf(Prefix(l)), rd[l].tab>>
    BY DEF Slot, F!BucketOf, BucketOf
  <2>5. BucketOf(Prefix(l)) \in 0 .. NumBuckets - 1
    BY <2>3, CrcAssumption, Sizes DEF BucketOf
  <2> QED
    BY <1>3, <2>2, <2>3, <2>4, <2>5, Sizes DEF Slots
<1> QED
  BY <1>1, <1>2, <1>3, <1>4

\* A step that leaves lcore l and its FIB alone.
LEMMA SameLookup ==
  ASSUME TypeOK, NEW l \in Readers, LookupOK(l),
         fib'[l] = fib[l], rd'[l] = rd[l], Adding(l)' <=> Adding(l),
         Adding(l) => wr' = wr /\ cmd' = cmd
  PROVE  LookupOK(l)'
<1>1. /\ Complete(l)' = Complete(l) /\ Coming(l)' = Coming(l)
      /\ \A i : LenAt(l, i)' = LenAt(l, i)
  BY DEF Complete, Coming, LenAt, InStore
<1>2. Routes(l)' = Routes(l) /\ Stale(l)' = Stale(l)
  BY <1>1 DEF Routes, Stale, Behind, F!RouteAt
<1>3. SeenOK(l) => SeenOK(l)'
  BY <1>1, <1>2 DEF SeenOK, At
<1>4. /\ Prefix(l)' = Prefix(l) /\ Slot(l)' = Slot(l)
      /\ Known(l)' = Known(l) /\ Seen(l)' = Seen(l)
      /\ \A p, c : Explained(l, p, c)' <=> Explained(l, p, c)
  BY DEF Prefix, Slot, F!BucketOf, Known, Seen, Explained, Mixed
<1>5. /\ SlotOK(l) => SlotOK(l)'
      /\ IndexOK(l) => IndexOK(l)'
      /\ NameOK(l) => NameOK(l)'
  BY <1>1, <1>4 DEF SlotOK, IndexOK, NameOK, At
<1>6. LenOK(l) => LenOK(l)'
  BY <1>1, <1>4 DEF LenOK
<1>7. ScanOK(l) => ScanOK(l)'
  BY <1>1, <1>4, <1>5, <1>6 DEF ScanOK, At
<1> QED
  BY <1>3, <1>4, <1>7 DEF LookupOK

\* What a complete slot leads to stays.
LEMMA CompleteStays ==
  ASSUME TypeOK, NEW l \in Lcores, TableOK(l), TableStep(l), NEW s \in Complete(l)
  PROVE  /\ fib'[l].entry[s] = fib[l].entry[s]
         /\ At(fib[l], s)' = At(fib[l], s)
         /\ fib[l].entry[s].index < fib[l].next_free
<1>1. s \in Slots /\ ~(Adding(l) /\ wr.slot = s)
  BY TypeFacts DEF Complete
<1>2. fib'[l].entry[s] = fib[l].entry[s]
  BY <1>1 DEF TableStep
<1>3. fib[l].entry[s].index \in Index /\ fib[l].entry[s].index < fib[l].next_free
  BY <1>1, TypeFacts DEF TableOK, TableEntry
<1> QED
  BY <1>2, <1>3 DEF TableStep, At

\* What a lookup has found so far stays explained while it learns more.
LEMMA MoreExplains ==
  ASSUME NEW l \in Readers, Known(l) \subseteq Known(l)', Seen(l) \subseteq Seen(l)',
         rd[l].refilled \subseteq rd'[l].refilled
  PROVE  \A p, c : Explained(l, p, c) => Explained(l, p, c)'
<1>1. \A p : F(l)!BucketOf(p)' = F(l)!BucketOf(p)
  BY DEF F!BucketOf
<1> QED
  BY <1>1 DEF Explained, Mixed

\* A store to the FIB of lcore l, by what the lookup sees of it.
LEMMA StoreSeen ==
  ASSUME TypeOK, NEW l \in Readers, l = at, Observe
  PROVE  /\ rd'[l].stable = rd[l].stable \cap Complete(l)'
         /\ rd'[l].present = rd[l].present \cup Routes(l)'
         /\ rd'[l].stale = rd[l].stale \cup Stale(l)'
         /\ rd'[l].begun = rd[l].begun \cup Coming(l)'
         /\ rd'[l].refilled = rd[l].refilled \cup Reindexed(l)'
         /\ rd'[l].stage = rd[l].stage /\ rd'[l].name = rd[l].name
         /\ rd'[l].k = rd[l].k /\ rd'[l].tab = rd[l].tab
         /\ rd'[l].index = rd[l].index /\ rd'[l].found = rd[l].found
         /\ rd'[l].answer = rd[l].answer
<1> DEFINE q == rd[l]
           stable   == q.stable \cap Complete(l)'
           present  == q.present \cup Routes(l)'
           stale    == q.stale \cup Stale(l)'
           begun    == q.begun \cup Coming(l)'
           refilled == q.refilled \cup Reindexed(l)'
<1>1. q \in LookupState
  BY TypeFacts
<1>2. rd'[l] = [q EXCEPT !.stable = stable, !.present = present, !.stale = stale,
                         !.begun = begun, !.refilled = refilled]
  BY DEF Observe
<1> HIDE DEF stable, present, stale, begun, refilled
<1>3. /\ rd'[l].stable = stable /\ rd'[l].present = present /\ rd'[l].stale = stale
      /\ rd'[l].begun = begun /\ rd'[l].refilled = refilled
      /\ rd'[l].stage = q.stage /\ rd'[l].name = q.name /\ rd'[l].k = q.k
      /\ rd'[l].tab = q.tab /\ rd'[l].index = q.index /\ rd'[l].found = q.found
      /\ rd'[l].answer = q.answer
  BY <1>1, <1>2 DEF LookupState
<1> QED
  BY <1>3 DEF stable, present, stale, begun, refilled

\* The slot at hand after such a store.
LEMMA StoreSlot ==
  ASSUME TypeOK, NEW l \in Readers, TableOK(l), TableStep(l), SeenOK(l), SlotOK(l),
         Slot(l) \in Slots, Slot(l)' = Slot(l),
         Known(l) \subseteq Known(l)', Routes(l)' \subseteq Known(l)'
  PROVE  SlotOK(l)'
<1> DEFINE s == Slot(l)
           f == fib[l]
           g == fib'[l]
<1>1. l \in Lcores /\ s \in Slots /\ Slot(l)' = s
  BY TypeFacts
<1>2. f.entry[s].index \in Index /\ \A i \in Index : i \in Int
  BY <1>1, TypeFacts, Sizes DEF TableEntry, Index
<1>3. f.next_free \in Nat /\ g.next_free \in {f.next_free, f.next_free + 1}
  BY <1>1, TypeFacts, Sizes DEF TableStep
<1>4. \/ s \in Complete(l)
      \/ Adding(l) /\ s = wr.slot
      \/ f.entry[s].index < f.next_free /\ At(f, s) \in Known(l)
  BY DEF SlotOK
<1>5. SUFFICES \/ s \in Complete(l)'
               \/ Adding(l)' /\ s = wr'.slot
               \/ /\ g.entry[s].index < g.next_free
                  /\ g.fwd[g.entry[s].index] \in Known(l)'
  BY <1>1 DEF SlotOK, At
<1> HIDE DEF s
<1>6. CASE Adding(l) /\ s = wr.slot
  BY <1>1, <1>6 DEF TableStep
<1>7. CASE /\ g.entry[s] = f.entry[s]
           /\ f.entry[s].index < f.next_free /\ At(f, s) \in Known(l)
  <2>1. g.fwd[f.entry[s].index] = At(f, s)
    BY <1>2, <1>7 DEF TableStep, At
  <2>2. f.entry[s].index < g.next_free
    BY <1>3, <1>2, <1>7
  <2> QED
    BY <1>1, <1>7, <2>1, <2>2
<1>8. CASE s \in Complete(l)
  <2>1. F(l)!RouteAt(s) = At(f, s)
    BY DEF F!RouteAt, At
  <2>2. At(f, s) \in Known(l)
    BY <1>8, <2>1 DEF SeenOK, Routes, Known
  <2> QED
    BY <1>1, <1>7, <1>8, <2>2, CompleteStays
<1> QED
  BY <1>1, <1>4, <1>6, <1>7, <1>8 DEF TableStep

\* The index that was loaded from it.
LEMMA StoreIndexLoaded ==
  ASSUME TypeOK, NEW l \in Readers, TableOK(l), TableStep(l), LenStep(l), SeenOK(l),
         IndexOK(l), Slot(l) \in Slots, Slot(l)' = Slot(l), rd'[l].index = rd[l].index,
         rd'[l].stable \subseteq rd[l].stable,
         rd'[l].refilled = rd[l].refilled \cup Reindexed(l)',
         Known(l) \subseteq Known(l)', Routes(l)' \subseteq Known(l)'
  PROVE  IndexOK(l)'
<1> DEFINE s == Slot(l)
           i == rd[l].index
           f == fib[l]
           g == fib'[l]
<1>1. l \in Lcores /\ i \in Index /\ i \in Int /\ s \in Slots
  BY LookupFacts, Sizes DEF Index
<1>2. f.next_free \in Nat /\ g.next_free \in {f.next_free, f.next_free + 1}
  BY <1>1, TypeFacts, Sizes DEF TableStep
<1>3. /\ i <= f.next_free /\ (i < f.next_free => f.fwd[i] \in Known(l))
      /\ s \in rd[l].stable \/ s \notin rd[l].refilled => i = f.entry[s].index
  BY DEF IndexOK
<1>4. s \in rd'[l].stable \/ s \notin rd'[l].refilled => i = g.entry[s].index
  <2>1. CASE s \in rd'[l].stable
    <3>1. s \in rd[l].stable /\ s \in Complete(l)
      BY <2>1 DEF SeenOK
    <3>2. g.entry[s] = f.entry[s]
      BY <1>1, <3>1, CompleteStays
    <3> QED
      BY <1>3, <3>1, <3>2
  <2>2. CASE s \notin rd'[l].refilled
    <3>1. s \notin rd[l].refilled /\ g.entry[s].index = f.entry[s].index
      BY <1>1, <2>2 DEF LenStep
    <3> QED
      BY <1>3, <3>1
  <2> QED
    BY <2>1, <2>2
<1>5. SUFFICES /\ i <= g.next_free
               /\ i < g.next_free => g.fwd[i] \in Known(l)'
  BY <1>4 DEF IndexOK
<1> HIDE DEF i, s
<1>6. CASE i < f.next_free
  BY <1>1, <1>2, <1>3, <1>6 DEF TableStep
<1>7. CASE i = f.next_free
  BY <1>1, <1>2, <1>7 DEF TableStep
<1> QED
  BY <1>1, <1>2, <1>3, <1>6, <1>7

\* The comparisons that were made.
LEMMA StoreCompared ==
  ASSUME TypeOK, NEW l \in Readers, TableOK(l), TableStep(l), LenStep(l),
         Slot(l) \in Slots, Slot(l)' = Slot(l), Prefix(l) \in Prefixes,
         Prefix(l)' = Prefix(l),
         rd'[l].refilled = rd[l].refilled \cup Reindexed(l)',
         Seen(l) \subseteq Seen(l)'
  PROVE  (LenOK(l) => LenOK(l)') /\ (NameOK(l) => NameOK(l)')
<1> DEFINE s == Slot(l)
           f == fib[l]
           g == fib'[l]
<1>0. l \in Lcores /\ f.entry[s].index \in Index
  BY TypeFacts DEF TableEntry
<1> PICK i \in Index : i = f.entry[s].index
  BY <1>0
<1>1. l \in Lcores /\ i \in Int /\ s \in Slots /\ s = Slot(l)'
  BY <1>0, Sizes DEF Index
<1>2. f.next_free \in Nat /\ g.next_free \in {f.next_free, f.next_free + 1}
  BY <1>1, TypeFacts, Sizes DEF TableStep
<1>3. s \notin rd'[l].refilled => s \notin rd[l].refilled /\ g.entry[s].index = i
  BY <1>1 DEF LenStep
<1>4. ASSUME LenOK(l), s \notin rd'[l].refilled
      PROVE  \A j : j = g.entry[s].index => LenAt(l, j)' = Length[Prefix(l)]
  <2>1. LenAt(l, i) = Length[Prefix(l)]
    BY <1>3, <1>4 DEF LenOK
  <2>2. Length[Prefix(l)] # 0
    BY LengthAssumption
  <2>3. LenAt(l, i)' = Length[Prefix(l)]
    BY <1>1, <2>1, <2>2 DEF LenStep
  <2> QED
    BY <1>3, <1>4, <2>3
<1>5. LenOK(l) => LenOK(l)'
  BY <1>1, <1>4 DEF LenOK, LenAt, InStore
<1>6. ASSUME NameOK(l), s \notin rd'[l].refilled
      PROVE  /\ g.entry[s].index < g.next_free
             /\ g.fwd[g.entry[s].index].name = Prefix(l)
  <2>1. i < f.next_free /\ f.fwd[i].name = Prefix(l)
    BY <1>3, <1>6 DEF NameOK, At
  <2>2. g.fwd[i] = f.fwd[i] /\ i < g.next_free
    BY <1>1, <1>2, <2>1 DEF TableStep
  <2> QED
    BY <1>3, <1>6, <2>1, <2>2
<1>7. NameOK(l) => NameOK(l)'
  BY <1>1, <1>6 DEF NameOK, At
<1> QED
  BY <1>5, <1>7

\* A store to the FIB of lcore l.
LEMMA StoreLookup ==
  ASSUME TypeOK, NEW l \in Readers, l = at, TableOK(l), TableStep(l), LenStep(l),
         LookupOK(l), Observe
  PROVE  LookupOK(l)'
<1> DEFINE q == rd[l]
           f == fib[l]
<1>1. /\ rd'[l].stable = q.stable \cap Complete(l)'
      /\ rd'[l].present = q.present \cup Routes(l)'
      /\ rd'[l].stale = q.stale \cup Stale(l)'
      /\ rd'[l].begun = q.begun \cup Coming(l)'
      /\ rd'[l].refilled = q.refilled \cup Reindexed(l)'
      /\ rd'[l].stage = q.stage /\ rd'[l].name = q.name /\ rd'[l].k = q.k
      /\ rd'[l].tab = q.tab /\ rd'[l].index = q.index /\ rd'[l].found = q.found
      /\ rd'[l].answer = q.answer
  BY StoreSeen
<1>2. /\ Prefix(l)' = Prefix(l) /\ Slot(l)' = Slot(l)
      /\ Known(l) \subseteq Known(l)' /\ Seen(l) \subseteq Seen(l)'
      /\ Routes(l)' \subseteq Known(l)'
  BY <1>1 DEF Prefix, Slot, F!BucketOf, Known, Seen
<1>3. \A p, c : Explained(l, p, c) => Explained(l, p, c)'
  BY <1>1, <1>2, MoreExplains
<1>4. l \in Lcores
  BY TypeFacts
<1>5. ASSUME SeenOK(l)
      PROVE  SeenOK(l)'
  <2>1. \A s \in rd'[l].stable : s \in q.stable /\ At(f, s)' = At(f, s)
    BY <1>1, <1>4, <1>5, CompleteStays DEF SeenOK
  <2>2. \A s \in rd'[l].stable, j \in DOMAIN Path[rd'[l].name] :
          At(f, s)'.name = Path[rd'[l].name][j] => j <= rd'[l].k
    BY <1>1, <1>5, <2>1 DEF SeenOK
  <2>3. /\ rd'[l].stable \subseteq Complete(l)' /\ Coming(l)' \subseteq rd'[l].begun
        /\ Routes(l)' \subseteq rd'[l].present /\ Stale(l)' \subseteq rd'[l].stale
    BY <1>1
  <2> QED
    BY <2>2, <2>3 DEF SeenOK
<1>6. ASSUME SeenOK(l), ScanOK(l), q.stage \in InProgress
      PROVE  ScanOK(l)'
  <2>1. \A s \in rd'[l].stable : s \in q.stable /\ At(f, s)' = At(f, s)
    BY <1>1, <1>4, <1>6, CompleteStays DEF SeenOK
  <2>2. /\ rd'[l].k > 0 /\ (rd'[l].stage # "busy" => rd'[l].tab < BucketSize)
        /\ \A s \in rd'[l].stable :
             At(f, s)'.name = Prefix(l)' /\ s[2] < rd'[l].tab => rd'[l].found # {}
    BY <1>1, <1>2, <1>6, <2>1 DEF ScanOK
  <2>3. \A c \in rd'[l].found : Explained(l, Prefix(l), c)'
    <3>1. PICK p : p = Prefix(l)
      OBVIOUS
    <3>2. \A c \in rd'[l].found : Explained(l, p, c)'
      BY <1>1, <1>6, <1>3, <3>1 DEF ScanOK
    <3> QED
      BY <1>2, <3>1, <3>2 DEF Explained, Mixed
  <2>4. Prefix(l) \in Prefixes /\ (q.stage # "busy" => Slot(l) \in Slots)
    BY <1>6, LookupFacts DEF ScanOK
  <2>5. rd'[l].stage # "busy" => SlotOK(l)'
    BY <1>1, <1>2, <1>6, <2>4, StoreSlot DEF ScanOK
  <2>6. rd'[l].stage \in {"len", "name", "face"} => IndexOK(l)'
    BY <1>1, <1>2, <1>6, <2>4, StoreIndexLoaded DEF ScanOK
  <2>7. /\ rd'[l].stage \in {"indexOfName", "name"} => LenOK(l)'
        /\ rd'[l].stage \in {"indexOfFace", "face"} => NameOK(l)'
    BY <1>1, <1>2, <1>6, <2>4, StoreCompared DEF ScanOK
  <2> QED
    BY <1>2, <2>2, <2>3, <2>5, <2>6, <2>7 DEF ScanOK, At
<1>7. q.stage = "done" /\ q.k > 0 => Explained(l, Path[q.name][q.k], q.answer)
  BY DEF LookupOK
<1>8. rd'[l].stage = "done" /\ rd'[l].k > 0 =>
        Explained(l, Path[rd[l].name][rd[l].k], rd[l].answer)'
  BY <1>1, <1>7, <1>3 DEF Explained, Known, Mixed, Seen
<1> QED
  BY <1>1, <1>5, <1>6, <1>8 DEF LookupOK, InProgress

-----------------------------------------------------------------------------
(* The steps of a lookup.                                                  *)

Table == UNCHANGED <<fib, cmd, at, wr>>

\* A step within one bucket, by its new stage, slot, index and matches.
Moves(l, stage, tab, index, found) ==
  /\ rd'[l].name = rd[l].name /\ rd'[l].k = rd[l].k
  /\ rd'[l].stable = rd[l].stable /\ rd'[l].present = rd[l].present
  /\ rd'[l].stale = rd[l].stale /\ rd'[l].begun = rd[l].begun
  /\ rd'[l].refilled = rd[l].refilled
  /\ rd'[l].stage = stage /\ rd'[l].tab = tab /\ rd'[l].index = index
  /\ rd'[l].found = found

LEMMA SkipMoves ==
  ASSUME TypeOK, NEW l \in Readers, Skip(l)
  PROVE  /\ Moves(l, "busy", rd[l].tab + 1, 0, rd[l].found)
         /\ rd'[l].answer = rd[l].answer
<1>1. rd[l] \in LookupState /\ DOMAIN rd = Readers
  BY TypeFacts
<1>2. rd'[l] = [rd[l] EXCEPT !.stage = "busy", !.tab = rd[l].tab + 1, !.index = 0]
  BY <1>1 DEF Skip
<1> QED
  BY <1>1, <1>2 DEF Moves, LookupState

\* The stage of a lookup may change while the rest of it stays.
LEMMA StageMoves ==
  ASSUME TypeOK, NEW l \in Readers, NEW stage,
         rd' = [rd EXCEPT ![l].stage = stage]
  PROVE  /\ Moves(l, stage, rd[l].tab, rd[l].index, rd[l].found)
         /\ rd'[l].answer = rd[l].answer
<1>1. rd[l] \in LookupState /\ DOMAIN rd = Readers
  BY TypeFacts
<1>2. rd'[l] = [rd[l] EXCEPT !.stage = stage]
  BY <1>1
<1> QED
  BY <1>1, <1>2 DEF Moves, LookupState

\* So may its stage and its index.
LEMMA IndexMoves ==
  ASSUME TypeOK, NEW l \in Readers, NEW stage, NEW index,
         rd' = [rd EXCEPT ![l].stage = stage, ![l].index = index]
  PROVE  Moves(l, stage, rd[l].tab, index, rd[l].found)
<1>1. rd[l] \in LookupState /\ DOMAIN rd = Readers
  BY TypeFacts
<1>2. rd'[l] = [rd[l] EXCEPT !.stage = stage, !.index = index]
  BY <1>1
<1> QED
  BY <1>1, <1>2 DEF Moves, LookupState

\* What a lookup knows of the FIB stays in its own steps.
LEMMA MoveSees ==
  ASSUME TypeOK, NEW l \in Readers, SeenOK(l), Table,
         NEW stage, NEW tab, NEW index, NEW found, Moves(l, stage, tab, index, found)
  PROVE  /\ SeenOK(l)' /\ Prefix(l)' = Prefix(l)
         /\ Known(l)' = Known(l) /\ Seen(l)' = Seen(l)
         /\ Complete(l)' = Complete(l) /\ Adding(l)' = Adding(l)
         /\ \A i : LenAt(l, i)' = LenAt(l, i)
         /\ \A p, c : Explained(l, p, c)' <=> Explained(l, p, c)
         /\ tab = rd[l].tab => Slot(l)' = Slot(l)
<1>1. /\ Complete(l)' = Complete(l) /\ Adding(l)' = Adding(l)
      /\ Coming(l)' = Coming(l) /\ \A i : LenAt(l, i)' = LenAt(l, i)
  BY DEF Complete, Adding, Coming, LenAt, InStore, Table
<1>2. Routes(l)' = Routes(l) /\ Stale(l)' = Stale(l)
  BY <1>1 DEF Routes, Stale, Behind, F!RouteAt, Table
<1>3. SeenOK(l)'
  BY <1>1, <1>2 DEF SeenOK, At, Moves, Table
<1>4. Prefix(l)' = Prefix(l) /\ Known(l)' = Known(l) /\ Seen(l)' = Seen(l)
  BY DEF Prefix, Known, Seen, Moves
<1>5. tab = rd[l].tab => Slot(l)' = Slot(l)
  BY DEF Prefix, Slot, F!BucketOf, Moves
<1>6. \A p, c : Explained(l, p, c)' <=> Explained(l, p, c)
  BY <1>4 DEF Explained, Mixed, F!BucketOf, Moves
<1> QED
  BY <1>1, <1>3, <1>4, <1>5, <1>6

\* A step that stays at the slot at hand: what was scanned stays scanned, and
\* the slot stays as known as it was.
LEMMA StayScans ==
  ASSUME TypeOK, NEW l \in Readers, SeenOK(l), ScanOK(l), Table, SlotOK(l),
         rd[l].tab < BucketSize,
         NEW stage \in InProgress \ {"busy"}, NEW index,
         Moves(l, stage, rd[l].tab, index, rd[l].found),
         stage \in {"len", "name", "face"} => IndexOK(l)',
         stage \in {"indexOfName", "name"} => LenOK(l),
         stage \in {"indexOfFace", "face"} => NameOK(l)
  PROVE  ScanOK(l)'
<1>1. /\ Prefix(l)' = Prefix(l) /\ Known(l)' = Known(l) /\ Seen(l)' = Seen(l)
      /\ Complete(l)' = Complete(l) /\ Adding(l)' = Adding(l)
      /\ \A i : LenAt(l, i)' = LenAt(l, i)
      /\ \A p, c : Explained(l, p, c)' <=> Explained(l, p, c)
      /\ Slot(l)' = Slot(l)
  BY MoveSees
<1>2. /\ rd'[l].k = rd[l].k /\ rd'[l].stage = stage /\ rd'[l].tab = rd[l].tab
      /\ rd'[l].found = rd[l].found /\ rd'[l].stable = rd[l].stable
      /\ rd'[l].refilled = rd[l].refilled /\ fib' = fib /\ wr' = wr
  BY DEF Moves, Table
<1>3. SlotOK(l)'
  BY <1>1, <1>2 DEF SlotOK, At
<1>4. LenOK(l) => LenOK(l)'
  BY <1>1, <1>2 DEF LenOK, LenAt, InStore
<1>5. NameOK(l) => NameOK(l)'
  BY <1>1, <1>2 DEF NameOK, At
<1>6. \A c \in rd'[l].found : Explained(l, Prefix(l), c)'
  <2>1. PICK p : p = Prefix(l)
    OBVIOUS
  <2>2. \A c \in rd'[l].found : Explained(l, p, c)'
    BY <1>1, <1>2, <2>1 DEF ScanOK
  <2> QED
    BY <1>1, <2>1, <2>2 DEF Explained, Mixed
<1>7. /\ rd'[l].k > 0 /\ rd'[l].tab < BucketSize
      /\ \A s \in rd'[l].stable :
           At(fib[l], s)'.name = Prefix(l)' /\ s[2] < rd'[l].tab => rd'[l].found # {}
  BY <1>1, <1>2 DEF ScanOK, At
<1> QED
  BY <1>2, <1>3, <1>4, <1>5, <1>6, <1>7 DEF ScanOK, At

\* A slot is left behind: if it is one of stable and has the prefix, it was
\* matched.
LEMMA SkipScans ==
  ASSUME TypeOK, NEW l \in Readers, SeenOK(l), ScanOK(l), TableOK(l), Table,
         NEW index, NEW found, Moves(l, "busy", rd[l].tab + 1, index, found),
         rd[l].found \subseteq found,
         \A c \in found \ rd[l].found : Explained(l, Prefix(l), c),
         Slot(l) \in rd[l].stable /\ At(fib[l], Slot(l)).name = Prefix(l)
           => found # {}
  PROVE  ScanOK(l)'
<1>1. /\ Prefix(l)' = Prefix(l)
      /\ \A p, c : Explained(l, p, c)' <=> Explained(l, p, c)
  BY MoveSees
<1>2. ASSUME NEW s \in rd[l].stable, At(fib[l], s).name = Prefix(l),
             s[2] < rd[l].tab + 1
      PROVE  found # {}
  <2>1. s[2] \in Int /\ s = <<s[1], s[2]>> /\ rd[l].tab \in Nat
    BY LookupFacts, Sizes DEF Slots
  <2>2. CASE s[2] < rd[l].tab
    BY <1>2, <2>2 DEF ScanOK
  <2>3. CASE s[2] = rd[l].tab
    <3>1. s[1] = BucketOf(Prefix(l))
      BY <1>2, LookupFacts DEF SeenOK, TableOK
    <3>2. Slot(l) = s
      BY <2>1, <2>3, <3>1, LookupFacts DEF ScanOK
    <3> QED
      BY <1>2, <3>2
  <2> QED
    BY <1>2, <2>1, <2>2, <2>3
<1>3. \A s \in rd'[l].stable :
        At(fib'[l], s).name = Prefix(l)' /\ s[2] < rd'[l].tab => rd'[l].found # {}
  BY <1>1, <1>2 DEF Moves, Table
<1>4. \A c \in rd'[l].found : Explained(l, Prefix(l), c)'
  <2>1. PICK p : p = Prefix(l)
    OBVIOUS
  <2>2. \A c \in rd'[l].found : Explained(l, p, c)'
    BY <1>1, <2>1 DEF Moves, ScanOK
  <2> QED
    BY <1>1, <2>1, <2>2 DEF Explained, Mixed
<1>5. rd'[l].k > 0 /\ rd'[l].stage = "busy"
  BY DEF Moves, ScanOK
<1> QED
  BY <1>3, <1>4, <1>5 DEF ScanOK, At

\* The slot at hand is skipped.
LEMMA SkipLookup ==
  ASSUME TypeOK, NEW l \in Readers, SeenOK(l), ScanOK(l), TableOK(l), Table, Skip(l),
         ~(Slot(l) \in rd[l].stable /\ At(fib[l], Slot(l)).name = Prefix(l))
  PROVE  LookupOK(l)'
<1>1. Moves(l, "busy", rd[l].tab + 1, 0, rd[l].found)
  BY SkipMoves
<1>2. SeenOK(l)'
  BY <1>1, MoveSees
<1>3. ScanOK(l)'
  BY <1>1, SkipScans
<1> QED
  BY <1>1, <1>2, <1>3 DEF LookupOK, Moves

LEMMA BeginLookup ==
  ASSUME TypeOK, NEW l \in Readers, NEW n \in Names, Begin(l, n), Table
  PROVE  LookupOK(l)'
<1>1. DOMAIN rd = Readers /\ rd[l] \in LookupState
  BY TypeFacts
<1>2. rd'[l] = [NoLookup EXCEPT !.stage = "busy", !.name = n, !.k = Len(Path[n]),
                   !.stable = Complete(l), !.present = Routes(l), !.stale = Stale(l),
                   !.begun = Coming(l)]
  BY <1>1 DEF Begin
<1>3. /\ rd'[l].stage = "busy" /\ rd'[l].name = n /\ rd'[l].k = Len(Path[n])
      /\ rd'[l].tab = 0 /\ rd'[l].found = {} /\ rd'[l].stable = Complete(l)
      /\ rd'[l].present = Routes(l) /\ rd'[l].stale = Stale(l)
      /\ rd'[l].begun = Coming(l)
  BY <1>2 DEF NoLookup
<1>4. Path[n] \in Seq(Prefixes) /\ Path[n] # <<>>
  BY NamesAssumption
<1>5. Len(Path[n]) \in Nat /\ Len(Path[n]) > 0 /\ DOMAIN Path[n] = 1 .. Len(Path[n])
  BY <1>4
<1>6. /\ Complete(l)' = Complete(l) /\ Complete(l) \subseteq Slots
      /\ Coming(l)' = Coming(l)
  BY TypeFacts DEF Complete, Coming, Adding, Table
<1>7. Routes(l)' = Routes(l) /\ Stale(l)' = Stale(l)
  BY <1>6 DEF Routes, Stale, Behind, F!RouteAt, Adding, Table
<1>8. SeenOK(l)'
  <2>1. \A j \in DOMAIN Path[rd'[l].name] : j <= rd'[l].k
    BY <1>3, <1>5
  <2> QED
    BY <1>3, <1>6, <1>7, <2>1 DEF SeenOK
<1>9. ScanOK(l)'
  <2>1. \A s \in rd'[l].stable : ~(s[2] < rd'[l].tab)
    BY <1>3, <1>6, Sizes DEF Slots
  <2> QED
    BY <1>3, <1>5, <2>1 DEF ScanOK
<1> QED
  BY <1>3, <1>8, <1>9 DEF LookupOK

LEMMA LoadBusyLookup ==
  ASSUME TypeOK, NEW l \in Readers, LookupOK(l), TableOK(l), Table, LoadBusy(l)
  PROVE  LookupOK(l)'
<1>1. SeenOK(l) /\ ScanOK(l) /\ rd[l].tab < BucketSize
  BY DEF LookupOK, LoadBusy, InBucket, InProgress
<1>2. CASE Slot(l) \in fib[l].busy
  <2>1. Moves(l, "crc", rd[l].tab, rd[l].index, rd[l].found)
    BY <1>2, StageMoves DEF LoadBusy
  <2>2. SeenOK(l)'
    BY <1>1, <2>1, MoveSees
  <2>3. SlotOK(l)
    BY <1>2 DEF SlotOK, Complete
  <2>4. ScanOK(l)'
    BY <1>1, <2>1, <2>3, StayScans DEF InProgress
  <2> QED
    BY <2>1, <2>2, <2>4 DEF LookupOK, Moves
<1>3. CASE Slot(l) \notin fib[l].busy
  <2>1. Slot(l) \notin rd[l].stable
    BY <1>1, <1>3 DEF SeenOK, Complete
  <2> QED
    BY <1>1, <1>3, <2>1, SkipLookup DEF LoadBusy
<1> QED
  BY <1>2, <1>3

LEMMA LoadCrcLookup ==
  ASSUME TypeOK, NEW l \in Readers, LookupOK(l), TableOK(l), Table, LoadCrc(l)
  PROVE  LookupOK(l)'
<1>1. /\ SeenOK(l) /\ ScanOK(l) /\ rd[l].stage = "crc"
      /\ SlotOK(l) /\ rd[l].tab < BucketSize
  BY DEF LookupOK, LoadCrc, InProgress, ScanOK
<1>2. CASE fib[l].entry[Slot(l)].crc = Crc[Prefix(l)]
  <2>1. Moves(l, "indexOfLen", rd[l].tab, rd[l].index, rd[l].found)
    BY <1>2, StageMoves DEF LoadCrc
  <2>2. SeenOK(l)'
    BY <1>1, <2>1, MoveSees
  <2>3. ScanOK(l)'
    BY <1>1, <2>1, StayScans DEF InProgress
  <2> QED
    BY <2>1, <2>2, <2>3 DEF LookupOK, Moves
<1>3. CASE fib[l].entry[Slot(l)].crc # Crc[Prefix(l)]
  <2>1. ~(Slot(l) \in rd[l].stable /\ At(fib[l], Slot(l)).name = Prefix(l))
    BY <1>1, <1>3 DEF SeenOK, TableOK
  <2> QED
    BY <1>1, <1>3, <2>1, SkipLookup DEF LoadCrc
<1> QED
  BY <1>2, <1>3

LEMMA LoadIndexLookup ==
  ASSUME TypeOK, NEW l \in Readers, LookupOK(l), TableOK(l), WriterOK, Table,
         LoadIndex(l)
  PROVE  LookupOK(l)'
<1> DEFINE f == fib[l]
           i == f.entry[Slot(l)].index
           stage == IndexOf[rd[l].stage]
<1>1. /\ SeenOK(l) /\ ScanOK(l) /\ SlotOK(l) /\ rd[l].tab < BucketSize
      /\ stage \in {"len", "name", "face"}
      /\ stage = "name" => LenOK(l)
      /\ stage = "face" => NameOK(l)
  <2>1. \/ rd[l].stage = "indexOfLen" /\ stage = "len"
        \/ rd[l].stage = "indexOfName" /\ stage = "name"
        \/ rd[l].stage = "indexOfFace" /\ stage = "face"
    BY DEF LoadIndex, IndexOf
  <2> QED
    BY <2>1 DEF LookupOK, InProgress, ScanOK
<1>2. Slot(l) \in Slots /\ l \in Lcores
  BY <1>1, LookupFacts DEF ScanOK
<1>3. Moves(l, stage, rd[l].tab, i, rd[l].found)
  <2>1. rd' = [rd EXCEPT ![l].stage = IndexOf[rd[l].stage], ![l].index = i]
    BY TypeFacts DEF LoadIndex
  <2> HIDE DEF i, stage
  <2> QED
    BY <2>1, IndexMoves DEF stage
<1> HIDE DEF i, stage
<1>4. /\ SeenOK(l)' /\ Known(l)' = Known(l) /\ Slot(l)' = Slot(l)
  BY <1>1, <1>3, MoveSees
<1>5. i <= f.next_free /\ i \in Index /\ f.next_free \in 0 .. MaxElements
  BY <1>2, TypeFacts DEF TableOK, i, TableEntry
<1>6. i < f.next_free => f.fwd[i] \in Known(l)
  <2>1. F(l)!RouteAt(Slot(l)) = f.fwd[i]
    BY DEF F!RouteAt, i
  <2>2. CASE Slot(l) \in Complete(l)
    BY <1>1, <2>1, <2>2 DEF SeenOK, Routes, Known
  <2>3. CASE Adding(l) /\ Slot(l) = wr.slot
    <3>1. CASE wr.stage \in {"crc", "index"}
      <4>1. f.fwd[i] \in Stale(l)
        BY <2>1, <2>3, <3>1 DEF Stale, Behind
      <4> QED
        BY <1>1, <4>1 DEF SeenOK, Known
    <3>2. CASE wr.stage \in {"face", "len", "name"}
      <4>1. i = f.next_free
        BY <2>3, <3>2 DEF WriterOK, Adding, i
      <4> QED
        BY <1>5, <4>1, Sizes
    <3> QED
      BY <2>3, <3>1, <3>2, TypeFacts DEF Adding, Stages
  <2>4. CASE At(f, Slot(l)) \in Known(l)
    BY <2>4 DEF At, i
  <2> QED
    BY <1>1, <2>2, <2>3, <2>4 DEF SlotOK
<1>7. IndexOK(l)'
  <2>1. fib'[l] = f
    BY DEF Table
  <2>2. /\ rd'[l].index <= fib'[l].next_free
        /\ rd'[l].index < fib'[l].next_free => fib'[l].fwd[rd'[l].index] \in Known(l)'
        /\ rd'[l].index = fib'[l].entry[Slot(l)'].index
    BY <1>3, <1>4, <1>5, <1>6, <2>1 DEF Moves, i
  <2> QED
    BY <2>2 DEF IndexOK
<1>8. ScanOK(l)'
  <2>1. PICK st : st = stage
    OBVIOUS
  <2>2. PICK ix : ix = i
    OBVIOUS
  <2>3. st \in InProgress \ {"busy"}
    BY <1>1, <2>1 DEF InProgress
  <2>4. Moves(l, st, rd[l].tab, ix, rd[l].found)
    BY <1>3, <2>1, <2>2
  <2>5. /\ st \in {"len", "name", "face"} => IndexOK(l)'
        /\ st \in {"indexOfName", "name"} => LenOK(l)
        /\ st \in {"indexOfFace", "face"} => NameOK(l)
    BY <1>1, <1>7, <2>1
  <2> QED
    BY <1>1, <2>3, <2>4, <2>5, StayScans
<1>9. rd'[l].stage # "done" /\ rd'[l].stage # "idle"
  BY <1>1, <1>3 DEF Moves
<1> QED
  BY <1>4, <1>8, <1>9 DEF LookupOK

\* What the entry of a slot that stayed leads to, by the index that was loaded.
LEMMA StableIndex ==
  ASSUME TypeOK, NEW l \in Readers, SeenOK(l), TableOK(l), IndexOK(l),
         Slot(l) \in rd[l].stable
  PROVE  /\ rd[l].index < fib[l].next_free
         /\ fib[l].fwd[rd[l].index] = At(fib[l], Slot(l))
<1>1. rd[l].index = fib[l].entry[Slot(l)].index /\ Slot(l) \in Complete(l)
  BY DEF IndexOK, SeenOK
<1> QED
  BY <1>1, TypeFacts DEF TableOK, At

LEMMA LoadLenLookup ==
  ASSUME TypeOK, NEW l \in Readers, LookupOK(l), TableOK(l), Table, LoadLen(l)
  PROVE  LookupOK(l)'
<1> DEFINE i == rd[l].index
           f == fib[l]
<1>1. /\ SeenOK(l) /\ ScanOK(l) /\ rd[l].stage = "len"
      /\ SlotOK(l) /\ IndexOK(l) /\ rd[l].tab < BucketSize
  BY DEF LookupOK, LoadLen, InProgress, ScanOK
<1>2. CASE LenAt(l, i) = Length[Prefix(l)]
  <2>1. Moves(l, "indexOfName", rd[l].tab, 0, rd[l].found)
    BY <1>2, IndexMoves DEF LoadLen
  <2>2. SeenOK(l)'
    BY <1>1, <2>1, MoveSees
  <2>3. LenOK(l)
    BY <1>1, <1>2 DEF LenOK, IndexOK
  <2>4. ScanOK(l)'
    BY <1>1, <2>1, <2>3, StayScans DEF InProgress
  <2> QED
    BY <2>1, <2>2, <2>4 DEF LookupOK, Moves
<1>3. CASE LenAt(l, i) # Length[Prefix(l)]
  <2>1. ~(Slot(l) \in rd[l].stable /\ At(f, Slot(l)).name = Prefix(l))
    <3> SUFFICES ASSUME Slot(l) \in rd[l].stable, At(f, Slot(l)).name = Prefix(l)
                 PROVE  LenAt(l, i) = Length[Prefix(l)]
      BY <1>3
    <3>1. i < f.next_free /\ f.fwd[i].name = Prefix(l)
      BY <1>1, StableIndex
    <3>2. f.next_free \in Nat /\ Prefix(l) \in Prefixes
      BY <1>1, LookupFacts, TypeFacts, Sizes DEF ScanOK
    <3>3. i # f.next_free
      BY <3>1, <3>2
    <3> QED
      BY <3>1, <3>2, <3>3, PrefixesAssumption DEF LenAt, InStore
  <2> QED
    BY <1>1, <1>3, <2>1, SkipLookup DEF LoadLen
<1> QED
  BY <1>2, <1>3

LEMMA LoadNameLookup ==
  ASSUME TypeOK, NEW l \in Readers, LookupOK(l), TableOK(l), WriterOK, Table,
         LoadName(l)
  PROVE  LookupOK(l)'
<1> DEFINE i == rd[l].index
           f == fib[l]
<1>1. /\ SeenOK(l) /\ ScanOK(l) /\ rd[l].stage = "name"
      /\ SlotOK(l) /\ IndexOK(l) /\ LenOK(l) /\ rd[l].tab < BucketSize
  BY DEF LookupOK, LoadName, InProgress, ScanOK
<1>2. /\ l \in Lcores /\ i \in Index /\ i \in Int /\ f.next_free \in Nat
      /\ Prefix(l) \in Prefixes /\ Slot(l) \in Slots
  BY <1>1, LookupFacts, TypeFacts, Sizes DEF ScanOK, Index
<1>3. Starts[Prefix(l)] \subseteq Prefixes /\ Prefix(l) \in Starts[Prefix(l)]
      /\ \A q \in Starts[Prefix(l)] : Length[q] = Length[Prefix(l)] => q = Prefix(l)
  BY <1>2, StartsAssumption
<1>4. ASSUME Begins(l, i)
      PROVE  NameOK(l)
  <2>1. f.fwd[i].name \in Starts[Prefix(l)] /\ f.fwd[i].name # NoPrefix
    BY <1>3, <1>4, PrefixesAssumption DEF Begins
  <2>2. i < f.next_free
    BY <1>2, <2>1 DEF TableOK
  <2>3. f.fwd[i] \in Seen(l)
    BY <1>1, <2>2 DEF IndexOK, Seen
  <2>4. ASSUME Slot(l) \notin rd[l].refilled
        PROVE  f.entry[Slot(l)].index < f.next_free /\ At(f, Slot(l)).name = Prefix(l)
    <3>1. f.entry[Slot(l)].index = i /\ LenAt(l, i) = Length[Prefix(l)]
      BY <1>1, <2>4 DEF IndexOK, LenOK
    <3>2. LenAt(l, i) = Length[f.fwd[i].name]
      BY <1>2, <2>1, <2>2 DEF LenAt, InStore
    <3>3. f.fwd[i].name = Prefix(l)
      BY <1>3, <2>1, <3>1, <3>2
    <3> QED
      BY <2>2, <3>1, <3>3 DEF At
  <2> QED
    BY <2>1, <2>3, <2>4 DEF NameOK
<1>5. ASSUME MayBegin(l, i)
      PROVE  NameOK(l)
  <2>1. /\ Adding(l) /\ wr.stage = "name" /\ i = f.next_free
        /\ cmd.prefix \in Starts[Prefix(l)] /\ cmd.prefix # Prefix(l)
    BY <1>5 DEF MayBegin, InStore
  <2>2. [name |-> cmd.prefix, face |-> cmd.face] \in Seen(l)
    BY <1>1, <2>1 DEF Coming, SeenOK, Seen
  <2>3. Slot(l) \in rd[l].refilled
    <3> SUFFICES ASSUME Slot(l) \notin rd[l].refilled
                 PROVE  FALSE
      OBVIOUS
    <3>1. LenAt(l, i) = Length[Prefix(l)]
      BY <1>1 DEF IndexOK, LenOK
    <3>2. LenAt(l, i) = Length[cmd.prefix]
      BY <2>1 DEF LenAt, InStore
    <3> QED
      BY <1>3, <2>1, <3>1, <3>2
  <2> QED
    BY <2>1, <2>2, <2>3 DEF NameOK
<1>6. ASSUME Begins(l, i) \/ MayBegin(l, i),
             rd' = [rd EXCEPT ![l].stage = "indexOfFace", ![l].index = 0]
      PROVE  LookupOK(l)'
  <2>1. Moves(l, "indexOfFace", rd[l].tab, 0, rd[l].found)
    BY <1>6, IndexMoves
  <2>2. SeenOK(l)'
    BY <1>1, <2>1, MoveSees
  <2>3. NameOK(l)
    BY <1>4, <1>5, <1>6
  <2>4. ScanOK(l)'
    BY <1>1, <2>1, <2>3, StayScans DEF InProgress
  <2> QED
    BY <2>1, <2>2, <2>4 DEF LookupOK, Moves
<1>7. ASSUME ~Begins(l, i), Skip(l)
      PROVE  LookupOK(l)'
  <2>1. ~(Slot(l) \in rd[l].stable /\ At(f, Slot(l)).name = Prefix(l))
    <3> SUFFICES ASSUME Slot(l) \in rd[l].stable, At(f, Slot(l)).name = Prefix(l)
                 PROVE  Begins(l, i)
      BY <1>7
    <3>1. f.fwd[i].name = Prefix(l)
      BY <1>1, StableIndex
    <3> QED
      BY <1>3, <3>1 DEF Begins
  <2> QED
    BY <1>1, <1>7, <2>1, SkipLookup
<1> QED
  BY <1>6, <1>7 DEF LoadName

LEMMA LoadFaceLookup ==
  ASSUME TypeOK, NEW l \in Readers, LookupOK(l), TableOK(l), UnfilledOK(l), Table,
         LoadFace(l)
  PROVE  LookupOK(l)'
<1> DEFINE i == rd[l].index
           f == fib[l]
           c == f.fwd[i].face
           found == rd[l].found \cup {c}
<1>1. /\ SeenOK(l) /\ ScanOK(l) /\ rd[l].stage = "face"
      /\ IndexOK(l) /\ NameOK(l) /\ rd[l].tab < BucketSize
  BY DEF LookupOK, LoadFace, InProgress, ScanOK
<1>2. /\ l \in Lcores /\ i \in Index /\ i \in Int /\ f.next_free \in Nat
      /\ Prefix(l) \in Prefixes /\ Slot(l) = <<BucketOf(Prefix(l)), rd[l].tab>>
      /\ f.fwd[i] \in Route
  BY <1>1, LookupFacts, TypeFacts, Sizes DEF ScanOK, Index
<1>3. Moves(l, "busy", rd[l].tab + 1, 0, found)
  <2>1. rd[l] \in LookupState /\ DOMAIN rd = Readers
    BY TypeFacts
  <2>2. rd'[l] = [rd[l] EXCEPT !.stage = "busy", !.tab = rd[l].tab + 1, !.index = 0,
                               !.found = found]
    BY <2>1 DEF LoadFace
  <2> HIDE DEF found
  <2> QED
    BY <2>1, <2>2 DEF Moves, LookupState
<1>4. Explained(l, Prefix(l), c)
  <2>1. CASE Slot(l) \notin rd[l].refilled
    <3>1. i < f.next_free /\ f.fwd[i].name = Prefix(l)
      BY <1>1, <2>1 DEF IndexOK, NameOK, At
    <3>2. f.fwd[i] = [name |-> Prefix(l), face |-> c]
      BY <1>2, <3>1 DEF Route
    <3>3. f.fwd[i] \in Known(l)
      BY <1>1, <3>1 DEF IndexOK
    <3> QED
      BY <3>2, <3>3 DEF Explained
  <2>2. CASE Slot(l) \in rd[l].refilled
    <3>1. \E s \in rd[l].refilled : s[1] = F(l)!BucketOf(Prefix(l))
      BY <1>2, <2>2, FibOperators
    <3>2. \E r \in Seen(l) : r.name \in Starts[Prefix(l)]
      BY <1>1 DEF NameOK
    <3>3. c = 0 \/ \E r \in Seen(l) : r.face = c
      <4>1. CASE i < f.next_free
        BY <1>1, <4>1 DEF IndexOK, Seen
      <4>2. CASE i >= f.next_free
        <5>1. c = 0 \/ [name |-> cmd.prefix, face |-> c] \in Coming(l)
          BY <1>2, <4>2 DEF UnfilledOK
        <5>2. [name |-> cmd.prefix, face |-> c].face = c
          OBVIOUS
        <5> QED
          BY <1>1, <5>1, <5>2 DEF SeenOK, Seen
      <4> QED
        BY <1>2, <4>1, <4>2
    <3> QED
      BY <3>1, <3>2, <3>3 DEF Explained, Mixed
  <2> QED
    BY <2>1, <2>2
<1>5. \A b \in found \ rd[l].found : Explained(l, Prefix(l), b)
  BY <1>4
<1>6. found # {} /\ rd[l].found \subseteq found
  OBVIOUS
<1> HIDE DEF found
<1>7. SeenOK(l)'
  BY <1>1, <1>3, MoveSees
<1>8. ScanOK(l)'
  BY <1>1, <1>3, <1>5, <1>6, SkipScans
<1> QED
  BY <1>3, <1>7, <1>8 DEF LookupOK, Moves

\* At the end of a bucket that had no match, no slot of stable has the prefix.
LEMMA NoMatch ==
  ASSUME TypeOK, NEW l \in Readers, SeenOK(l), ScanOK(l), TableOK(l),
         rd[l].tab = BucketSize, rd[l].found = {}
  PROVE  \A s \in rd[l].stable : At(fib[l], s).name # Prefix(l)
<1> SUFFICES ASSUME NEW s \in rd[l].stable, At(fib[l], s).name = Prefix(l)
             PROVE  FALSE
  OBVIOUS
<1>1. s \in Slots
  BY LookupFacts
<1>2. s[2] < BucketSize
  BY <1>1, Sizes DEF Slots
<1> QED
  BY <1>2 DEF ScanOK

LEMMA EndBucketLookup ==
  ASSUME TypeOK, NEW l \in Readers, LookupOK(l), TableOK(l), Table, EndBucket(l)
  PROVE  LookupOK(l)'
<1> DEFINE q == rd[l]
<1>1. SeenOK(l) /\ ScanOK(l) /\ q.stage = "busy" /\ q.tab = BucketSize
  BY DEF LookupOK, EndBucket, InProgress
<1>2. q \in LookupState /\ DOMAIN rd = Readers /\ l \in Lcores
  BY TypeFacts
<1>3. /\ Complete(l)' = Complete(l) /\ Adding(l)' = Adding(l)
      /\ Coming(l)' = Coming(l)
  BY DEF Complete, Adding, Coming, Table
<1>4. Routes(l)' = Routes(l) /\ Stale(l)' = Stale(l)
  BY <1>3 DEF Routes, Stale, Behind, F!RouteAt, Table
<1>5. q.k \in Nat /\ q.k > 0 /\ q.k \in DOMAIN Path[q.name]
      /\ \A j \in DOMAIN Path[q.name] : j \in Nat /\ j > 0
  <2>1. Path[q.name] \in Seq(Prefixes)
    BY LookupFacts, NamesAssumption
  <2> QED
    BY <1>1, <2>1, LookupFacts DEF ScanOK
<1>6. ASSUME NEW c \in q.found,
             rd' = [rd EXCEPT ![l].stage = "done", ![l].answer = c]
      PROVE  LookupOK(l)'
  <2>1. rd'[l] = [q EXCEPT !.stage = "done", !.answer = c]
    BY <1>2, <1>6
  <2>2. /\ Moves(l, "done", q.tab, q.index, q.found) /\ rd'[l].answer = c
    BY <1>2, <2>1 DEF Moves, LookupState
  <2>3. SeenOK(l)' /\ \A p, b : Explained(l, p, b)' <=> Explained(l, p, b)
    BY <1>1, <2>2, MoveSees
  <2>4. PICK p : p = Path[q.name][q.k]
    OBVIOUS
  <2>5. Explained(l, p, c)'
    BY <1>1, <2>3, <2>4 DEF ScanOK, Prefix
  <2>6. p = Path[rd'[l].name][rd'[l].k] /\ c = rd'[l].answer /\ rd'[l].stage = "done"
    BY <2>2, <2>4 DEF Moves
  <2>7. Explained(l, Path[rd[l].name][rd[l].k], rd[l].answer)'
    BY <2>5, <2>6 DEF Explained, Mixed
  <2> QED
    BY <2>3, <2>6, <2>7 DEF LookupOK, InProgress
<1>7. ASSUME q.found = {},
             NEW k \in Nat, k = q.k - 1,
             rd'[l].k = k, rd'[l].name = q.name, rd'[l].stable = q.stable,
             rd'[l].present = q.present, rd'[l].stale = q.stale,
             rd'[l].begun = q.begun
      PROVE  SeenOK(l)'
  <2>1. ASSUME NEW s \in q.stable, NEW j \in DOMAIN Path[q.name],
               At(fib[l], s).name = Path[q.name][j]
        PROVE  j <= k
    <3>1. j # q.k
      BY <1>1, <1>7, <2>1, NoMatch DEF Prefix
    <3>2. j <= q.k /\ j \in Nat
      BY <1>1, <1>5, <2>1 DEF SeenOK
    <3> QED
      BY <1>5, <1>7, <3>1, <3>2
  <2>2. \A s \in rd'[l].stable, j \in DOMAIN Path[rd'[l].name] :
          At(fib'[l], s).name = Path[rd'[l].name][j] => j <= rd'[l].k
    BY <1>7, <2>1 DEF Table
  <2> QED
    BY <1>1, <1>3, <1>4, <1>7, <2>2 DEF SeenOK, At
<1>8. ASSUME q.found = {}, q.k > 1,
             rd' = [rd EXCEPT ![l].k = @ - 1, ![l].tab = 0]
      PROVE  LookupOK(l)'
  <2>1. rd'[l] = [q EXCEPT !.k = q.k - 1, !.tab = 0]
    BY <1>2, <1>8
  <2>2. /\ rd'[l].stage = "busy" /\ rd'[l].k = q.k - 1 /\ rd'[l].tab = 0
        /\ rd'[l].name = q.name /\ rd'[l].stable = q.stable
        /\ rd'[l].present = q.present /\ rd'[l].stale = q.stale
        /\ rd'[l].found = {} /\ rd'[l].begun = q.begun
    BY <1>1, <1>2, <1>8, <2>1 DEF LookupState
  <2>3. q.k - 1 \in Nat /\ q.k - 1 > 0
    BY <1>5, <1>8
  <2>4. SeenOK(l)'
    BY <1>7, <1>8, <2>2, <2>3
  <2>5. \A s \in rd'[l].stable : ~(s[2] < rd'[l].tab)
    <3>1. q.stable \subseteq Slots
      BY LookupFacts
    <3> QED
      BY <2>2, <3>1, Sizes DEF Slots
  <2>6. ScanOK(l)'
    BY <2>2, <2>3, <2>5 DEF ScanOK
  <2> QED
    BY <2>2, <2>4, <2>6 DEF LookupOK
<1>9. ASSUME q.found = {}, q.k = 1, NEW e,
             rd' = [rd EXCEPT ![l].stage = "done", ![l].k = 0, ![l].answer = e]
      PROVE  LookupOK(l)'
  <2>1. rd'[l] = [q EXCEPT !.stage = "done", !.k = 0, !.answer = e]
    BY <1>2, <1>9
  <2>2. /\ rd'[l].stage = "done" /\ rd'[l].k = 0
        /\ rd'[l].name = q.name /\ rd'[l].stable = q.stable
        /\ rd'[l].present = q.present /\ rd'[l].stale = q.stale
        /\ rd'[l].begun = q.begun
    BY <1>2, <2>1 DEF LookupState
  <2>3. 0 \in Nat /\ 0 = q.k - 1
    BY <1>9
  <2>4. SeenOK(l)'
    BY <1>7, <1>9, <2>2, <2>3
  <2> QED
    BY <2>2, <2>4 DEF LookupOK, InProgress
<1> QED
  BY <1>6, <1>8, <1>9 DEF EndBucket

LEMMA LookupStep ==
  ASSUME TypeOK, NEW l \in Readers, LookupOK(l), TableOK(l), UnfilledOK(l), WriterOK,
         Lookup(l)
  PROVE  LookupOK(l)'
<1>1. Table
  BY DEF Lookup, Table
<1>2. CASE End(l)
  <2>1. rd'[l] = NoLookup
    BY <1>2, TypeFacts DEF End
  <2> QED
    BY <2>1 DEF LookupOK, NoLookup, InProgress
<1> QED
  BY <1>1, <1>2, BeginLookup, LoadBusyLookup, LoadCrcLookup, LoadIndexLookup,
     LoadLenLookup, LoadNameLookup, LoadFaceLookup, EndBucketLookup DEF Lookup

LEMMA LookupTypes ==
  ASSUME TypeOK, NEW l \in Readers, LookupOK(l), Lookup(l)
  PROVE  TypeOK'
<1> DEFINE q == rd[l]
<1>1. /\ q \in LookupState /\ DOMAIN rd = Readers /\ l \in Lcores
      /\ q.k \in 0 .. Len(Path[q.name])
  BY TypeFacts DEF TypeOK
<1>2. fib[l] \in FibState /\ 0 \in Index /\ 0 \in 0 .. BucketSize
  BY <1>1, TypeFacts, Sizes DEF Index
<1>3. ASSUME NEW v \in LookupState, v.k \in 0 .. Len(Path[v.name]),
             rd' = [rd EXCEPT ![l] = v]
      PROVE  TypeOK'
  BY <1>1, <1>3 DEF TypeOK, Lookup
<1>4. /\ 0 \in Answers /\ -F(l)!ENOENT \in Answers
      /\ \A c \in Faces : c \in Answers
  BY <1>1 DEF Answers
<1>5. ASSUME NEW n \in Names, Begin(l, n)
      PROVE  TypeOK'
  <2> DEFINE v == [NoLookup EXCEPT !.stage = "busy", !.name = n, !.k = Len(Path[n]),
                   !.stable = Complete(l), !.present = Routes(l), !.stale = Stale(l),
                   !.begun = Coming(l)]
  <2>1. Len(Path[n]) \in Nat
    BY NamesAssumption
  <2>2. Complete(l) \subseteq Slots /\ wr.slot \in Slots
    BY <1>1, TypeFacts DEF Complete
  <2>3. \A s \in Slots : F(l)!RouteAt(s) \in Route
    BY <1>2 DEF F!RouteAt, FibState, TableEntry
  <2>4. Routes(l) \subseteq Route /\ Stale(l) \subseteq Route
    BY <2>2, <2>3 DEF Routes, Stale, Behind
  <2>9. Coming(l) \subseteq Route
    BY DEF Coming, Adding, TypeOK, Cmds, NoCmd, Route
  <2>5. NoLookup \in LookupState
    <3>1. (CHOOSE m \in Names : TRUE) \in Names
      BY NamesAssumption
    <3> QED
      BY <1>2, <1>4, <3>1 DEF NoLookup, LookupState
  <2>7. v \in LookupState
    BY <2>1, <2>2, <2>4, <2>5, <2>9 DEF LookupState
  <2>8. v.k \in 0 .. Len(Path[v.name])
    BY <2>1, <2>5 DEF LookupState
  <2>6. rd' = [rd EXCEPT ![l] = v]
    BY <1>5 DEF Begin
  <2> QED
    BY <1>3, <2>6, <2>7, <2>8
<1>6. ASSUME Skip(l), q.tab < BucketSize
      PROVE  TypeOK'
  <2> DEFINE v == [q EXCEPT !.stage = "busy", !.tab = q.tab + 1, !.index = 0]
  <2>1. q.tab + 1 \in 0 .. BucketSize
    BY <1>1, <1>6, Sizes DEF LookupState
  <2>2. v \in LookupState /\ v.k \in 0 .. Len(Path[v.name])
    BY <1>1, <1>2, <2>1 DEF LookupState
  <2>3. rd' = [rd EXCEPT ![l] = v]
    BY <1>6 DEF Skip
  <2> QED
    BY <1>3, <2>2, <2>3
<1>7. ASSUME NEW stage \in {"crc", "indexOfLen"}, rd' = [rd EXCEPT ![l].stage = stage]
      PROVE  TypeOK'
  <2> DEFINE v == [q EXCEPT !.stage = stage]
  <2>1. v \in LookupState /\ v.k \in 0 .. Len(Path[v.name])
    BY <1>1 DEF LookupState
  <2> QED
    BY <1>3, <1>7, <2>1
<1>8. ASSUME NEW stage \in {"len", "indexOfName", "name", "indexOfFace", "face"},
              NEW index \in Index,
              rd' = [rd EXCEPT ![l].stage = stage, ![l].index = index]
       PROVE  TypeOK'
  <2> DEFINE v == [q EXCEPT !.stage = stage, !.index = index]
  <2>1. v \in LookupState /\ v.k \in 0 .. Len(Path[v.name])
    BY <1>1 DEF LookupState
  <2> QED
    BY <1>3, <1>8, <2>1
<1>9. ASSUME \/ LoadBusy(l) \/ LoadCrc(l) \/ LoadIndex(l)
             \/ LoadLen(l) \/ LoadName(l) \/ LoadFace(l)
      PROVE  ScanOK(l) /\ q.tab < BucketSize
  <2>1. q.stage \in InProgress \ {"busy"} \/ (q.stage = "busy" /\ q.tab < BucketSize)
    BY <1>9 DEF InProgress, LoadBusy, InBucket, LoadCrc, LoadIndex, IndexOf, LoadLen,
                LoadName, LoadFace
  <2>2. q.stage \in InProgress
    BY <2>1 DEF InProgress
  <2> QED
    BY <2>1, <2>2 DEF LookupOK, ScanOK
<1>10. CASE LoadBusy(l) \/ LoadCrc(l)
  BY <1>6, <1>7, <1>9, <1>10 DEF LoadBusy, LoadCrc
<1>11. CASE LoadIndex(l)
  <2>1. Slot(l) \in Slots
    <3>1. q.stage # "busy" /\ ScanOK(l)
      BY <1>9, <1>11 DEF LoadIndex, IndexOf
    <3> QED
      BY <1>9, <1>11, <3>1, LookupFacts DEF ScanOK
  <2>2. fib[l].entry[Slot(l)].index \in Index
    BY <1>2, <2>1 DEF FibState, TableEntry
  <2>3. IndexOf[q.stage] \in {"len", "name", "face"}
    BY <1>11 DEF LoadIndex, IndexOf
  <2>4. rd' = [rd EXCEPT ![l].stage = IndexOf[q.stage],
                         ![l].index = fib[l].entry[Slot(l)].index]
    BY <1>1, <1>11 DEF LoadIndex
  <2> QED
    BY <1>8, <2>2, <2>3, <2>4
<1>12. CASE LoadLen(l) \/ LoadName(l)
  BY <1>2, <1>6, <1>9, <1>12, <1>8 DEF LoadLen, LoadName
<1>13. CASE LoadFace(l)
  <2> DEFINE found == q.found \cup {fib[l].fwd[q.index].face}
             v == [q EXCEPT !.stage = "busy", !.tab = q.tab + 1, !.index = 0,
                            !.found = found]
  <2>1. q.tab + 1 \in 0 .. BucketSize
    BY <1>1, <1>9, <1>13, Sizes DEF LookupState
  <2>2. found \subseteq Faces \cup {0}
    <3>1. q.index \in Index /\ q.found \subseteq Faces \cup {0}
      BY <1>1 DEF LookupState
    <3>2. fib[l].fwd[q.index] \in Route
      BY <1>2, <3>1 DEF FibState
    <3> QED
      BY <3>1, <3>2, FacesAssumption DEF Route
  <2> HIDE DEF found
  <2>3. v \in LookupState /\ v.k \in 0 .. Len(Path[v.name])
    BY <1>1, <1>2, <2>1, <2>2 DEF LookupState
  <2>4. rd' = [rd EXCEPT ![l] = v]
    BY <1>13 DEF LoadFace, found
  <2> QED
    BY <1>3, <2>3, <2>4
<1>14. CASE EndBucket(l)
  <2>1. ASSUME NEW c \in q.found,
               rd' = [rd EXCEPT ![l].stage = "done", ![l].answer = c]
        PROVE  TypeOK'
    <3> DEFINE v == [q EXCEPT !.stage = "done", !.answer = c]
    <3>1. c \in Answers
      BY <1>1, <1>4 DEF LookupState
    <3>2. v \in LookupState /\ v.k \in 0 .. Len(Path[v.name])
      BY <1>1, <3>1 DEF LookupState
    <3> QED
      BY <1>3, <2>1, <3>2
  <2>2. ASSUME q.k > 1, rd' = [rd EXCEPT ![l].k = @ - 1, ![l].tab = 0]
        PROVE  TypeOK'
    <3> DEFINE v == [q EXCEPT !.k = q.k - 1, !.tab = 0]
    <3>1. Len(Path[q.name]) \in Nat
      BY <1>1, NamesAssumption DEF LookupState
    <3>2. q.k - 1 \in Nat /\ q.k - 1 \in 0 .. Len(Path[q.name])
      BY <1>1, <2>2, <3>1
    <3>3. v \in LookupState /\ v.k \in 0 .. Len(Path[v.name])
      BY <1>1, <1>2, <3>2 DEF LookupState
    <3> QED
      BY <1>3, <2>2, <3>3
  <2>3. ASSUME rd' = [rd EXCEPT ![l].stage = "done", ![l].k = 0,
                                ![l].answer = -F(l)!ENOENT]
        PROVE  TypeOK'
    <3> DEFINE e == -F(l)!ENOENT
               v == [q EXCEPT !.stage = "done", !.k = 0, !.answer = e]
    <3>1. Len(Path[q.name]) \in Nat
      BY <1>1, NamesAssumption DEF LookupState
    <3>2. e \in Answers /\ 0 \in 0 .. Len(Path[q.name])
      BY <1>4, <3>1
    <3> HIDE DEF e
    <3>3. v \in LookupState /\ v.k \in 0 .. Len(Path[v.name])
      BY <1>1, <3>1, <3>2 DEF LookupState
    <3>4. rd' = [rd EXCEPT ![l] = v]
      BY <2>3 DEF e
    <3> QED
      BY <1>3, <3>3, <3>4
  <2> QED
    BY <1>14, <2>1, <2>2, <2>3 DEF EndBucket
<1>15. CASE End(l)
  <2>1. NoLookup \in LookupState /\ NoLookup.k = 0 /\ NoLookup.name \in Names
    <3>1. (CHOOSE n \in Names : TRUE) \in Names
      BY NamesAssumption
    <3> QED
      BY <1>2, <1>4, <3>1 DEF NoLookup, LookupState
  <2>2. Len(Path[NoLookup.name]) \in Nat
    BY <2>1, NamesAssumption
  <2>3. NoLookup.k \in 0 .. Len(Path[NoLookup.name])
    BY <2>1, <2>2
  <2>4. rd' = [rd EXCEPT ![l] = NoLookup]
    BY <1>15 DEF End
  <2> HIDE DEF NoLookup
  <2> QED
    BY <1>3, <2>1, <2>3, <2>4
<1> QED
  BY <1>5, <1>10, <1>11, <1>12, <1>14, <1>15, <1>13 DEF Lookup

-----------------------------------------------------------------------------
(* The invariant, and what it is for.                                      *)

LEMMA ControlKeeps ==
  ASSUME Consistent, ControlPlane
  PROVE  Consistent'
<1>1. TypeOK /\ WriterOK /\ CommandOK /\ Readers \subseteq Lcores
      /\ (\A l \in Lcores : TableOK(l) /\ UnfilledOK(l))
      /\ (\A l \in Readers : LookupOK(l))
  BY TypeFacts DEF Consistent
<1>2. TypeOK'
  BY <1>1, ControlTypes
<1>3. CommandOK'
  BY <1>1, <1>2, ControlCommand
<1>4. CASE UNCHANGED <<fib, wr, rd>>
           /\ (ReceiveCmd \/ AddRefused \/ DeleteMissing)
  <2>1. \A l \in Lcores : ~Adding(l) /\ ~Adding(l)' /\ fib'[l] = fib[l]
    BY <1>1, <1>4, AddingFacts
  <2>2. \A l \in Readers : LookupOK(l)'
    BY <1>1, <1>4, <2>1, SameLookup
  <2>3. ASSUME NEW l \in Lcores
        PROVE  TableOK(l)'
    <3>1. Complete(l)' = Complete(l)
      BY <1>4, <2>1 DEF Complete
    <3> QED
      BY <1>1, <1>4, <3>1 DEF TableOK, At
  <2>5. \A l \in Lcores : UnfilledOK(l)'
    BY <1>1, <1>4, <2>1 DEF UnfilledOK, Coming
  <2>4. wr.stage = "start"
    BY <1>1, <1>4 DEF ReceiveCmd, AddRefused, DeleteMissing, WriterOK, NoCmd
  <2> QED
    BY <1>2, <1>3, <1>4, <2>2, <2>3, <2>4, <2>5 DEF Consistent, WriterOK
<1>5. CASE Stores
  <2>1. PICK l \in Lcores : l = at
    BY <1>1 DEF TypeOK
  <2>2. TableOK(l)' /\ TableStep(l) /\ WriterOK'
    BY <1>1, <1>5, <2>1, TakeSlotTable, StoreCrcTable, StoreIndexTable,
       StoreFaceTable, StoreLenTable, StoreNameTable, DeleteTable DEF Stores
  <2>8. LenStep(l) /\ UnfilledOK(l)'
    BY <1>1, <1>5, <2>1, ControlLens
  <2>3. Observe
    BY <1>5 DEF Stores, TakeSlot, StoreCrc, StoreIndex, StoreFace, StoreLen, StoreName,
                Delete
  <2>4. \A m \in Lcores : m # at => ~Adding(m) /\ ~Adding(m)'
    BY <1>1, AddingFacts
  <2>5. \A m \in Lcores : m # at => fib'[m] = fib[m]
    BY <1>1, <1>5, TakeSlotEffect, StoreCrcEffect, StoreIndexEffect, StoreFaceEffect,
       StoreNameEffect, DeleteEffect DEF Stores, StoreLen, Becomes
  <2>6. ASSUME NEW m \in Lcores, m # at
        PROVE  TableOK(m)' /\ UnfilledOK(m)'
    <3>1. Complete(m)' = Complete(m) /\ fib'[m] = fib[m]
      BY <2>4, <2>5, <2>6 DEF Complete
    <3>2. Coming(m) = {}
      BY <2>4, <2>6 DEF Coming
    <3>3. UnfilledOK(m)'
      BY <1>1, <3>1, <3>2 DEF UnfilledOK
    <3> QED
      BY <1>1, <3>1, <3>3 DEF TableOK, At
  <2>7. ASSUME NEW m \in Readers
        PROVE  LookupOK(m)'
    <3>1. CASE m = at
      BY <1>1, <2>1, <2>2, <2>3, <2>7, <2>8, <3>1, StoreLookup
    <3>2. CASE m # at
      <4>1. rd'[m] = rd[m]
        BY <2>3, <2>7, <3>2 DEF Observe
      <4> QED
        BY <1>1, <2>4, <2>5, <2>7, <3>2, <4>1, SameLookup
    <3> QED
      BY <3>1, <3>2
  <2> QED
    BY <1>2, <1>3, <2>1, <2>2, <2>6, <2>7, <2>8 DEF Consistent
<1> QED
  BY <1>4, <1>5 DEF ControlPlane, Stores, ReceiveCmd, AddRefused, DeleteMissing

LEMMA LookupKeeps ==
  ASSUME Consistent, NEW l \in Readers, Lookup(l)
  PROVE  Consistent'
<1>1. TypeOK /\ WriterOK /\ CommandOK /\ Readers \subseteq Lcores
      /\ (\A m \in Lcores : TableOK(m) /\ UnfilledOK(m))
      /\ (\A m \in Readers : LookupOK(m))
  BY TypeFacts DEF Consistent
<1>2. TypeOK'
  BY <1>1, LookupTypes
<1>3. Table
  BY DEF Lookup, Table
<1>4. WriterOK' /\ CommandOK'
  BY <1>1, <1>3 DEF WriterOK, CommandOK, Target, Table
<1>5. \A m \in Lcores : TableOK(m)' /\ UnfilledOK(m)'
  <2>1. \A m \in Lcores : Complete(m)' = Complete(m) /\ Coming(m)' = Coming(m)
    BY <1>3 DEF Complete, Coming, Adding, Table
  <2>2. \A m \in Lcores : TableOK(m)'
    BY <1>1, <1>3, <2>1 DEF TableOK, At, Table
  <2>3. \A m \in Lcores : UnfilledOK(m)'
    BY <1>1, <1>3, <2>1 DEF UnfilledOK, Table
  <2> QED
    BY <2>2, <2>3
<1>6. ASSUME NEW m \in Readers, m # l
      PROVE  LookupOK(m)'
  <2>1. rd'[m] = rd[m]
    BY <1>1, <1>6, TypeFacts
       DEF Lookup, Begin, LoadBusy, LoadCrc, LoadIndex, LoadLen, LoadName, LoadFace,
           Skip, EndBucket, End
  <2>2. fib' = fib /\ wr' = wr /\ cmd' = cmd /\ Adding(m)' = Adding(m)
    BY <1>3 DEF Adding, Table
  <2> QED
    BY <1>1, <1>6, <2>1, <2>2, SameLookup
<1>7. LookupOK(l)'
  BY <1>1, LookupStep
<1> QED
  BY <1>2, <1>4, <1>5, <1>6, <1>7 DEF Consistent

\* The inductive invariant.
THEOREM FibRaceConsistent == Spec => []Consistent
<1>1. Consistent /\ [Next]_vars => Consistent'
  <2> SUFFICES ASSUME Consistent, [Next]_vars
               PROVE  Consistent'
    OBVIOUS
  <2>1. CASE ControlPlane
    BY <2>1, ControlKeeps
  <2>2. CASE \E l \in Readers : Lookup(l)
    BY <2>2, LookupKeeps
  <2>3. CASE UNCHANGED vars
    <3>1. /\ fib' = fib /\ cmd' = cmd /\ at' = at /\ wr' = wr /\ rd' = rd
      BY <2>3 DEF vars
    <3>2. \A l \in Lcores : Complete(l)' = Complete(l) /\ Adding(l)' = Adding(l)
      BY <3>1 DEF Complete, Adding
    <3>3. TypeOK /\ WriterOK /\ CommandOK /\ Readers \subseteq Lcores
          /\ (\A l \in Lcores : TableOK(l) /\ UnfilledOK(l))
          /\ (\A l \in Readers : LookupOK(l))
      BY TypeFacts DEF Consistent
    <3>4. TypeOK' /\ WriterOK' /\ CommandOK'
      BY <3>1, <3>3 DEF TypeOK, WriterOK, CommandOK, Target
    <3>7. \A l \in Lcores : TableOK(l)'
      BY <3>1, <3>2, <3>3 DEF TableOK, At
    <3>5. \A l \in Lcores : UnfilledOK(l)'
      BY <3>1, <3>3 DEF UnfilledOK, Coming, Adding
    <3>6. \A l \in Readers : LookupOK(l)'
      BY <3>1, <3>2, <3>3, SameLookup
    <3> QED
      BY <3>4, <3>5, <3>6, <3>7 DEF Consistent
  <2> QED
    BY <2>1, <2>2, <2>3 DEF Next
<1> QED
  BY <1>1, InitConsistent, PTL DEF Spec

\* Every variable stays within its type: in particular no lookup leaves its
\* bucket, and no store the forwarding table.
THEOREM FibRaceTypeCorrect == Spec => []TypeOK
<1>1. Consistent => TypeOK
  BY DEF Consistent
<1> QED
  BY <1>1, FibRaceConsistent, PTL

\* A lookup beside the control plane (control_plane.c:118-149 against
\* fib.c:83-109) does not lose sight of the routes that stay.
THEOREM StableRoutesAlwaysSeen == Spec => []StableRoutesSeen
<1>1. Consistent => StableRoutesSeen
  <2> SUFFICES ASSUME Consistent, NEW l \in Readers, Answered(l),
                      NEW s \in rd[l].stable, NEW j \in DOMAIN Path[rd[l].name],
                      F(l)!RouteAt(s).name = Path[rd[l].name][j]
               PROVE  j <= rd[l].k
    BY DEF StableRoutesSeen
  <2>1. SeenOK(l)
    BY DEF Consistent, LookupOK, Answered
  <2>2. At(fib[l], s).name = Path[rd[l].name][j]
    BY DEF F!RouteAt, At
  <2> QED
    BY <2>1, <2>2 DEF SeenOK
<1> QED
  BY <1>1, FibRaceConsistent, PTL

\* It answers with a route that was there meanwhile, or with a deleted one
\* that a slot being filled still led to; if a slot of the bucket was given to
\* another route between two loads of its index (fib_hash_table.c:122-124),
\* with the face of some route, or of none yet, for a name some route begins.
THEOREM AnswersAlwaysRoutes == Spec => []AnswersAreRoutes
<1>1. Consistent => AnswersAreRoutes
  BY DEF Consistent, LookupOK, Answered, AnswersAreRoutes
<1> QED
  BY <1>1, FibRaceConsistent, PTL

\* The loop over the lcores (control_plane.c:118) leaves all FIBs alike.
THEOREM FibsAlwaysAgree == Spec => []FibsAgree
<1>1. Consistent => FibsAgree
  <2> SUFFICES ASSUME Consistent, NEW l \in Lcores, NEW m \in Lcores,
                      cmd = NoCmd \/ (l < at /\ m < at) \/ (l > at /\ m > at)
               PROVE  fib[l] = fib[m]
    BY DEF FibsAgree
  <2> QED
    BY DEF Consistent, CommandOK
<1> QED
  BY <1>1, FibRaceConsistent, PTL
=============================================================================
