---------------------------- MODULE ControlProofs ----------------------------
(***************************************************************************)
(* Proofs about module Control: for every set of lcores, ports, commands   *)
(* and prefixes and every size of table and queue, whatever datagrams are  *)
(* lost or repeated and whenever the router ends and starts with which     *)
(* masks, routes lead to ports in use, and the FIBs of the lcores are      *)
(* copies of one table.                                                    *)
(***************************************************************************)
EXTENDS Control, FiniteSetTheorems, WellFoundedInduction, SequenceTheorems, TLAPS

-----------------------------------------------------------------------------
(* The inductive invariant.                                                *)

\* A command is being applied, and it is one that FIBs follow.
Effective == cmd # None /\ cmd.prefix # NoPrefix /\ Accepts(cmd.face)

\* The lcores that the loop has passed are alike, and so are those to come:
\* the command makes these what those are already.
CopiesOK ==
  IF Effective
  THEN /\ \A l, m \in Forwarding : l >= at /\ m >= at => fib[l] = fib[m]
       /\ \A l \in Forwarding : l < at => fib[l] = Meant
  ELSE \A l, m \in Forwarding : fib[l] = fib[m]

\* The FIBs are tables whose routes lead to ports in use, and no route is
\* there more often than routes were added.
FibsOK ==
  /\ fib \in [Forwarding -> [routes : [Prefixes \X Faces -> 0 .. Capacity],
                             added : 0 .. Capacity]]
  /\ RoutesLeadToPorts
  /\ \A l \in Forwarding, r \in Prefixes \X Faces : fib[l].routes[r] <= fib[l].added

Consistent ==
  /\ TypeOK
  /\ FibsOK
  /\ addr = InUse
  /\ proc = "down" => fib = NoFibs
  /\ proc # "running" => cmd = None
  /\ cmd # None => cmd.op \in {"ADD", "DEL"}
  /\ CopiesOK

-----------------------------------------------------------------------------
(* A table and a command, as values.                                       *)

Routes  == Prefixes \X Faces
TableOK(t) == /\ t \in [routes : [Routes -> 0 .. Capacity], added : 0 .. Capacity]
              /\ \A r \in Routes : t.routes[r] <= t.added

Exhausted(t, p) ==
  \/ t.added = Capacity
  \/ Cardinality({x \in Routes \X (1 .. Ways) :
                    /\ Hash[x[1][1]] = Hash[p]
                    /\ x[2] <= t.routes[x[1]]}) = Ways

Changed(t, r, d, n) == [t EXCEPT !.routes[r] = @ + d, !.added = @ + n]

After(t, c) ==
  LET r == <<c.prefix, c.face>>
  IN CASE c.op = "ADD" /\ ~Exhausted(t, c.prefix) -> Changed(t, r, 1, 1)
       [] c.op = "DEL" /\ t.routes[r] > 0         -> Changed(t, r, -1, 0)
       [] OTHER                                   -> t

\* The instances of RouteTable and ReplicatedTable mean the same.
LEMMA SameExhausted ==
  ASSUME NEW l \in Forwarding, NEW p
  PROVE  Table(l)!Exhausted(p) <=> Exhausted(fib[l], p)
BY DEF Table!Exhausted, Table!Load, Table!Routes, Table!Cardinality, Exhausted, Routes,
       Cardinality

LEMMA SameAfter ==
  ASSUME NEW t, NEW c
  PROVE  Replicas!After(t, c) = After(t, c) /\ R(Empty)!After(t, c) = After(t, c)
<1>1. Replicas!After(t, c) = After(t, c)
  BY DEF Replicas!After, Replicas!Changed, Replicas!T!Exhausted, Replicas!T!Load,
         Replicas!T!Routes, Replicas!T!Cardinality, After, Changed, Exhausted, Routes,
         Cardinality
<1>2. R(Empty)!After(t, c) = After(t, c)
  BY DEF R!After, R!Changed, R!T!Exhausted, R!T!Load, R!T!Routes, R!T!Cardinality,
         After, Changed, Exhausted, Routes, Cardinality
<1> QED
  BY <1>1, <1>2

LEMMA Sizes ==
  /\ Capacity \in Nat /\ Capacity > 0 /\ QueueSize \in Nat /\ QueueSize > 0
  /\ MaxLcores \in Nat /\ \A l \in Forwarding : l \in Nat /\ l < MaxLcores
  /\ MaxPorts \in Nat /\ MaxPorts > 0
BY SizesAssumption, LcoresAssumption, MasksAssumption DEF Lcores

LEMMA FirstLcore == 0 \in Lcores
<1>1. PICK l \in Forwarding : TRUE
  BY LcoresAssumption
<1>2. MaxLcores - 1 \in Int /\ 0 <= MaxLcores - 1
  BY <1>1, Sizes
<1> QED
  BY <1>2 DEF Lcores

\* What a change leaves of a table.
LEMMA ChangedFacts ==
  ASSUME NEW t, TableOK(t), NEW r \in Routes, NEW d \in Int, NEW n \in Int
  PROVE  /\ Changed(t, r, d, n) =
              [routes |-> [t.routes EXCEPT ![r] = @ + d], added |-> t.added + n]
         /\ t.routes[r] \in Nat /\ t.added \in Nat
<1>1. t.routes \in [Routes -> 0 .. Capacity] /\ t.added \in 0 .. Capacity
  BY DEF TableOK
<1>2. t.routes[r] \in Nat /\ t.added \in Nat
  BY <1>1, Sizes
<1>3. Changed(t, r, d, n) =
        [routes |-> [t.routes EXCEPT ![r] = @ + d], added |-> t.added + n]
  <2>1. t \in [routes : [Routes -> 0 .. Capacity], added : 0 .. Capacity]
    BY DEF TableOK
  <2>2. PICK b \in [Routes -> 0 .. Capacity], a \in 0 .. Capacity :
          t = [routes |-> b, added |-> a]
    BY <2>1
  <2>3. t.routes = b /\ t.added = a
    BY <2>2
  <2> DEFINE e == [b EXCEPT ![r] = @ + d]
             f == a + n
  <2>4. Changed(t, r, d, n) =
          [[routes |-> b, added |-> a] EXCEPT !.routes = [b EXCEPT ![r] = @ + d], !.added = a + n]
    BY <2>2, <2>3 DEF Changed
  <2>5. Changed(t, r, d, n) = [[routes |-> b, added |-> a] EXCEPT !.routes = e, !.added = f]
    BY <2>4
  <2>6. [routes |-> e, added |-> f] =
          [routes |-> [t.routes EXCEPT ![r] = @ + d], added |-> t.added + n]
    BY <2>3
  <2> HIDE DEF e, f
  <2> QED
    BY <2>5, <2>6
<1> QED
  BY <1>2, <1>3

\* A command keeps a table a table, and brings no other route than its own.
LEMMA AfterFacts ==
  ASSUME NEW t, TableOK(t), NEW c, c.prefix \in Prefixes, c.face \in Faces
  PROVE  /\ TableOK(After(t, c))
         /\ \A r \in Routes : After(t, c).routes[r] > 0 =>
              t.routes[r] > 0 \/ r = <<c.prefix, c.face>>
<1> DEFINE r == <<c.prefix, c.face>>
<1>1. r \in Routes
  BY DEF Routes
<1>2. /\ t.routes \in [Routes -> 0 .. Capacity] /\ t.added \in 0 .. Capacity
      /\ \A x \in Routes : t.routes[x] \in Nat /\ t.routes[x] <= t.added
      /\ t.added \in Nat
  BY Sizes DEF TableOK
<1> HIDE DEF r
<1>3. CASE After(t, c) = t
  BY <1>3
<1>4. CASE After(t, c) = Changed(t, r, 1, 1) /\ t.added # Capacity
  <2> DEFINE b == [t.routes EXCEPT ![r] = @ + 1]
             u == [routes |-> b, added |-> t.added + 1]
  <2>1. After(t, c) = u
    BY <1>1, <1>4, ChangedFacts
  <2>2. t.added + 1 \in 0 .. Capacity
    BY <1>2, <1>4, Sizes
  <2>3. \A x \in Routes : /\ b[x] = IF x = r THEN t.routes[r] + 1 ELSE t.routes[x]
                          /\ b[x] \in 0 .. Capacity /\ b[x] <= t.added + 1
    BY <1>1, <1>2, <2>2, Sizes
  <2>4. b \in [Routes -> 0 .. Capacity]
    BY <1>2, <2>3
  <2>5. TableOK(u)
    BY <2>2, <2>3, <2>4 DEF TableOK
  <2> QED
    BY <2>1, <2>3, <2>5 DEF r
<1>5. CASE After(t, c) = Changed(t, r, -1, 0) /\ t.routes[r] > 0
  <2> DEFINE b == [t.routes EXCEPT ![r] = @ + (-1)]
             u == [routes |-> b, added |-> t.added + 0]
  <2>1. After(t, c) = u
    BY <1>1, <1>5, ChangedFacts
  <2>2. t.added + 0 = t.added
    BY <1>2
  <2>3. \A x \in Routes : /\ b[x] = IF x = r THEN t.routes[r] - 1 ELSE t.routes[x]
                          /\ b[x] \in 0 .. Capacity /\ b[x] <= t.added
    BY <1>1, <1>2, <1>5, Sizes
  <2>4. b \in [Routes -> 0 .. Capacity]
    BY <1>2, <2>3
  <2>5. TableOK(u)
    BY <1>2, <2>2, <2>3, <2>4 DEF TableOK
  <2>6. \A x \in Routes : u.routes[x] > 0 => t.routes[x] > 0
    BY <1>1, <1>2, <1>5, <2>3
  <2> HIDE DEF u
  <2> QED
    BY <2>1, <2>5, <2>6
<1> QED
  BY <1>3, <1>4, <1>5 DEF After, Exhausted, r

\* The last lcore of the loop.
LEMMA LastFacts == Last \in Forwarding /\ \A l \in Forwarding : l <= Last
<1> DEFINE Greatest(X) == \E l \in X : \A m \in X : m <= l
           Order == StrictSubsetOrdering(Forwarding)
           Bad   == {X \in SUBSET Forwarding : X # {} /\ ~Greatest(X)}
<1>1. IsFiniteSet(Forwarding)
  <2>1. IsFiniteSet(0 .. MaxLcores - 1)
    BY Sizes, FS_Interval
  <2>2. Forwarding \subseteq 0 .. MaxLcores - 1
    BY LcoresAssumption DEF Lcores
  <2> QED
    BY <2>1, <2>2, FS_Subset
<1>2. IsWellFoundedOn(Order, SUBSET Forwarding)
  BY <1>1, FS_StrictSubsetOrderingWellFounded, FS_FiniteSubsetsOfFinite
<1>3. ASSUME Bad # {}
      PROVE  FALSE
  <2>1. Bad \subseteq SUBSET Forwarding
    OBVIOUS
  <2> HIDE DEF Bad, Order
  <2>2. PICK X \in Bad : \A Y \in Bad : ~(<<Y, X>> \in Order)
    BY <1>2, <1>3, <2>1, WFMin
  <2> USE DEF Bad, Order
  <2>3. \A x \in X : x \in Nat
    BY Sizes
  <2>4. PICK p \in X : TRUE
    OBVIOUS
  <2>5. PICK q \in X : ~(q <= p)
    BY DEF Greatest
  <2>6. X \ {p} \in SUBSET Forwarding /\ X \ {p} # {} /\ <<X \ {p}, X>> \in Order
    <3>1. q # p
      BY <2>3, <2>5
    <3> QED
      BY <3>1 DEF StrictSubsetOrdering
  <2>7. Greatest(X \ {p})
    BY <2>2, <2>6
  <2>8. PICK l \in X \ {p} : \A x \in X \ {p} : x <= l
    BY <2>7
  <2>9. \A x \in X : x <= l
    <3>1. q \in X \ {p} /\ q <= l
      BY <2>3, <2>5, <2>8
    <3> QED
      BY <2>3, <2>5, <2>8, <3>1
  <2> QED
    BY <2>8, <2>9
<1>4. Greatest(Forwarding)
  BY <1>3, LcoresAssumption
<1> QED
  BY <1>4 DEF Last

\* What the table is after the command that is being applied.
MeantValue ==
  Meant = IF Effective /\ at <= Last THEN After(fib[Last], cmd) ELSE fib[Last]

LEMMA MeantIs == MeantValue
BY SameAfter DEF MeantValue, Meant, ToCome, Effective

-----------------------------------------------------------------------------
(* One turn of the loop over the lcores.                                   *)

\* The loop comes to a FIB and applies the command; or it passes the lcore.
Obeyed == /\ Effective /\ at \in Forwarding
          /\ fib' = [fib EXCEPT ![at] = After(fib[at], cmd)]
Passed == (at \notin Forwarding \/ ~Effective) /\ fib' = fib

LEMMA Facts ==
  ASSUME Consistent
  PROVE  /\ cmd # None => /\ cmd \in Messages /\ cmd.op \in {"ADD", "DEL"}
                          /\ cmd.face \in Faces /\ cmd.prefix \in Prefixes \cup {NoPrefix}
         /\ Effective => cmd.prefix \in Prefixes /\ cmd.face \in InUse
         /\ at \in Nat /\ at < MaxLcores
         /\ fib \in [Forwarding -> [routes : [Routes -> 0 .. Capacity],
                                    added : 0 .. Capacity]]
         /\ \A l \in Forwarding : TableOK(fib[l])
<1>1. cmd # None => cmd \in [op : Ops, prefix : Prefixes \cup {NoPrefix}, face : Faces]
  BY MessagesAssumption DEF Consistent, TypeOK
<1>2. Effective => cmd.prefix \in Prefixes /\ cmd.face \in InUse
  BY <1>1 DEF Effective, Accepts, Consistent
<1>3. at \in Nat /\ at < MaxLcores
  BY Sizes DEF Consistent, TypeOK, Lcores
<1>4. fib \in [Forwarding -> [routes : [Routes -> 0 .. Capacity], added : 0 .. Capacity]]
  BY DEF Consistent, TypeOK, Routes
<1>5. \A l \in Forwarding : TableOK(fib[l])
  BY <1>4 DEF Consistent, FibsOK, TableOK, Routes
<1> QED
  BY <1>1, <1>2, <1>3, <1>4, <1>5 DEF Consistent, TypeOK

LEMMA Obeys ==
  ASSUME Consistent, AddRoute \/ AddRefused \/ DeleteRoute \/ DeleteMissing
  PROVE  Obeyed
<1> DEFINE r == <<cmd.prefix, cmd.face>>
           t == fib[at]
<1>1. Effective /\ at \in Forwarding /\ r \in Routes
  <2>1. Effective /\ at \in Forwarding
    BY DEF AddRoute, AddRefused, DeleteRoute, DeleteMissing, Applies, Applying, Effective
  <2> QED
    BY <2>1, Facts DEF Effective, Routes
<1>2. TableOK(t) /\ t.routes[r] \in Nat
  BY <1>1, Facts, ChangedFacts, 0 \in Int
<1>3. Table(at)!Exhausted(cmd.prefix) <=> Exhausted(t, cmd.prefix)
  BY <1>1, SameExhausted
<1>4. CASE AddRoute
  <2>1. fib' = [fib EXCEPT ![at] = Changed(t, r, 1, 1)]
    BY <1>1, <1>4, Facts DEF AddRoute, Changed
  <2>2. After(t, cmd) = Changed(t, r, 1, 1)
    BY <1>3, <1>4 DEF AddRoute, Applies, After
  <2> QED
    BY <1>1, <2>1, <2>2 DEF Obeyed
<1>5. CASE DeleteRoute
  <2>1. Changed(t, r, -1, 0) = [t EXCEPT !.routes[r] = @ - 1]
    <3>1. t.routes[r] + (-1) = t.routes[r] - 1
      BY <1>2
    <3>2. PICK b \in [Routes -> 0 .. Capacity], a \in 0 .. Capacity :
            t = [routes |-> b, added |-> a]
      BY <1>2 DEF TableOK
    <3>3. Changed(t, r, -1, 0) =
            [routes |-> [t.routes EXCEPT ![r] = @ + (-1)], added |-> t.added + 0]
      BY <1>1, <1>2, ChangedFacts
    <3>4. t.routes = b /\ t.added = a /\ a + 0 = a
      BY <3>2, Sizes
    <3>5. Changed(t, r, -1, 0) = [routes |-> [b EXCEPT ![r] = b[r] - 1], added |-> a]
      BY <3>1, <3>3, <3>4
    <3>6. [t EXCEPT !.routes[r] = @ - 1] =
            [routes |-> [b EXCEPT ![r] = b[r] - 1], added |-> a]
      BY <3>2
    <3> QED
      BY <3>5, <3>6
  <2>2. fib' = [fib EXCEPT ![at] = Changed(t, r, -1, 0)]
    BY <1>1, <1>5, <2>1, Facts DEF DeleteRoute
  <2>3. After(t, cmd) = Changed(t, r, -1, 0)
    BY <1>5 DEF DeleteRoute, Applies, After
  <2> QED
    BY <1>1, <2>2, <2>3 DEF Obeyed
<1>6. CASE AddRefused \/ DeleteMissing
  <2>1. After(t, cmd) = t
    <3>1. CASE AddRefused
      BY <1>3, <3>1 DEF AddRefused, Applies, After
    <3>2. CASE DeleteMissing
      <4>1. ~(t.routes[r] > 0) /\ cmd.op = "DEL"
        BY <1>2, <3>2 DEF DeleteMissing, Applies
      <4> QED
        BY <4>1 DEF After
    <3> QED
      BY <1>6, <3>1, <3>2
  <2>2. fib' = fib
    BY <1>6 DEF AddRefused, DeleteMissing
  <2> QED
    BY <1>1, <2>1, <2>2, Facts DEF Obeyed
<1> QED
  BY <1>4, <1>5, <1>6

\* After a turn of the loop the FIBs are tables with routes to ports again.
LEMMA TablesKept ==
  ASSUME Consistent, Obeyed \/ Passed, UNCHANGED config
  PROVE  FibsOK'
<1>1. CASE Passed
  BY <1>1, Facts DEF Passed, Consistent, FibsOK, RoutesLeadToPorts, InUse, config, Routes
<1>2. CASE Obeyed
  <2> DEFINE t == After(fib[at], cmd)
  <2>1. cmd.prefix \in Prefixes /\ cmd.face \in Faces /\ cmd.face \in InUse
        /\ at \in Forwarding
    BY <1>2, Facts DEF Obeyed, Effective
  <2>2. /\ TableOK(t)
        /\ \A r \in Routes : t.routes[r] > 0 =>
             fib[at].routes[r] > 0 \/ r = <<cmd.prefix, cmd.face>>
    BY <2>1, Facts, AfterFacts
  <2>3. fib' = [fib EXCEPT ![at] = t]
    BY <1>2 DEF Obeyed
  <2>4. InUse' = InUse
    BY DEF InUse, config
  <2> HIDE DEF t
  <2>5. fib' \in [Forwarding -> [routes : [Routes -> 0 .. Capacity], added : 0 .. Capacity]]
    BY <2>1, <2>2, <2>3, Facts DEF TableOK
  <2>6. \A l \in Forwarding : TableOK(fib'[l])
    BY <2>1, <2>2, <2>3, Facts
  <2>7. \A l \in Forwarding, p \in Prefixes, f \in Faces :
          fib'[l].routes[<<p, f>>] > 0 => f \in InUse
    <3> SUFFICES ASSUME NEW l \in Forwarding, NEW p \in Prefixes, NEW f \in Faces,
                        fib'[l].routes[<<p, f>>] > 0
                 PROVE  f \in InUse
      OBVIOUS
    <3>1. <<p, f>> \in Routes
      BY DEF Routes
    <3>2. CASE l = at
      <4>1. fib'[l] = t
        BY <2>1, <2>3, <3>2, Facts
      <4>2. fib[at].routes[<<p, f>>] > 0 \/ <<p, f>> = <<cmd.prefix, cmd.face>>
        BY <2>2, <3>1, <4>1
      <4> QED
        BY <2>1, <4>2 DEF Consistent, FibsOK, RoutesLeadToPorts
    <3>3. CASE l # at
      <4>1. fib'[l] = fib[l]
        BY <2>1, <2>3, <3>3, Facts
      <4> QED
        BY <4>1 DEF Consistent, FibsOK, RoutesLeadToPorts
    <3> QED
      BY <3>2, <3>3
  <2> QED
    BY <2>4, <2>5, <2>6, <2>7 DEF FibsOK, RoutesLeadToPorts, TableOK, Routes
<1> QED
  BY <1>1, <1>2

\* The table that is meant is that of the lcores passed, once there are any
\* among those that forward, and what the command makes of the others.
LEMMA MeantFacts ==
  ASSUME Consistent
  PROVE  /\ Effective => \A l \in Forwarding : IF l < at THEN fib[l] = Meant
                                               ELSE After(fib[l], cmd) = Meant
         /\ ~Effective => \A l \in Forwarding : fib[l] = Meant
<1>1. Last \in Forwarding /\ \A l \in Forwarding : l <= Last
  BY LastFacts
<1>2. at \in Nat /\ \A l \in Forwarding : l \in Nat
  BY Facts, Sizes
<1>3. Meant = IF Effective /\ at <= Last THEN After(fib[Last], cmd) ELSE fib[Last]
  BY MeantIs DEF MeantValue
<1>4. CASE ~Effective
  BY <1>1, <1>3, <1>4 DEF Consistent, CopiesOK
<1>5. CASE Effective
  <2>1. \A l \in Forwarding : l < at => fib[l] = Meant
    BY <1>5 DEF Consistent, CopiesOK
  <2>2. ASSUME NEW l \in Forwarding, ~(l < at)
        PROVE  After(fib[l], cmd) = Meant
    <3>1. l >= at /\ Last >= at /\ at <= Last
      BY <1>1, <1>2, <2>2
    <3>2. fib[l] = fib[Last]
      BY <1>1, <1>5, <3>1 DEF Consistent, CopiesOK
    <3> QED
      BY <1>3, <1>5, <3>1, <3>2
  <2> QED
    BY <1>5, <2>1, <2>2
<1> QED
  BY <1>4, <1>5

\* A turn of the loop brings the FIB of its lcore to what is meant.
LEMMA TurnKeeps ==
  ASSUME Consistent, Applying, Obeyed \/ Passed, ToNextLcore, Unaffected
  PROVE  /\ CopiesOK' /\ Meant' = Meant
         /\ Obeyed => fib' = [fib EXCEPT ![at] = Meant]
<1> USE Facts
<1>1. /\ Last \in Forwarding /\ \A l \in Forwarding : l <= Last
      /\ \A l \in Forwarding : l \in Nat /\ l < MaxLcores
      /\ MaxLcores \in Nat
  BY LastFacts, Sizes
<1>2. Meant' = IF Effective' /\ at' <= Last THEN After(fib'[Last], cmd') ELSE fib'[Last]
  <2>1. MeantValue'
    BY MeantIs, PTL
  <2> QED
    BY <2>1 DEF MeantValue
<1>3. Obeyed => After(fib[at], cmd) = Meant
  BY MeantFacts DEF Obeyed
<1>4. \A l \in Forwarding :
        fib'[l] = IF Effective /\ l = at THEN Meant ELSE fib[l]
  <2>1. CASE Passed
    BY <2>1 DEF Passed
  <2>2. CASE Obeyed
    BY <1>3, <2>2 DEF Obeyed
  <2> QED
    BY <2>1, <2>2
<1>5. Effective => \A l \in Forwarding :
        IF l < at + 1 THEN fib'[l] = Meant
                      ELSE fib'[l] = fib[l] /\ After(fib'[l], cmd) = Meant
  BY <1>1, <1>4, MeantFacts
<1>6. CASE at + 1 \in Lcores
  <2>1. at' = at + 1 /\ cmd' = cmd
    BY <1>6 DEF ToNextLcore
  <2>2. Effective' <=> Effective
    BY <2>1 DEF Effective, Accepts, InUse, Unaffected, config
  <2>3. CASE Effective
    <3>1. Meant' = Meant
      BY <1>1, <1>2, <1>5, <2>1, <2>2, <2>3
    <3>2. \A l, m \in Forwarding : l >= at + 1 /\ m >= at + 1 => fib'[l] = fib'[m]
      <4>1. \A l \in Forwarding : l >= at + 1 => l >= at /\ fib'[l] = fib[l]
        BY <1>1, <1>5, <2>3
      <4> QED
        BY <2>3, <4>1 DEF Consistent, CopiesOK
    <3> QED
      BY <1>3, <1>5, <2>1, <2>2, <2>3, <3>1, <3>2 DEF CopiesOK, Obeyed
  <2>4. CASE ~Effective
    <3>1. \A l \in Forwarding : fib'[l] = fib[l]
      BY <1>4, <2>4
    <3> QED
      BY <1>1, <1>2, <2>2, <2>4, <3>1, MeantFacts DEF CopiesOK, Obeyed
  <2> QED
    BY <2>3, <2>4
<1>7. CASE at + 1 \notin Lcores
  <2>1. at' = 0 /\ cmd' = None
    BY <1>7 DEF ToNextLcore
  <2>2. ~Effective'
    BY <2>1 DEF Effective
  <2>3. \A l \in Forwarding : l < at + 1
    BY <1>1, <1>7 DEF Lcores
  <2>4. \A l \in Forwarding : fib'[l] = Meant
    <3>1. CASE Effective
      BY <1>5, <2>3, <3>1
    <3>2. CASE ~Effective
      BY <1>4, <3>2, MeantFacts
    <3> QED
      BY <3>1, <3>2
  <2> QED
    BY <1>1, <1>2, <1>3, <2>2, <2>4 DEF CopiesOK, Obeyed
<1> QED
  BY <1>6, <1>7

-----------------------------------------------------------------------------
(* The steps keep the invariant, and are steps of ReplicatedTable.         *)

LEMMA EmptyFacts ==
  /\ Empty \in [routes : [Prefixes \X Faces -> 0 .. Capacity], added : 0 .. Capacity]
  /\ \A r \in Prefixes \X Faces : Empty.routes[r] = 0
  /\ Empty.added = 0
<1>1. 0 \in 0 .. Capacity
  BY Sizes
<1> QED
  BY <1>1 DEF Empty

Fresh == cmd = None /\ fib = NoFibs

LEMMA FreshOK == Fresh => FibsOK /\ CopiesOK /\ Meant = Empty
<1> SUFFICES ASSUME Fresh
             PROVE  FibsOK /\ CopiesOK /\ Meant = Empty
  OBVIOUS
<1>1. \A l \in Forwarding : fib[l] = Empty
  BY DEF Fresh, NoFibs
<1>2. \A p \in Prefixes, f \in Faces : Empty.routes[<<p, f>>] = 0
  BY EmptyFacts
<1>3. Meant = Empty /\ CopiesOK
  BY <1>1, MeantIs, LastFacts DEF MeantValue, Effective, Fresh, CopiesOK
<1> QED
  BY <1>1, <1>2, <1>3, EmptyFacts DEF Fresh, NoFibs, FibsOK, RoutesLeadToPorts

Packets == [pkt_len : {0}, name : Messages]

LEMMA NoPackets == <<>> \in Seq(Packets) /\ Len(<<>>) = 0
OBVIOUS

\* A datagram that is taken leaves a queue of packets.
LEMMA ReceiveFacts ==
  ASSUME Consistent, Receive
  PROVE  /\ Received \in Packets
         /\ queue' \in Seq(Packets) /\ Len(queue') <= QueueSize
<1>1. queue \in Seq(Packets) /\ queue # <<>> /\ queue' = Tail(queue)
      /\ Len(queue) <= QueueSize
  BY DEF Consistent, TypeOK, Packets, Receive
<1>2. /\ queue' \in Seq(Packets) /\ Len(queue') = Len(queue) - 1 /\ Len(queue) \in Nat
      /\ Received \in Packets
  BY <1>1 DEF Received
<1>3. Len(queue') <= QueueSize
  BY <1>1, <1>2, Sizes
<1> QED
  BY <1>2, <1>3

\* What the loop takes is a command, garbled or not.
Takes == /\ Receive /\ at' = 0
         /\ cmd' \in Messages /\ cmd'.op \in {"ADD", "DEL"}

LEMMA TakesOne ==
  ASSUME Consistent, TakeCommand \/ TakeGarbled
  PROVE  Takes
<1>1. CASE TakeCommand
  <2>1. Received \in Packets /\ cmd' = Received.name /\ cmd'.op \in {"ADD", "DEL"}
    BY <1>1, ReceiveFacts DEF TakeCommand, Parsed, Known
  <2> QED
    BY <1>1, <2>1 DEF TakeCommand, Takes, Packets
<1>2. CASE TakeGarbled
  BY <1>2 DEF TakeGarbled, Takes, Commands
<1> QED
  BY <1>1, <1>2

\* Taking a command that FIBs follow changes what is meant, taking another
\* does not.
LEMMA Taken ==
  ASSUME Consistent, Takes
  PROVE  /\ CopiesOK' /\ fib' = fib
         /\ \/ /\ cmd' \in Commands /\ Meant' = After(Meant, cmd')
               /\ \A l \in Forwarding : fib[l] = Meant
            \/ Meant' = Meant
<1>1. ~Effective /\ \A l \in Forwarding : fib[l] = Meant
  <2>1. cmd = None
    BY DEF Takes, Receive, Waiting
  <2> QED
    BY <2>1, MeantFacts DEF Effective
<1>2. Last \in Forwarding /\ Last \in Nat /\ \A l \in Forwarding : l \in Nat
  BY LastFacts, Sizes
<1>3. MeantValue'
  BY MeantIs, PTL
<1>4. at' = 0 /\ fib' = fib /\ cmd' \in Messages /\ cmd'.op \in {"ADD", "DEL"}
  BY DEF Takes, Receive
<1>5. \A l \in Forwarding : ~(l < at') /\ at' <= l
  BY <1>2, <1>4
<1>6. CASE Effective'
  <2>1. cmd' \in Commands
    BY <1>4, <1>6 DEF Effective, Commands
  <2>2. Meant' = After(Meant, cmd')
    BY <1>1, <1>2, <1>3, <1>4, <1>5, <1>6 DEF MeantValue
  <2>3. CopiesOK'
    BY <1>1, <1>4, <1>5, <1>6 DEF CopiesOK
  <2> QED
    BY <1>1, <1>4, <2>1, <2>2, <2>3
<1>7. CASE ~Effective'
  <2>1. Meant' = Meant
    BY <1>1, <1>2, <1>3, <1>4, <1>7 DEF MeantValue
  <2>2. CopiesOK'
    BY <1>1, <1>4, <1>7 DEF CopiesOK
  <2> QED
    BY <1>4, <2>1, <2>2
<1> QED
  BY <1>6, <1>7

LEMMA StopKeeps ==
  ASSUME Consistent, Stop
  PROVE  Consistent' /\ Replicas!Restart
<1>1. (Fresh => FibsOK /\ CopiesOK /\ Meant = Empty)'
  BY FreshOK, PTL
<1>2. FibsOK' /\ CopiesOK' /\ Meant' = Empty /\ Empty' = Empty
  BY <1>1 DEF Stop, Fresh, NoFibs, Empty
<1>3. 0 \in Lcores
  BY FirstLcore
<1>4. TypeOK'
  <2>1. queue' \in Seq(Packets) /\ Len(queue') <= QueueSize
    BY NoPackets, Sizes DEF Stop
  <2>2. portmask' \subseteq 0 .. MaxPorts - 1 /\ devs' \in 0 .. MaxPorts
        /\ addr' \subseteq 0 .. MaxPorts /\ terminated' \in BOOLEAN
    BY Sizes DEF Stop, Consistent, TypeOK
  <2> QED
    BY <1>2, <1>3, <2>1, <2>2 DEF Stop, TypeOK, FibsOK, Packets
<1>5. Consistent'
  <2>1. addr' = InUse' /\ fib' = NoFibs'
    BY DEF Stop, InUse, NoFibs, Empty
  <2> QED
    BY <1>2, <1>4, <2>1 DEF Stop, Consistent
<1>6. Replicas!Restart
  BY <1>2 DEF Stop, Replicas!Restart, Replicas!Empty, Empty, NoFibs
<1> QED
  BY <1>5, <1>6

\* A turn of the loop over the lcores is a step of the copy of that lcore, or
\* none.
LEMMA TurnStep ==
  ASSUME Consistent, Applying, Obeyed \/ Passed, ToNextLcore, Unaffected
  PROVE  Consistent' /\ (Replicas!Next \/ UNCHANGED Replicas!vars)
<1>1. FibsOK' /\ CopiesOK' /\ Meant' = Meant
  BY TablesKept, TurnKeeps DEF Unaffected
<1>2. /\ at' \in Lcores
      /\ cmd' = cmd \/ cmd' = None
  <2>1. 0 \in Lcores
    BY FirstLcore
  <2> QED
    BY <2>1 DEF ToNextLcore
<1>3. Consistent'
  BY <1>1, <1>2 DEF Consistent, TypeOK, FibsOK, Unaffected, Applying, config, InUse
<1>4. CASE Passed
  BY <1>1, <1>3, <1>4 DEF Passed, Replicas!vars
<1>5. CASE Obeyed
  <2>1. fib' = [fib EXCEPT ![at] = Meant] /\ at \in Forwarding
    BY <1>5, TurnKeeps DEF Obeyed
  <2>2. \A m \in Forwarding : m < at => fib[m] = Meant
    BY <1>5, MeantFacts DEF Obeyed
  <2>3. Replicas!Follow(at)
    BY <1>1, <2>1, <2>2 DEF Replicas!Follow
  <2> QED
    BY <1>3, <2>1, <2>3 DEF Replicas!Next
<1> QED
  BY <1>4, <1>5

\* Every step of the router and its users keeps Consistent, and is a step of
\* the replicated table or leaves it as it is.
LEMMA StepKeeps ==
  ASSUME Consistent, [Next]_vars
  PROVE  Consistent' /\ (Replicas!Next \/ UNCHANGED Replicas!vars)
<1>1. ASSUME UNCHANGED <<config, cmd, at, fib>>
      PROVE  FibsOK' /\ CopiesOK' /\ Meant' = Meant /\ addr' = InUse'
  <2>1. Effective' = Effective
    BY <1>1 DEF config, Effective, Accepts
  <2>2. MeantValue /\ MeantValue'
    BY MeantIs, PTL
  <2>3. Meant' = Meant
    BY <1>1, <2>1, <2>2 DEF MeantValue
  <2>4. CopiesOK'
    BY <1>1, <2>1, <2>3 DEF Consistent, CopiesOK
  <2> QED
    BY <1>1, <2>3, <2>4 DEF config, Consistent, FibsOK, RoutesLeadToPorts, InUse
<1>2. CASE UNCHANGED vars
  <2>1. TypeOK'
    BY <1>2 DEF vars, config, Consistent, TypeOK
  <2>2. fib' = NoFibs' <=> fib = NoFibs
    BY <1>2 DEF vars, NoFibs, Empty
  <2> QED
    BY <1>1, <1>2, <2>1, <2>2 DEF vars, Consistent, Replicas!vars
<1>3. CASE Boot
  <2>1. cmd = None /\ cmd' = None /\ fib = NoFibs /\ fib' = fib
    BY <1>3 DEF Boot, Consistent
  <2>2. (Fresh => FibsOK /\ CopiesOK /\ Meant = Empty)'
    BY FreshOK, PTL
  <2>3. FibsOK' /\ CopiesOK' /\ Meant' = Meant
    BY <2>1, <2>2, FreshOK DEF Fresh, NoFibs, Empty
  <2>4. TypeOK'
    <3>1. portmask' \subseteq 0 .. MaxPorts - 1 /\ devs' \in 0 .. MaxPorts
      BY <1>3, MasksAssumption DEF Boot
    <3>2. addr' \subseteq 0 .. MaxPorts
      <4>1. addr' \subseteq portmask'
        BY <1>3 DEF Boot, InUse
      <4>2. \A n \in 0 .. MaxPorts - 1 : n \in 0 .. MaxPorts
        BY Sizes
      <4> QED
        BY <3>1, <4>1, <4>2
    <3> QED
      BY <1>3, <3>1, <3>2 DEF Boot, Consistent, TypeOK
  <2> QED
    BY <1>3, <2>1, <2>3, <2>4 DEF Boot, Consistent, Replicas!vars
<1>4. CASE InitFibUpdateProcess \/ StartLoop
  <2>1. cmd = None
    BY <1>4 DEF InitFibUpdateProcess, StartLoop, Consistent
  <2>2. TypeOK'
    BY <1>4 DEF InitFibUpdateProcess, StartLoop, config, Consistent, TypeOK
  <2>3. proc' # "down" /\ UNCHANGED <<config, cmd, at, fib>>
    BY <1>4 DEF InitFibUpdateProcess, StartLoop
  <2> QED
    BY <1>1, <2>1, <2>2, <2>3 DEF Consistent, Replicas!vars
<1>5. CASE Exit \/ ReceiveFails \/ Fault
  BY <1>5, StopKeeps DEF Exit, ReceiveFails, Fault, Replicas!Next
<1>6. ASSUME NEW m \in Messages, Send(m)
      PROVE  Consistent' /\ UNCHANGED Replicas!vars
  <2>1. TypeOK'
    <3>1. queue \in Seq(Packets) /\ Len(queue) < QueueSize
      BY <1>6 DEF Consistent, TypeOK, Packets, Send
    <3>2. Packet(m) \in Packets
      BY DEF Packet, Packets
    <3>3. queue' \in Seq(Packets) /\ Len(queue') = Len(queue) + 1
      BY <1>6, <3>1, <3>2 DEF Send
    <3>4. Len(queue) \in Nat
      BY <3>1
    <3>5. Len(queue') <= QueueSize
      BY <3>1, <3>3, <3>4, Sizes
    <3> QED
      BY <1>6, <3>3, <3>5 DEF Consistent, TypeOK, Packets, Send, config
  <2>2. UNCHANGED <<config, cmd, at, fib>> /\ proc' = proc
    BY <1>6 DEF Send
  <2>3. NoFibs' = NoFibs
    BY DEF NoFibs, Empty
  <2> QED
    BY <1>1, <2>1, <2>2, <2>3 DEF Consistent, Replicas!vars
<1>7. ASSUME Receive
      PROVE  cmd' \in Messages \cup {None} /\ at' \in Lcores => TypeOK'
  <2>1. queue' \in Seq(Packets) /\ Len(queue') <= QueueSize
    BY <1>7, ReceiveFacts
  <2> QED
    BY <1>7, <2>1 DEF Receive, Consistent, TypeOK, Packets, config
<1>8. CASE Discard
  <2>1. Receive /\ cmd = None /\ proc' = "running" /\ UNCHANGED <<config, cmd, at, fib>>
    BY <1>8 DEF Discard, Receive, Waiting
  <2>2. TypeOK'
    BY <1>7, <2>1 DEF Consistent, TypeOK
  <2> QED
    BY <1>1, <2>1, <2>2 DEF Consistent, Replicas!vars
<1>9. CASE TakeCommand \/ TakeGarbled
  <2>1. Takes
    BY <1>9, TakesOne
  <2>2. Receive /\ UNCHANGED config /\ proc' = "running" /\ at' = 0
        /\ cmd' \in Messages /\ cmd'.op \in {"ADD", "DEL"}
    BY <2>1 DEF Takes, Receive, Waiting
  <2>3. CopiesOK' /\ fib' = fib
    BY <2>1, Taken
  <2>4. FibsOK' /\ addr' = InUse'
    BY <2>2, <2>3 DEF config, Consistent, FibsOK, RoutesLeadToPorts, InUse
  <2>5. 0 \in Lcores
    BY FirstLcore
  <2>6. TypeOK'
    BY <1>7, <2>2, <2>5
  <2>7. Consistent'
    BY <2>2, <2>3, <2>4, <2>6 DEF Consistent
  <2>8. CASE cmd' \in Commands /\ Meant' = After(Meant, cmd')
             /\ \A l \in Forwarding : fib[l] = Meant
    <3>1. PICK c : c = cmd'
      OBVIOUS
    <3>2. Replicas!Command(c)
      BY <2>3, <2>8, <3>1, SameAfter DEF Replicas!Command
    <3> QED
      BY <2>7, <2>8, <3>1, <3>2 DEF Replicas!Next
  <2> QED
    BY <2>1, <2>3, <2>7, <2>8, Taken DEF Replicas!vars
<1>10. CASE SkipLcore
  <2>1. Applying /\ Passed /\ ToNextLcore /\ Unaffected
    BY <1>10 DEF SkipLcore, Passed, Effective
  <2> QED
    BY <2>1, TurnStep
<1>11. CASE AddRoute \/ AddRefused \/ DeleteRoute \/ DeleteMissing
  <2>1. Applying /\ ToNextLcore /\ Unaffected
    BY <1>11 DEF AddRoute, AddRefused, DeleteRoute, DeleteMissing, Applies
  <2> QED
    BY <1>11, <2>1, Obeys, TurnStep
<1> QED
  BY <1>2, <1>3, <1>4, <1>5, <1>6, <1>8, <1>9, <1>10, <1>11 DEF Next, CtrlLoop

LEMMA InitConsistent == Init => Consistent /\ Replicas!Init
<1> SUFFICES ASSUME Init
             PROVE  Consistent /\ Replicas!Init
  OBVIOUS
<1>1. FibsOK /\ CopiesOK /\ Meant = Empty
  BY FreshOK DEF Init, Fresh
<1>2. 0 \in Lcores
  BY FirstLcore
<1>3. TypeOK
  <2>1. queue \in Seq(Packets) /\ Len(queue) <= QueueSize
    BY NoPackets, Sizes DEF Init
  <2>2. portmask \subseteq 0 .. MaxPorts - 1 /\ devs \in 0 .. MaxPorts
        /\ addr \subseteq 0 .. MaxPorts
    BY Sizes DEF Init
  <2> QED
    BY <1>1, <1>2, <2>1, <2>2 DEF Init, TypeOK, FibsOK, Packets
<1>4. addr = InUse
  BY DEF Init, InUse
<1> QED
  BY <1>1, <1>3, <1>4 DEF Init, Consistent, Replicas!Init, Replicas!Empty, Empty, NoFibs

-----------------------------------------------------------------------------
(* The theorems.                                                           *)

\* The inductive invariant holds throughout.
THEOREM ControlConsistent == Spec => []Consistent
<1>1. Init => Consistent
  BY InitConsistent
<1>2. Consistent /\ [Next]_vars => Consistent'
  BY StepKeeps
<1> QED
  BY <1>1, <1>2, PTL DEF Spec

\* The variables of the control plane keep their types: the queue of the
\* socket its size, the FIBs their capacity, the loop its lcores.
THEOREM ControlTypeCorrect == Spec => []TypeOK
<1>1. Consistent => TypeOK
  BY DEF Consistent
<1> QED
  BY <1>1, ControlConsistent, PTL

\* Whatever face a command names and however the routes come and go, no FIB
\* has a route to a face that is not a port in use (control_plane.c:122).
THEOREM RoutesAlwaysLeadToPorts == Spec => []RoutesLeadToPorts
<1>1. Consistent => RoutesLeadToPorts
  BY DEF Consistent, FibsOK
<1> QED
  BY <1>1, ControlConsistent, PTL

\* The FIBs that ctrl_loop updates one after the other are copies of one table:
\* a command reaches all of them once before the next one counts, and with the
\* router's end all of them are empty again.
THEOREM ControlImplementsReplicatedTable == Spec => ImplementsReplicatedTable
<1>1. Init => Replicas!Init
  BY InitConsistent
<1>2. Consistent /\ [Next]_vars => [Replicas!Next]_(Replicas!vars)
  BY StepKeeps
<1> QED
  BY <1>1, <1>2, ControlConsistent, PTL DEF Spec, ImplementsReplicatedTable, Replicas!Spec
=============================================================================
