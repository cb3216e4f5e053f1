------------------------------ MODULE StatsProofs ------------------------------
(***************************************************************************)
(* Proofs about module Stats: for any lcores, counters and width, however  *)
(* increments, resets and reports interleave, a counter shows the events   *)
(* since some reset; and a report made without traffic, after resets made  *)
(* without traffic, shows those since the last one and their sums.         *)
(***************************************************************************)
EXTENDS Stats, FiniteSetTheorems, SequenceTheorems, WellFoundedInduction, TLAPS

-----------------------------------------------------------------------------
(* The inductive invariant.                                                *)

\* The value v counts the events of counter c on lcore l since some reset.
Counts(v, l, c) == \E m \in marks[l][c] : v = (total[l][c] - m) % Width

\* So does a value that was loaded and is yet to be stored back.
LoadedOK ==
  \A l \in Lcores : reg[l] # None =>
    todo[l] # <<>> /\ Counts(reg[l], l, Head(todo[l]))

CountersOK == \A l \in Lcores, c \in Fields : Counts(mem[l][c], l, c)

\* What is added to the sums are counters of enabled lcores.
AddingOK == print.part = "add" => print.pos.lcore \in enabled

Consistent == TypeOK /\ AddingOK /\ LoadedOK /\ CountersOK

-----------------------------------------------------------------------------
(* Arithmetic modulo the width of a counter.                               *)

LEMMA ModUnique ==
  ASSUME NEW W \in Nat \ {0}, NEW q \in Int, NEW r \in 0 .. W - 1
  PROVE  (W * q + r) % W = r
OBVIOUS

LEMMA ModDef ==
  ASSUME NEW W \in Nat \ {0}, NEW a \in Int
  PROVE  a = W * (a \div W) + (a % W)
BY Z3

\* An increment commutes with the overflow.
LEMMA ModNext ==
  ASSUME NEW W \in Nat \ {0}, NEW a \in Int
  PROVE  ((a % W) + 1) % W = (a + 1) % W
<1> DEFINE q == a \div W
           r == a % W
<1>1. a = W * q + r
  BY ModDef
<1>2. q \in Int /\ r \in 0 .. W - 1 /\ 0 \in 0 .. W - 1
  OBVIOUS
<1> HIDE DEF q, r
<1>3. CASE r + 1 < W
  <2>1. r + 1 \in 0 .. W - 1 /\ a + 1 = W * q + (r + 1)
    BY <1>1, <1>2, <1>3
  <2>2. (W * q + (r + 1)) % W = r + 1
    BY <1>2, <2>1, ModUnique
  <2>3. (r + 1) % W = r + 1
    BY <2>1
  <2> QED
    BY <2>1, <2>2, <2>3 DEF r
<1>4. CASE r + 1 = W
  <2>1. q + 1 \in Int /\ a + 1 = W * (q + 1) + 0
    BY <1>1, <1>2, <1>4
  <2>2. (W * (q + 1) + 0) % W = 0
    BY <1>2, <2>1, ModUnique
  <2>3. W % W = 0
    <3>1. (W * 1 + 0) % W = 0
      BY <1>2, ModUnique, 1 \in Int
    <3>2. W * 1 + 0 = W
      OBVIOUS
    <3> QED
      BY <3>1, <3>2
  <2> QED
    BY <1>4, <2>1, <2>2, <2>3 DEF r
<1> QED
  BY <1>2, <1>3, <1>4

\* So does an addition.
LEMMA ModAdd ==
  ASSUME NEW W \in Nat \ {0}, NEW a \in Int, NEW b \in Int
  PROVE  ((a % W) + (b % W)) % W = (a + b) % W
<1> DEFINE p == a \div W
           q == b \div W
           s == (a % W) + (b % W)
           d == s \div W
           r == s % W
<1>1. a = W * p + (a % W) /\ b = W * q + (b % W)
  BY ModDef
<1>2. a % W \in Int /\ b % W \in Int /\ p \in Int /\ q \in Int
  OBVIOUS
<1>3. s \in Int
  BY <1>2
<1>4. a + b = W * p + W * q + s
  <2> DEFINE x == W * p
             y == W * q
             u == a % W
             v == b % W
  <2>1. x \in Int /\ y \in Int
    BY <1>2
  <2>2. a = x + u /\ b = y + v /\ u \in Int /\ v \in Int
    BY <1>1, <1>2
  <2> HIDE DEF x, y, u, v
  <2>3. a + b = x + y + (u + v)
    BY <2>1, <2>2
  <2> QED
    BY <2>3 DEF x, y, u, v
<1> HIDE DEF p, q, s
<1>5. s = W * d + r /\ d \in Int /\ r \in 0 .. W - 1
  <2>1. s = W * (s \div W) + (s % W)
    BY <1>3, ModDef
  <2> QED
    BY <1>3, <2>1
<1> HIDE DEF d, r
<1>6. a + b = W * (p + q + d) + r
  BY <1>2, <1>4, <1>5
<1>7. p + q + d \in Int
  BY <1>2, <1>5
<1>8. (a + b) % W = r
  BY <1>5, <1>6, <1>7, ModUnique
<1> QED
  BY <1>8 DEF r, s

LEMMA Modulo ==
  /\ Width \in Nat \ {0} /\ None \notin Values /\ 0 \in Values
  /\ \A a \in Int : a % Width \in Values
  /\ \A a \in Int : ((a % Width) + 1) % Width = (a + 1) % Width
  /\ \A n \in Nat : (n - n) % Width = 0
<1>1. Width \in Nat \ {0} /\ None \notin Nat
  BY WidthAssumption
<1>2. \A a \in Int : a % Width \in Values
  BY <1>1 DEF Values
<1>3. \A n \in Nat : (n - n) % Width = 0
  BY <1>1
<1>4. \A a \in Int : ((a % Width) + 1) % Width = (a + 1) % Width
  BY <1>1, ModNext
<1>5. None \notin Values /\ 0 \in Values
  BY <1>1 DEF Values
<1> QED
  BY <1>1, <1>2, <1>3, <1>4, <1>5

-----------------------------------------------------------------------------
(* Lcores, counters and the ways of the handlers through them.             *)

LEMMA LcoreFacts ==
  ASSUME TypeOK
  PROVE  /\ \A l \in enabled : l \in Lcores
         /\ \A l \in Forwarding : l \in Lcores
         /\ NbLcores \in Nat
         /\ \A E \in CoreMasks : Cardinality(E) \in Nat
<1>1. \A E \in CoreMasks : Cardinality(E) \in Nat
  BY MasksAssumption, FS_CardinalityType
<1> QED
  BY <1>1 DEF TypeOK, Lcores, Forwarding, NbLcores

LEMMA CounterFacts ==
  /\ Len(Counters) \in Nat /\ DOMAIN Counters = 1 .. Len(Counters)
  /\ 1 \in DOMAIN Counters
  /\ \A k \in DOMAIN Counters : Counters[k] \in Fields
BY CountersAssumption DEF Fields

LEMMA PathFacts == \A p \in Paths : p \in Seq(Fields) /\ p # <<>>
BY DEF Paths

LEMMA PositionFacts ==
  ASSUME TypeOK
  PROVE  /\ Idle \in Positions
         /\ \A pos \in Positions, b \in BOOLEAN :
              [Idle EXCEPT !.on = TRUE, !.quiet = b] \in Positions
         /\ \A pos \in Positions : Disturb(pos) \in Positions
         /\ \A pos \in Positions : ~AtEnd(pos) =>
              /\ Advance(pos) \in Positions
              /\ [pos EXCEPT !.lcore = @ + 1] \in Positions
              /\ [pos EXCEPT !.k = 1] \in Positions
              /\ pos.k # Len(Counters) => [pos EXCEPT !.k = @ + 1] \in Positions
<1>1. NbLcores \in Nat /\ 0 \in 0 .. NbLcores
  BY LcoreFacts
<1>2. ASSUME NEW pos \in Positions, ~AtEnd(pos)
      PROVE  pos.lcore + 1 \in 0 .. NbLcores
  BY <1>1, <1>2 DEF Positions, AtEnd
<1>3. ASSUME NEW pos \in Positions, pos.k # Len(Counters)
      PROVE  pos.k + 1 \in DOMAIN Counters
  <2>1. pos.k \in 1 .. Len(Counters)
    BY CounterFacts DEF Positions
  <2>2. pos.k + 1 \in 1 .. Len(Counters)
    BY <1>3, <2>1, CounterFacts
  <2> QED
    BY <2>2, CounterFacts
<1>4. ASSUME NEW pos \in Positions
      PROVE  ~(pos.k < Len(Counters)) <=> pos.k = Len(Counters)
  <2>1. pos.k \in 1 .. Len(Counters)
    BY CounterFacts DEF Positions
  <2> QED
    BY <2>1, CounterFacts
<1>5. Idle \in Positions
  BY <1>1, CounterFacts DEF Idle, Positions
<1>6. ASSUME NEW b \in BOOLEAN
      PROVE  [Idle EXCEPT !.on = TRUE, !.quiet = b] \in Positions
  BY <1>5 DEF Positions
<1>7. ASSUME NEW pos \in Positions
      PROVE  Disturb(pos) \in Positions
  BY DEF Disturb, Positions
<1>8. ASSUME NEW pos \in Positions, ~AtEnd(pos)
      PROVE  /\ Advance(pos) \in Positions
             /\ [pos EXCEPT !.lcore = @ + 1] \in Positions
             /\ [pos EXCEPT !.k = 1] \in Positions
             /\ pos.k # Len(Counters) => [pos EXCEPT !.k = @ + 1] \in Positions
  <2>1. [pos EXCEPT !.k = 1] \in Positions
    BY CounterFacts DEF Positions
  <2>2. [pos EXCEPT !.lcore = @ + 1] \in Positions
    BY <1>2, <1>8 DEF Positions
  <2>3. [pos EXCEPT !.k = 1, !.lcore = @ + 1] \in Positions
    BY <1>2, <1>8, CounterFacts DEF Positions
  <2>4. pos.k # Len(Counters) => [pos EXCEPT !.k = @ + 1] \in Positions
    BY <1>3 DEF Positions
  <2> QED
    BY <1>4, <2>1, <2>2, <2>3, <2>4 DEF Advance
<1> QED
  BY <1>5, <1>6, <1>7, <1>8

Prints == [pos : Positions, part : {"line", "add"},
           line : [Lcores -> [Fields -> Values]], sum : [Fields -> Values]]

LEMMA NotPrintingOK ==
  ASSUME TypeOK
  PROVE  NotPrinting \in Prints
BY PositionFacts, Modulo DEF NotPrinting, Prints, Zero

-----------------------------------------------------------------------------
(* The lcores' steps keep the invariant.                                   *)

\* The bounds of the instances, and what no lcore touches.
LEMMA ReceiveKeeps ==
  ASSUME Consistent, NEW l \in Forwarding, Receive(l)
  PROVE  Consistent'
<1> USE DEF Consistent
<1>1. l \in Lcores /\ NbLcores' = NbLcores /\ Positions' = Positions
  BY LcoreFacts DEF Receive, NbLcores, Positions
<1>2. PICK p \in Paths : todo' = [todo EXCEPT ![l] = p]
  BY DEF Receive
<1>3. todo' \in [Lcores -> Seq(Fields)]
  BY <1>2, PathFacts DEF TypeOK
<1>4. reset' \in Positions
  BY PositionFacts DEF Receive, TypeOK
<1>5. print' \in Prints
  <2>1. Disturb(print.pos) \in Positions
    BY PositionFacts DEF TypeOK
  <2>2. print' = [print EXCEPT !.pos = Disturb(print.pos)]
    BY DEF Receive, TypeOK
  <2> QED
    BY <2>1, <2>2 DEF TypeOK, Prints
<1>a. AddingOK'
  BY DEF Receive, TypeOK, AddingOK, Disturb, Positions
<1>6. packets' \in 0 .. MaxPackets
  BY BoundsAssumption DEF Receive, TypeOK
<1>7. TypeOK'
  BY <1>1, <1>3, <1>4, <1>5, <1>6 DEF Receive, TypeOK, Prints, history
<1>8. \A k \in Lcores : reg'[k] = reg[k] /\ (reg[k] # None => todo'[k] = todo[k])
  BY <1>1, <1>2 DEF Receive, TypeOK, LoadedOK
<1>9. LoadedOK'
  BY <1>8 DEF Receive, LoadedOK, Counts, history
<1>10. CountersOK'
  BY DEF Receive, CountersOK, Counts, history
<1> QED
  BY <1>7, <1>9, <1>10, <1>a

LEMMA LoadKeeps ==
  ASSUME Consistent, NEW l \in Forwarding, Load(l)
  PROVE  Consistent'
<1> USE DEF Consistent
<1> DEFINE c == Head(todo[l])
<1>1. l \in Lcores /\ NbLcores' = NbLcores /\ Positions' = Positions
  BY LcoreFacts DEF Load, NbLcores, Positions
<1>2. c \in Fields /\ todo[l] # <<>>
  BY <1>1 DEF Load, TypeOK
<1>3. reg' = [reg EXCEPT ![l] = mem[l][c]] /\ mem[l][c] \in Values
  BY <1>1, <1>2 DEF Load, StatsOf, TypeOK
<1>4. TypeOK'
  BY <1>1, <1>3 DEF Load, TypeOK, history
<1>a. AddingOK'
  BY DEF Load, AddingOK
<1>5. Counts(mem[l][c], l, c)
  BY <1>1, <1>2 DEF CountersOK
<1>6. LoadedOK'
  <2> SUFFICES ASSUME NEW k \in Lcores, reg'[k] # None
               PROVE  todo[k] # <<>> /\ Counts(reg'[k], k, Head(todo[k]))
    BY DEF Load, LoadedOK, Counts, history
  <2>1. CASE k = l
    BY <1>1, <1>2, <1>3, <1>5, <2>1 DEF TypeOK
  <2>2. CASE k # l
    <3>1. reg'[k] = reg[k]
      BY <1>1, <1>3, <2>2 DEF TypeOK
    <3> QED
      BY <3>1 DEF LoadedOK
  <2> QED
    BY <2>1, <2>2
<1>7. CountersOK'
  BY DEF Load, CountersOK, Counts, history
<1> QED
  BY <1>4, <1>6, <1>7, <1>a

LEMMA StoreKeeps ==
  ASSUME Consistent, NEW l \in Forwarding, Store(l)
  PROVE  Consistent'
<1> USE DEF Consistent
<1> DEFINE c == Head(todo[l])
           v == (reg[l] + 1) % Width
<1>1. l \in Lcores /\ NbLcores' = NbLcores /\ Positions' = Positions
  BY LcoreFacts DEF Store, NbLcores, Positions
<1>2. todo[l] # <<>> /\ Counts(reg[l], l, c) /\ reg[l] \in Values
  BY <1>1 DEF Store, LoadedOK, TypeOK
<1>3. c \in Fields /\ Tail(todo[l]) \in Seq(Fields)
  <2>1. todo[l] \in Seq(Fields)
    BY <1>1 DEF TypeOK
  <2> QED
    BY <1>2, <2>1
<1>4. v \in Values /\ reg[l] + 1 \in Int
  <2>1. reg[l] \in Values
    BY <1>2
  <2>2. \A u \in Values : u + 1 \in Int
    BY WidthAssumption DEF Values
  <2>3. reg[l] + 1 \in Int
    BY <2>1, <2>2
  <2> QED
    BY <2>3, Modulo
<1> HIDE DEF c, v
<1>5. /\ mem' = [mem EXCEPT ![l][c] = v] /\ total' = [total EXCEPT ![l][c] = @ + 1]
      /\ todo' = [todo EXCEPT ![l] = Tail(todo[l])] /\ reg' = [reg EXCEPT ![l] = None]
  BY <1>1 DEF Store, StatsOf, TypeOK, c, v
<1>6. /\ mem' \in [Lcores -> [Fields -> Values]] /\ total' \in [Lcores -> [Fields -> Nat]]
      /\ todo' \in [Lcores -> Seq(Fields)] /\ reg' \in [Lcores -> Values \cup {None}]
  BY <1>1, <1>3, <1>4, <1>5 DEF TypeOK
<1>7. TypeOK'
  BY <1>1, <1>6 DEF Store, TypeOK, history
<1>8. \A k \in Lcores, d \in Fields :
        IF k = l /\ d = c THEN mem'[k][d] = v /\ total'[k][d] = total[l][c] + 1
                          ELSE mem'[k][d] = mem[k][d] /\ total'[k][d] = total[k][d]
  BY <1>1, <1>3, <1>5 DEF TypeOK
<1>9. marks' = marks /\ AddingOK'
  BY DEF Store, history, AddingOK
<1>10. CountersOK'
  <2> SUFFICES ASSUME NEW k \in Lcores, NEW d \in Fields
               PROVE  \E m \in marks[k][d] : mem'[k][d] = (total'[k][d] - m) % Width
    BY <1>9 DEF CountersOK, Counts
  <2>1. CASE k = l /\ d = c
    <3>1. PICK m \in marks[l][c] : reg[l] = (total[l][c] - m) % Width
      BY <1>2 DEF Counts
    <3>2. m \in Nat /\ total[l][c] \in Nat
      BY <1>1, <1>3 DEF TypeOK
    <3>3. v = ((total[l][c] - m) + 1) % Width
      <4>1. total[l][c] - m \in Int
        BY <3>2
      <4> QED
        BY <3>1, <4>1, Modulo DEF v
    <3>4. (total[l][c] - m) + 1 = (total[l][c] + 1) - m
      BY <3>2
    <3> QED
      BY <1>8, <2>1, <3>3, <3>4
  <2>2. CASE ~(k = l /\ d = c)
    <3>1. mem'[k][d] = mem[k][d] /\ total'[k][d] = total[k][d]
      BY <1>8, <2>2
    <3> QED
      BY <3>1 DEF CountersOK, Counts
  <2> QED
    BY <2>1, <2>2
<1>11. LoadedOK'
  <2> SUFFICES ASSUME NEW k \in Lcores, reg'[k] # None
               PROVE  /\ todo'[k] # <<>>
                      /\ \E m \in marks[k][Head(todo'[k])] :
                           reg'[k] = (total'[k][Head(todo'[k])] - m) % Width
    BY <1>9 DEF LoadedOK, Counts
  <2>1. k # l
    BY <1>1, <1>5 DEF TypeOK
  <2>2. reg'[k] = reg[k] /\ todo'[k] = todo[k]
    BY <1>1, <1>5, <2>1 DEF TypeOK
  <2>3. todo[k] # <<>> /\ Counts(reg[k], k, Head(todo[k])) /\ todo[k] \in Seq(Fields)
    BY <2>2 DEF LoadedOK, TypeOK
  <2>4. PICK d \in Fields : d = Head(todo[k])
    BY <2>3
  <2>5. total'[k][d] = total[k][d]
    BY <1>8, <2>1
  <2> QED
    BY <1>9, <2>2, <2>3, <2>4, <2>5 DEF Counts
<1> QED
  BY <1>7, <1>9, <1>10, <1>11

-----------------------------------------------------------------------------
(* So do the steps of the handlers.                                        *)

\* Steps that touch neither counters nor what lcores are about.
LEMMA CountersSame ==
  ASSUME Consistent, UNCHANGED <<enabled, mem, traffic, marks, base>>
  PROVE  LoadedOK' /\ CountersOK' /\ NbLcores' = NbLcores /\ Positions' = Positions
BY DEF Consistent, LoadedOK, CountersOK, Counts, traffic, NbLcores, Positions

LEMMA BeginResetKeeps == ASSUME Consistent, BeginReset PROVE Consistent'
<1> USE DEF Consistent
<1>1. LoadedOK' /\ CountersOK' /\ NbLcores' = NbLcores /\ Positions' = Positions
  BY CountersSame DEF BeginReset
<1>2. NoTraffic \in BOOLEAN
  BY DEF NoTraffic
<1>3. reset' \in Positions
  BY <1>2, PositionFacts DEF BeginReset, TypeOK
<1>4. print' \in Prints
  <2>1. Disturb(print.pos) \in Positions
    BY PositionFacts DEF TypeOK
  <2>2. print' = [print EXCEPT !.pos = Disturb(print.pos)]
    BY DEF BeginReset, TypeOK
  <2> QED
    BY <2>1, <2>2 DEF TypeOK, Prints
<1>5. resets' \in 0 .. MaxResets
  BY BoundsAssumption DEF BeginReset, TypeOK
<1>6. TypeOK'
  BY <1>1, <1>3, <1>4, <1>5 DEF BeginReset, TypeOK, Prints, traffic
<1>7. AddingOK'
  BY DEF BeginReset, TypeOK, AddingOK, Disturb, Positions
<1> QED
  BY <1>1, <1>6, <1>7

\* A reset of a counter adds a mark: the events so far.
LEMMA ResetCounterKeeps == ASSUME Consistent, ResetCounter PROVE Consistent'
<1> USE DEF Consistent
<1> DEFINE l == reset.lcore
           c == Counters[reset.k]
<1>1. /\ reset \in Positions /\ ~AtEnd(reset) /\ c \in Fields
      /\ NbLcores' = NbLcores /\ Positions' = Positions
  BY CounterFacts DEF ResetCounter, TypeOK, Positions, NbLcores
<1> HIDE DEF l, c
<1>2. /\ mem' = [mem EXCEPT ![l][c] = 0]
      /\ marks' = [marks EXCEPT ![l][c] = @ \cup {total[l][c]}]
      /\ base' = [base EXCEPT ![l][c] = total[l][c]]
      /\ reset' = Advance(reset)
      /\ UNCHANGED <<enabled, print, clean, resets, traffic>>
  BY DEF ResetCounter, l, c
<1>3. reset' \in Positions
  BY <1>1, <1>2, PositionFacts
<1>4. l \in Lcores => total[l][c] \in Nat
  BY <1>1 DEF TypeOK
<1>5. /\ mem' \in [Lcores -> [Fields -> Values]]
      /\ marks' \in [Lcores -> [Fields -> SUBSET Nat]]
      /\ base' \in [Lcores -> [Fields -> Nat]]
  BY <1>1, <1>2, <1>4, Modulo DEF TypeOK
<1>6. \A k \in Lcores, d \in Fields :
        IF k = l /\ d = c
        THEN /\ mem'[k][d] = 0 /\ base'[k][d] = total[l][c]
             /\ marks'[k][d] = marks[l][c] \cup {total[l][c]}
        ELSE mem'[k][d] = mem[k][d] /\ base'[k][d] = base[k][d]
             /\ marks'[k][d] = marks[k][d]
  BY <1>1, <1>2 DEF TypeOK
<1>7. TypeOK'
  <2>1. \A k \in Lcores, d \in Fields : base'[k][d] \in marks'[k][d]
    BY <1>6 DEF TypeOK
  <2> QED
    BY <1>1, <1>2, <1>3, <1>5, <2>1 DEF TypeOK, traffic
<1>8. total' = total /\ todo' = todo /\ reg' = reg /\ AddingOK'
  BY <1>2 DEF traffic, AddingOK
<1>9. \A k \in Lcores, d \in Fields : \A m \in marks[k][d] : m \in marks'[k][d]
  BY <1>6
<1>10. CountersOK'
  <2> SUFFICES ASSUME NEW k \in Lcores, NEW d \in Fields
               PROVE  \E m \in marks'[k][d] : mem'[k][d] = (total[k][d] - m) % Width
    BY <1>8 DEF CountersOK, Counts
  <2>1. CASE k = l /\ d = c
    <3>1. total[l][c] \in marks'[k][d] /\ mem'[k][d] = 0
      BY <1>6, <2>1
    <3>2. (total[l][c] - total[l][c]) % Width = 0
      BY <1>4, <2>1, Modulo
    <3> QED
      BY <2>1, <3>1, <3>2
  <2>2. CASE ~(k = l /\ d = c)
    <3>1. mem'[k][d] = mem[k][d]
      BY <1>6, <2>2
    <3> QED
      BY <1>9, <3>1 DEF CountersOK, Counts
  <2> QED
    BY <2>1, <2>2
<1>11. LoadedOK'
  <2> SUFFICES ASSUME NEW k \in Lcores, reg[k] # None
               PROVE  /\ todo[k] # <<>>
                      /\ \E m \in marks'[k][Head(todo[k])] :
                           reg[k] = (total[k][Head(todo[k])] - m) % Width
    BY <1>8 DEF LoadedOK, Counts
  <2>1. todo[k] # <<>> /\ Counts(reg[k], k, Head(todo[k])) /\ todo[k] \in Seq(Fields)
    BY DEF LoadedOK, TypeOK
  <2>2. PICK d \in Fields : d = Head(todo[k])
    BY <2>1
  <2> QED
    BY <1>9, <2>1, <2>2 DEF Counts
<1> QED
  BY <1>7, <1>8, <1>10, <1>11

LEMMA EndResetKeeps == ASSUME Consistent, EndReset PROVE Consistent'
<1>1. LoadedOK' /\ CountersOK' /\ NbLcores' = NbLcores /\ Positions' = Positions
  BY CountersSame DEF EndReset
<1>2. reset' \in Positions /\ clean' \in BOOLEAN
  BY PositionFacts DEF EndReset, Consistent, TypeOK, Positions
<1>3. TypeOK'
  BY <1>1, <1>2 DEF EndReset, Consistent, TypeOK, traffic
<1> QED
  BY <1>1, <1>3 DEF EndReset, Consistent, AddingOK

\* Steps of a report read counters and write none.
LEMMA PrintKeeps ==
  ASSUME Consistent, print' \in Prints, AddingOK',
         UNCHANGED <<enabled, mem, reset, resets, traffic, history>>
  PROVE  Consistent'
<1>1. LoadedOK' /\ CountersOK' /\ NbLcores' = NbLcores /\ Positions' = Positions
  BY CountersSame DEF history
<1>2. TypeOK'
  BY <1>1 DEF Consistent, TypeOK, Prints, traffic, history
<1> QED
  BY <1>1, <1>2 DEF Consistent

LEMMA AdvancePrintOK ==
  ASSUME TypeOK, ~AtEnd(print.pos)
  PROVE  AdvancePrint \in Prints
<1>1. /\ print \in Prints /\ print.pos \in Positions
      /\ Advance(print.pos) \in Positions
      /\ [print.pos EXCEPT !.k = 1] \in Positions
      /\ print.pos.k # Len(Counters) => [print.pos EXCEPT !.k = @ + 1] \in Positions
  BY PositionFacts DEF TypeOK, Prints
<1>2. CASE print.pos.k # Len(Counters)
  BY <1>1, <1>2 DEF AdvancePrint, Prints
<1>3. CASE print.pos.k = Len(Counters) /\ print.part = "line"
  BY <1>1, <1>3 DEF AdvancePrint, Prints
<1>4. CASE print.pos.k = Len(Counters) /\ print.part # "line"
  BY <1>1, <1>4 DEF AdvancePrint, Prints
<1> QED
  BY <1>2, <1>3, <1>4

LEMMA AdvanceAdds ==
  ASSUME print \in Prints, print.pos.lcore \in enabled
  PROVE  AdvancePrint.part = "add" => AdvancePrint.pos.lcore \in enabled
BY DEF AdvancePrint, Prints, Positions

LEMMA ReportKeeps ==
  ASSUME Consistent, BeginPrint \/ SkipDisabled \/ PrintLine \/ AddToSum \/ EndPrint
  PROVE  Consistent'
<1>1. TypeOK /\ print \in Prints /\ enabled' = enabled /\ AddingOK
  BY DEF Consistent, TypeOK, Prints, BeginPrint, SkipDisabled, PrintLine, AddToSum, EndPrint
<1>2. UNCHANGED <<enabled, mem, reset, resets, traffic, history>>
  BY DEF BeginPrint, SkipDisabled, PrintLine, AddToSum, EndPrint
<1>3. CASE BeginPrint
  <2>1. PICK b \in BOOLEAN : b = (NoTraffic /\ ~reset.on)
    BY DEF NoTraffic
  <2>2. print' = [NotPrinting EXCEPT !.pos.on = TRUE, !.pos.quiet = b]
    BY <1>3, <2>1 DEF BeginPrint
  <2>3. print' = [NotPrinting EXCEPT !.pos = [Idle EXCEPT !.on = TRUE, !.quiet = b]]
    BY <2>2 DEF NotPrinting
  <2>4. [Idle EXCEPT !.on = TRUE, !.quiet = b] \in Positions
    BY <1>1, PositionFacts
  <2>5. print' \in Prints
    BY <1>1, <2>3, <2>4, NotPrintingOK DEF Prints
  <2>6. AddingOK'
    BY <1>3 DEF BeginPrint, NotPrinting, AddingOK
  <2> QED
    BY <1>2, <2>5, <2>6, PrintKeeps
<1>4. CASE SkipDisabled
  <2>1. [print.pos EXCEPT !.lcore = @ + 1] \in Positions
    BY <1>1, <1>4, PositionFacts DEF SkipDisabled, Printing, Prints
  <2>2. print' = [print EXCEPT !.pos = [print.pos EXCEPT !.lcore = @ + 1]]
    BY <1>1, <1>4 DEF SkipDisabled, Prints
  <2>3. print' \in Prints
    BY <1>1, <2>1, <2>2 DEF Prints
  <2>4. AddingOK'
    BY <1>1, <1>4, <2>2 DEF SkipDisabled, Printing, Prints, AddingOK
  <2> QED
    BY <1>2, <2>3, <2>4, PrintKeeps
<1>5. CASE PrintLine
  <2> DEFINE l == print.pos.lcore
             c == Counters[print.pos.k]
             a == AdvancePrint
  <2>a. a.part = "add" => a.pos.lcore \in enabled
    BY <1>1, <1>5, AdvanceAdds DEF PrintLine
  <2>1. a \in Prints /\ l \in Lcores /\ c \in Fields
    BY <1>1, <1>5, AdvancePrintOK, LcoreFacts, CounterFacts
    DEF PrintLine, Printing, Prints, Positions
  <2>2. mem[l][c] \in Values
    BY <1>1, <2>1 DEF TypeOK
  <2>3. print' = [a EXCEPT !.line[l][c] = mem[l][c]]
    BY <1>5 DEF PrintLine
  <2> HIDE DEF a, l, c
  <2>4. print' \in Prints
    BY <2>1, <2>2, <2>3 DEF Prints
  <2>5. AddingOK'
    BY <1>1, <2>1, <2>3, <2>a DEF Prints, AddingOK
  <2> QED
    BY <1>2, <2>4, <2>5, PrintKeeps
<1>6. CASE AddToSum
  <2> DEFINE v == mem[print.pos.lcore][Counters[print.pos.k]]
             c == Counters[print.pos.k]
             a == AdvancePrint
  <2>1. a \in Prints /\ c \in Fields /\ a.sum = print.sum
    BY <1>1, <1>6, AdvancePrintOK, CounterFacts
    DEF AddToSum, Printing, Prints, Positions, AdvancePrint
  <2>2. print' = [a EXCEPT !.sum[c] = (@ + v) % Width]
    BY <1>6 DEF AddToSum
  <2>a. a.part = "add" => a.pos.lcore \in enabled
    BY <1>1, <1>6, AdvanceAdds DEF AddToSum, Printing, AddingOK
  <2>b. v \in Values /\ print.sum[c] \in Values
    BY <1>1, <1>6, <2>1, LcoreFacts DEF AddToSum, Printing, AddingOK, TypeOK
  <2>3. print.sum[c] + v \in Int
    <3> HIDE DEF c, v
    <3>1. \A x \in Values : x \in Int
      BY WidthAssumption DEF Values
    <3> QED
      BY <2>b, <3>1
  <2>4. (print.sum[c] + v) % Width \in Values
    BY <2>3, Modulo
  <2> HIDE DEF a, c, v
  <2>5. print' \in Prints
    BY <2>1, <2>2, <2>4 DEF Prints
  <2>6. AddingOK'
    BY <1>1, <2>1, <2>2, <2>a DEF Prints, AddingOK
  <2> QED
    BY <1>2, <2>5, <2>6, PrintKeeps
<1>7. CASE EndPrint
  BY <1>1, <1>2, <1>7, NotPrintingOK, PrintKeeps DEF EndPrint, NotPrinting, AddingOK
<1> QED
  BY <1>3, <1>4, <1>5, <1>6, <1>7

-----------------------------------------------------------------------------
(* The theorems.                                                           *)

LEMMA InitConsistent == Init => Consistent
<1> SUFFICES ASSUME Init
             PROVE  Consistent
  OBVIOUS
<1>1. NbLcores \in Nat
  BY MasksAssumption, FS_CardinalityType DEF Init, NbLcores
<1>2. 0 \in 0 .. NbLcores
  BY <1>1
<1>3. Idle \in Positions
  BY <1>2, CounterFacts DEF Idle, Positions
<1>4. Zero \in [Fields -> Values] /\ Zero \in [Fields -> Nat]
  BY Modulo DEF Zero
<1>5. print \in Prints
  BY <1>3, <1>4 DEF Init, NotPrinting, Prints
<1>6. <<>> \in Seq(Fields)
  OBVIOUS
<1>7. /\ \A l \in Lcores, c \in Fields :
           /\ mem[l][c] = 0 /\ total[l][c] = 0 /\ base[l][c] = 0 /\ marks[l][c] = {0}
      /\ \A l \in Lcores : reg[l] = None
  BY DEF Init, Zero
<1>8. marks \in [Lcores -> [Fields -> SUBSET Nat]]
  BY DEF Init
<1>9. packets \in 0 .. MaxPackets /\ resets \in 0 .. MaxResets
  BY BoundsAssumption DEF Init
<1>10. TypeOK
  BY <1>3, <1>4, <1>5, <1>6, <1>7, <1>8, <1>9 DEF Init, TypeOK, Prints
<1>11. LoadedOK /\ AddingOK
  BY <1>7 DEF LoadedOK, AddingOK, Init, NotPrinting
<1>12. CountersOK
  <2>1. (0 - 0) % Width = 0
    BY Modulo
  <2> QED
    BY <1>7, <2>1 DEF CountersOK, Counts
<1> QED
  BY <1>10, <1>11, <1>12 DEF Consistent

LEMMA StutterKeeps == ASSUME Consistent, UNCHANGED vars PROVE Consistent'
<1>1. print' \in Prints /\ AddingOK'
  BY DEF vars, Consistent, TypeOK, Prints, AddingOK
<1> QED
  BY <1>1, PrintKeeps DEF vars

\* The inductive invariant holds throughout.
THEOREM StatsConsistent == Spec => []Consistent
<1>1. Init => Consistent
  BY InitConsistent
<1>2. Consistent /\ [Next]_vars => Consistent'
  BY StutterKeeps, ReceiveKeeps, LoadKeeps, StoreKeeps, BeginResetKeeps,
     ResetCounterKeeps, EndResetKeeps, ReportKeeps DEF Next, Loop
<1> QED
  BY <1>1, <1>2, PTL DEF Spec

\* Counters, values on their way and reports have their types, and both
\* handlers stay among the lcores and counters that there are.
THEOREM StatsTypeCorrect == Spec => []TypeOK
<1>1. Consistent => TypeOK
  BY DEF Consistent
<1> QED
  BY <1>1, StatsConsistent, PTL

\* However increments race with resets (data_plane.c:257, main.c), a counter
\* shows, up to overflow, the events since the start or some reset: a reset
\* that meets an increment is undone as a whole.
THEOREM AlwaysCountsSinceAReset == Spec => []CountsSinceAReset
<1>1. Consistent => CountsSinceAReset
  BY LcoreFacts DEF Consistent, CountersOK, Counts, CountsSinceAReset
<1> QED
  BY <1>1, StatsConsistent, PTL

-----------------------------------------------------------------------------
(* Sums over a set.                                                        *)

\* The sum of the numbers g[x] over S, as the cardinality of a set that has
\* g[x] elements for each x in S.
Weights(g, S) == UNION {{x} \X (1 .. g[x]) : x \in S}
Weight(g, S)  == Cardinality(Weights(g, S))

LEMMA WeightEmpty == \A g : Weight(g, {}) = 0
BY FS_EmptySet DEF Weight, Weights

LEMMA WeightFinite ==
  ASSUME NEW S, IsFiniteSet(S), NEW g \in [S -> Nat], NEW T \in SUBSET S
  PROVE  IsFiniteSet(Weights(g, T)) /\ Weight(g, T) \in Nat
<1> DEFINE Row(x) == {x} \X (1 .. g[x])
           Rows == {Row(x) : x \in T}
<1>1. \A x \in T : IsFiniteSet(Row(x))
  <2> SUFFICES ASSUME NEW x \in T
               PROVE  IsFiniteSet(Row(x))
    OBVIOUS
  <2>1. IsFiniteSet(1 .. g[x])
    BY FS_Interval
  <2> QED
    BY <2>1, FS_Singleton, FS_Product
<1>2. IsFiniteSet(T)
  BY FS_Subset
<1>3. IsFiniteSet(Rows)
  <2>1. [x \in T |-> Row(x)] \in Surjection(T, Rows)
    BY DEF Surjection
  <2> QED
    BY <1>2, <2>1, FS_Surjection
<1>4. \A R \in Rows : IsFiniteSet(R)
  BY <1>1
<1>5. Weights(g, T) = UNION Rows
  BY DEF Weights
<1> HIDE DEF Rows
<1>6. IsFiniteSet(Weights(g, T))
  BY <1>3, <1>4, <1>5, FS_UNION
<1> QED
  BY <1>6, FS_CardinalityType DEF Weight

LEMMA WeightStep ==
  ASSUME NEW S, IsFiniteSet(S), NEW g \in [S -> Nat],
         NEW T \in SUBSET S, NEW x \in T
  PROVE  Weight(g, T) = g[x] + Weight(g, T \ {x})
<1> DEFINE R == {x} \X (1 .. g[x])
           U == T \ {x}
           V == Weights(g, U)
<1>1. Weights(g, T) = V \cup R
  BY DEF Weights
<1>2. V \cap R = {}
  BY DEF Weights
<1>3. IsFiniteSet(V) /\ Cardinality(V) \in Nat
  BY WeightFinite DEF Weight
<1>4. IsFiniteSet(R) /\ Cardinality(R) = g[x]
  <2>1. g[x] \in Nat
    OBVIOUS
  <2>2. IsFiniteSet(1 .. g[x])
    BY <2>1, FS_Interval
  <2>3. Cardinality(1 .. g[x]) = IF 1 > g[x] THEN 0 ELSE g[x] - 1 + 1
    BY <2>1, FS_Interval
  <2>4. IsFiniteSet({x}) /\ Cardinality({x}) = 1
    BY FS_Singleton
  <2>5. IsFiniteSet(R) /\ Cardinality(R) = Cardinality({x}) * Cardinality(1 .. g[x])
    BY <2>2, <2>4, FS_Product
  <2> QED
    BY <2>1, <2>3, <2>4, <2>5
<1> HIDE DEF R, V, U
<1>5. Cardinality(V \cap R) = 0
  BY <1>2, FS_EmptySet
<1>6. Cardinality(V \cup R) = Cardinality(V) + Cardinality(R) - Cardinality(V \cap R)
  BY <1>3, <1>4, FS_Union
<1> QED
  BY <1>1, <1>3, <1>4, <1>5, <1>6 DEF Weight, U, V

-----------------------------------------------------------------------------
(* What a report shows: a second invariant.                                *)

\* The events of counter c on lcore l since it was reset last.
Diff(l, c) == total[l][c] - base[l][c]

Diffs(c)   == [l \in enabled |-> Diff(l, c)]

Shows(v, l, c) == v = Diff(l, c) % Width

\* A reset forgets no event that is yet to come, and lcores that run no loop
\* count nothing.
BasesOK ==
  /\ \A l \in Lcores, c \in Fields : base[l][c] <= total[l][c]
  /\ \A l \in Lcores \ Forwarding :
       reg[l] = None /\ \A c \in Fields : mem[l][c] = 0 /\ total[l][c] = 0

\* While no reset has met traffic, counters and loaded values are exact.
ExactOK ==
  clean =>
    /\ ~reset.on
    /\ \A l \in Lcores :
         /\ \A c \in Fields : Shows(mem[l][c], l, c)
         /\ reg[l] # None => Shows(reg[l], l, Head(todo[l]))

\* A handler at pos has been to counter k of lcore l.
Passed(pos, l, k) == \/ l < pos.lcore
                     \/ l = pos.lcore /\ k < pos.k

\* So are those behind a reset that has not met any.
ResetOK ==
  reset.on /\ reset.quiet =>
    /\ NoTraffic
    /\ \A l \in Lcores, k \in DOMAIN Counters :
         Passed(reset, l, k) => Shows(mem[l][Counters[k]], l, Counters[k])

\* The lines printed, and the lcores whose counter k has been added to its sum.
Lined(l, k) == \/ Passed(print.pos, l, k)
               \/ l = print.pos.lcore /\ print.part = "add"
Added(k)    == {l \in enabled : \/ l < print.pos.lcore
                                \/ /\ l = print.pos.lcore /\ print.part = "add"
                                   /\ k < print.pos.k}

LinesOK == \A l \in enabled, k \in DOMAIN Counters :
             Lined(l, k) => Shows(print.line[l][Counters[k]], l, Counters[k])
SumsOK  == \A k \in DOMAIN Counters :
             print.sum[Counters[k]] = Weight(Diffs(Counters[k]), Added(k)) % Width

\* The lines and sums of a report that has met neither traffic nor a reset.
ReportOK ==
  /\ print.part = "add" => ~AtEnd(print.pos)
  /\ print.pos.k # 1 => print.pos.lcore \in enabled
  /\ print.pos.on /\ print.pos.quiet =>
       NoTraffic /\ ~reset.on /\ (clean => LinesOK /\ SumsOK)

Truth == BasesOK /\ ExactOK /\ ResetOK /\ ReportOK

LEMMA Positive ==
  ASSUME TypeOK
  PROVE  /\ IsFiniteSet(enabled) /\ 0 \in enabled
         /\ \A l \in enabled : l \in Nat /\ l \in Lcores
         /\ \A l \in Lcores : l \in Nat
BY MasksAssumption, LcoreFacts DEF TypeOK, Lcores

LEMMA DiffFacts ==
  ASSUME TypeOK, BasesOK, NEW l \in Lcores, NEW c \in Fields
  PROVE  total[l][c] \in Nat /\ base[l][c] \in Nat /\ Diff(l, c) \in Nat
<1>1. total[l][c] \in Nat /\ base[l][c] \in Nat
  BY DEF TypeOK
<1> QED
  BY <1>1 DEF BasesOK, Diff

LEMMA AdvanceFacts ==
  ASSUME TypeOK, NEW pos \in Positions
  PROVE  /\ pos.lcore \in Nat /\ pos.k \in Nat /\ pos.k <= Len(Counters)
         /\ pos.on \in BOOLEAN /\ pos.quiet \in BOOLEAN
         /\ Advance(pos).on = pos.on /\ Advance(pos).quiet = pos.quiet
         /\ pos.k # Len(Counters) => /\ Advance(pos).lcore = pos.lcore
                                     /\ Advance(pos).k = pos.k + 1
         /\ pos.k = Len(Counters) => /\ Advance(pos).lcore = pos.lcore + 1
                                     /\ Advance(pos).k = 1
<1>1. pos.lcore \in Nat /\ pos.k \in 1 .. Len(Counters)
  BY LcoreFacts, CounterFacts DEF Positions
<1>2. pos.k < Len(Counters) <=> pos.k # Len(Counters)
  BY <1>1, CounterFacts
<1> QED
  BY <1>1, <1>2, CounterFacts DEF Positions, Advance

\* What the events since the last reset are made of stays, and so do they.
LEMMA SameEvents ==
  ASSUME UNCHANGED <<enabled, total, base>>
  PROVE  /\ Forwarding' = Forwarding /\ NbLcores' = NbLcores
         /\ \A l, c : Diff(l, c)' = Diff(l, c)
         /\ \A c : Diffs(c)' = Diffs(c)
BY DEF Forwarding, NbLcores, Diff, Diffs

LEMMA ReceiveTrue ==
  ASSUME Consistent, Truth, NEW l \in Forwarding, Receive(l)
  PROVE  Truth'
<1>1. /\ UNCHANGED <<enabled, mem, reg, total, base, clean>>
      /\ todo[l] = <<>> /\ \E p : todo' = [todo EXCEPT ![l] = p]
      /\ print' = [print EXCEPT !.pos = Disturb(@)] /\ reset' = Disturb(reset)
  BY DEF Receive, history
<1>2. /\ print'.part = print.part /\ print'.pos.lcore = print.pos.lcore
      /\ print'.pos.k = print.pos.k /\ print'.pos.quiet = FALSE
      /\ reset'.on = reset.on /\ reset'.quiet = FALSE
  BY <1>1 DEF Consistent, TypeOK, Positions, Disturb
<1>3. /\ Forwarding' = Forwarding /\ NbLcores' = NbLcores
      /\ \A k, c : Diff(k, c)' = Diff(k, c)
  BY <1>1, SameEvents
<1>4. BasesOK'
  BY <1>1, <1>3 DEF Truth, BasesOK
<1>5. \A k \in Lcores : reg[k] # None => todo'[k] = todo[k]
  BY <1>1 DEF Consistent, LoadedOK, TypeOK
<1>6. ExactOK'
  BY <1>1, <1>2, <1>3, <1>5 DEF Truth, ExactOK, Shows
<1>7. ResetOK'
  BY <1>2 DEF ResetOK
<1>8. ReportOK'
  BY <1>1, <1>2, <1>3 DEF Truth, ReportOK, AtEnd
<1> QED
  BY <1>4, <1>6, <1>7, <1>8 DEF Truth

\* A handler that a packet is under way beside is not quiet any more.
LEMMA NotQuiet ==
  ASSUME Truth, NEW l \in Forwarding, todo[l] # <<>>
  PROVE  ~(reset.on /\ reset.quiet) /\ ~(print.pos.on /\ print.pos.quiet)
BY DEF Truth, ResetOK, ReportOK, NoTraffic

LEMMA LoadTrue ==
  ASSUME Consistent, Truth, NEW l \in Forwarding, Load(l)
  PROVE  Truth'
<1> DEFINE c == Head(todo[l])
<1>1. /\ UNCHANGED <<enabled, mem, todo, print, reset, total, base, clean>>
      /\ todo[l] # <<>> /\ reg' = [reg EXCEPT ![l] = mem[l][c]]
  BY DEF Load, StatsOf, history
<1>2. /\ Forwarding' = Forwarding /\ NbLcores' = NbLcores
      /\ \A k, d : Diff(k, d)' = Diff(k, d)
  BY <1>1, SameEvents
<1>3. l \in Lcores /\ c \in Fields
  BY <1>1, LcoreFacts DEF Consistent, TypeOK
<1> HIDE DEF c
<1>4. \A k \in Lcores : reg'[k] = IF k = l THEN mem[l][c] ELSE reg[k]
  BY <1>1 DEF Consistent, TypeOK
<1>5. BasesOK'
  BY <1>1, <1>2, <1>4 DEF Truth, BasesOK
<1>6. ExactOK'
  <2> SUFFICES ASSUME clean, NEW k \in Lcores
               PROVE  /\ ~reset.on
                      /\ \A d \in Fields : Shows(mem[k][d], k, d)
                      /\ reg'[k] # None => Shows(reg'[k], k, Head(todo[k]))
    BY <1>1, <1>2 DEF ExactOK, Shows, Truth
  <2>1. CASE k = l
    BY <1>3, <1>4, <2>1 DEF Truth, ExactOK, c
  <2>2. CASE k # l
    BY <1>4, <2>2 DEF Truth, ExactOK
  <2> QED
    BY <2>1, <2>2
<1>7. ~(reset.on /\ reset.quiet) /\ ~(print.pos.on /\ print.pos.quiet)
  BY <1>1, NotQuiet
<1>8. ResetOK' /\ ReportOK'
  BY <1>1, <1>2, <1>7 DEF Truth, ResetOK, ReportOK, AtEnd
<1> QED
  BY <1>5, <1>6, <1>8 DEF Truth

LEMMA StoreTrue ==
  ASSUME Consistent, Truth, NEW l \in Forwarding, Store(l)
  PROVE  Truth'
<1> DEFINE c == Head(todo[l])
           v == (reg[l] + 1) % Width
<1>1. /\ UNCHANGED <<enabled, print, reset, base, clean>>
      /\ reg[l] # None /\ l \in Lcores /\ todo[l] # <<>>
      /\ mem' = [mem EXCEPT ![l][c] = v] /\ total' = [total EXCEPT ![l][c] = @ + 1]
      /\ todo' = [todo EXCEPT ![l] = Tail(todo[l])] /\ reg' = [reg EXCEPT ![l] = None]
  BY LcoreFacts DEF Store, StatsOf, history, Consistent, TypeOK, LoadedOK
<1>2. c \in Fields
  BY <1>1 DEF Consistent, TypeOK
<1>3. /\ Forwarding' = Forwarding /\ NbLcores' = NbLcores /\ BasesOK /\ TypeOK
  BY <1>1 DEF Forwarding, NbLcores, Truth, Consistent
<1>4. clean => v = (Diff(l, c) + 1) % Width
  <2>1. clean => reg[l] = Diff(l, c) % Width
    BY <1>1 DEF Truth, ExactOK, Shows
  <2>2. Diff(l, c) \in Int
    BY <1>1, <1>2, <1>3, DiffFacts
  <2> QED
    BY <2>1, <2>2, Modulo
<1> HIDE DEF c, v
<1>5. \A k \in Lcores, d \in Fields :
        IF k = l /\ d = c
        THEN mem'[k][d] = v /\ total'[k][d] = total[l][c] + 1
        ELSE mem'[k][d] = mem[k][d] /\ total'[k][d] = total[k][d]
  BY <1>1, <1>2 DEF Consistent, TypeOK
<1>6. \A k \in Lcores, d \in Fields :
        Diff(k, d)' = IF k = l /\ d = c THEN Diff(k, d) + 1 ELSE Diff(k, d)
  <2> SUFFICES ASSUME NEW k \in Lcores, NEW d \in Fields
               PROVE  total'[k][d] - base[k][d]
                        = IF k = l /\ d = c THEN Diff(k, d) + 1 ELSE Diff(k, d)
    BY <1>1 DEF Diff
  <2>1. total[k][d] \in Nat /\ base[k][d] \in Nat
    BY <1>3, DiffFacts
  <2> QED
    BY <1>5, <2>1 DEF Diff
<1>7. \A k \in Lcores : k # l => reg'[k] = reg[k] /\ todo'[k] = todo[k]
  BY <1>1 DEF Consistent, TypeOK
<1>8. reg'[l] = None
  BY <1>1 DEF Consistent, TypeOK
<1>9. BasesOK'
  <2>1. \A k \in Lcores, d \in Fields : base[k][d] <= total'[k][d]
    <3> SUFFICES ASSUME NEW k \in Lcores, NEW d \in Fields
                 PROVE  base[k][d] <= total'[k][d]
      OBVIOUS
    <3>1. total[k][d] \in Nat /\ base[k][d] \in Nat /\ base[k][d] <= total[k][d]
      BY <1>3, DiffFacts DEF BasesOK
    <3> QED
      BY <1>5, <3>1
  <2>2. \A k \in Lcores \ Forwarding : k # l
    OBVIOUS
  <2> QED
    BY <1>1, <1>3, <1>5, <1>7, <2>1, <2>2 DEF BasesOK
<1>10. ExactOK'
  <2> SUFFICES ASSUME clean, NEW k \in Lcores
               PROVE  /\ ~reset.on
                      /\ \A d \in Fields : mem'[k][d] = Diff(k, d)' % Width
                      /\ reg'[k] # None =>
                           reg'[k] = (total'[k][Head(todo'[k])]
                                        - base[k][Head(todo'[k])]) % Width
    BY <1>1 DEF ExactOK, Shows, Diff
  <2>1. ~reset.on
    BY DEF Truth, ExactOK
  <2>2. ASSUME NEW d \in Fields
        PROVE  mem'[k][d] = Diff(k, d)' % Width
    <3>1. CASE k = l /\ d = c
      BY <1>4, <1>5, <1>6, <3>1
    <3>2. CASE ~(k = l /\ d = c)
      BY <1>5, <1>6, <3>2 DEF Truth, ExactOK, Shows
    <3> QED
      BY <3>1, <3>2
  <2>3. ASSUME reg'[k] # None
        PROVE  reg'[k] = (total'[k][Head(todo'[k])]
                            - base[k][Head(todo'[k])]) % Width
    <3>1. k # l /\ reg'[k] = reg[k] /\ todo'[k] = todo[k]
      BY <1>7, <1>8, <2>3
    <3>2. todo[k] # <<>> /\ todo[k] \in Seq(Fields)
      BY <2>3, <3>1 DEF Consistent, LoadedOK, TypeOK
    <3>3. PICK d \in Fields : d = Head(todo[k])
      BY <3>2
    <3>4. reg[k] = Diff(k, d) % Width
      BY <2>3, <3>1, <3>3 DEF Truth, ExactOK, Shows
    <3>5. total'[k][d] = total[k][d]
      BY <1>5, <3>1
    <3> QED
      BY <3>1, <3>3, <3>4, <3>5 DEF Diff
  <2> QED
    BY <2>1, <2>2, <2>3
<1>11. ~(reset.on /\ reset.quiet) /\ ~(print.pos.on /\ print.pos.quiet)
  BY <1>1, NotQuiet
<1>12. ResetOK' /\ ReportOK'
  BY <1>1, <1>3, <1>11 DEF Truth, ResetOK, ReportOK, AtEnd
<1> QED
  BY <1>9, <1>10, <1>12 DEF Truth

LEMMA BeginResetTrue == ASSUME Consistent, Truth, BeginReset PROVE Truth'
<1>1. /\ UNCHANGED <<enabled, mem, todo, reg, total, base>> /\ ~clean'
      /\ reset' = [Idle EXCEPT !.on = TRUE, !.quiet = NoTraffic]
      /\ print' = [print EXCEPT !.pos = Disturb(@)]
  BY DEF BeginReset, traffic
<1>2. /\ print'.part = print.part /\ print'.pos.lcore = print.pos.lcore
      /\ print'.pos.k = print.pos.k /\ print'.pos.quiet = FALSE
      /\ reset'.lcore = 0 /\ reset'.k = 1 /\ (reset'.quiet => NoTraffic)
  BY <1>1 DEF Consistent, TypeOK, Positions, Disturb, Idle
<1>3. /\ Forwarding' = Forwarding /\ NbLcores' = NbLcores
      /\ NoTraffic' = NoTraffic
  BY <1>1 DEF Forwarding, NbLcores, NoTraffic
<1>4. BasesOK'
  BY <1>1, <1>3 DEF Truth, BasesOK
<1>5. \A l \in Lcores, k \in DOMAIN Counters : ~Passed(reset', l, k)
  <2>1. \A l \in Lcores : l \in Nat
    BY Positive DEF Consistent
  <2>2. \A k \in DOMAIN Counters : k \in Nat /\ 1 <= k
    BY CounterFacts
  <2> QED
    BY <1>2, <2>1, <2>2 DEF Passed
<1>6. ResetOK'
  BY <1>2, <1>3, <1>5 DEF ResetOK, Passed
<1>7. ExactOK' /\ ReportOK'
  BY <1>1, <1>2, <1>3 DEF Truth, ExactOK, ReportOK, AtEnd
<1> QED
  BY <1>4, <1>6, <1>7 DEF Truth

LEMMA ResetCounterTrue == ASSUME Consistent, Truth, ResetCounter PROVE Truth'
<1> DEFINE l == reset.lcore
           c == Counters[reset.k]
<1>1. /\ reset \in Positions /\ reset.k \in DOMAIN Counters /\ c \in Fields
      /\ TypeOK /\ BasesOK /\ reset.on /\ ~clean /\ reset.k \in Nat /\ l \in Nat
  BY CounterFacts, LcoreFacts
  DEF ResetCounter, Consistent, Truth, ExactOK, TypeOK, Positions
<1>2. /\ mem' = [mem EXCEPT ![l][c] = 0]
      /\ base' = [base EXCEPT ![l][c] = total[l][c]] /\ reset' = Advance(reset)
      /\ UNCHANGED <<enabled, print, clean, todo, reg, total>>
  BY DEF ResetCounter, traffic
<1> HIDE DEF c
<1>3. \A j \in Lcores, d \in Fields :
        IF j = l /\ d = c
        THEN mem'[j][d] = 0 /\ base'[j][d] = total[j][d]
        ELSE mem'[j][d] = mem[j][d] /\ base'[j][d] = base[j][d]
  BY <1>1, <1>2 DEF TypeOK
<1>4. /\ Forwarding' = Forwarding /\ NbLcores' = NbLcores
      /\ NoTraffic' = NoTraffic
  BY <1>2 DEF Forwarding, NbLcores, NoTraffic
<1>5. BasesOK'
  <2>1. \A j \in Lcores, d \in Fields : base'[j][d] <= total[j][d]
    <3> SUFFICES ASSUME NEW j \in Lcores, NEW d \in Fields
                 PROVE  base'[j][d] <= total[j][d]
      OBVIOUS
    <3>1. total[j][d] \in Nat /\ base[j][d] <= total[j][d]
      BY <1>1, DiffFacts DEF BasesOK
    <3> QED
      BY <1>3, <3>1
  <2> QED
    BY <1>1, <1>2, <1>3, <1>4, <2>1 DEF BasesOK
<1>6. ResetOK'
  <2> SUFFICES ASSUME reset.quiet, NEW j \in Lcores, NEW k \in DOMAIN Counters,
                      Passed(Advance(reset), j, k)
               PROVE  mem'[j][Counters[k]]
                        = (total[j][Counters[k]] - base'[j][Counters[k]]) % Width
    <3>1. reset'.on = reset.on /\ reset'.quiet = reset.quiet
      BY <1>1, <1>2, AdvanceFacts
    <3> QED
      BY <1>1, <1>2, <1>4, <3>1 DEF Truth, ResetOK, Shows, Diff
  <2> DEFINE d == Counters[k]
  <2>1. d \in Fields
    BY CounterFacts
  <2> HIDE DEF d
  <2>2. CASE j = l /\ d = c
    <3>1. total[j][d] \in Nat
      BY <1>1, <2>1, DiffFacts
    <3>2. mem'[j][d] = 0 /\ base'[j][d] = total[j][d]
      BY <1>3, <2>1, <2>2
    <3> QED
      BY <3>1, <3>2, Modulo DEF d
  <2>3. CASE ~(j = l /\ d = c)
    <3>1. ~(j = l /\ k = reset.k)
      BY <2>3 DEF c, d
    <3>2. Passed(reset, j, k)
      <4>1. j \in Nat /\ k \in 1 .. Len(Counters) /\ Len(Counters) \in Nat
        BY <1>1, Positive, CounterFacts
      <4>2. CASE reset.k = Len(Counters)
        <5>1. Advance(reset).lcore = l + 1 /\ Advance(reset).k = 1
          BY <1>1, <4>2, AdvanceFacts
        <5>2. j < l + 1
          BY <4>1, <5>1 DEF Passed
        <5>3. j < l \/ (j = l /\ k < reset.k)
          BY <1>1, <3>1, <4>1, <4>2, <5>2
        <5> QED
          BY <5>3 DEF Passed
      <4>3. CASE reset.k # Len(Counters)
        <5>1. Advance(reset).lcore = l /\ Advance(reset).k = reset.k + 1
          BY <1>1, <4>3, AdvanceFacts
        <5>2. j < l \/ (j = l /\ k < reset.k + 1)
          BY <5>1 DEF Passed
        <5>3. j < l \/ (j = l /\ k < reset.k)
          BY <1>1, <3>1, <4>1, <5>2
        <5> QED
          BY <5>3 DEF Passed
      <4> QED
        BY <4>2, <4>3
    <3>3. mem[j][d] = (total[j][d] - base[j][d]) % Width
      BY <1>1, <3>2 DEF Truth, ResetOK, Shows, Diff, d
    <3>4. mem'[j][d] = mem[j][d] /\ base'[j][d] = base[j][d]
      BY <1>3, <2>1, <2>3
    <3> QED
      BY <3>3, <3>4 DEF d
  <2> QED
    BY <2>2, <2>3
<1>7. ExactOK'
  BY <1>1, <1>2 DEF ExactOK
<1>8. ReportOK'
  BY <1>1, <1>2, <1>4 DEF Truth, ReportOK, AtEnd
<1> QED
  BY <1>5, <1>6, <1>7, <1>8 DEF Truth

\* Where no loop runs, nothing has been counted and no report is wrong.
LEMMA OthersShowNothing ==
  ASSUME TypeOK, BasesOK, NEW l \in Lcores, l \notin Forwarding, NEW c \in Fields
  PROVE  mem[l][c] = 0 /\ Diff(l, c) = 0 /\ Shows(mem[l][c], l, c)
<1>1. mem[l][c] = 0 /\ total[l][c] = 0 /\ base[l][c] <= total[l][c]
  BY DEF BasesOK
<1>2. base[l][c] \in Nat
  BY DiffFacts
<1>3. Diff(l, c) = 0
  BY <1>1, <1>2 DEF Diff
<1>4. 0 % Width = 0
  BY WidthAssumption
<1> QED
  BY <1>1, <1>3, <1>4 DEF Shows

LEMMA EndResetTrue == ASSUME Consistent, Truth, EndReset PROVE Truth'
<1>1. /\ UNCHANGED <<enabled, mem, todo, reg, total, base, print>>
      /\ reset.on /\ reset.lcore = NbLcores /\ clean' = reset.quiet /\ reset' = Idle
      /\ TypeOK /\ BasesOK /\ LoadedOK
  BY DEF EndReset, traffic, AtEnd, Consistent, Truth
<1>2. /\ Forwarding' = Forwarding /\ NbLcores' = NbLcores
      /\ \A l, c : Diff(l, c)' = Diff(l, c)
  BY <1>1, SameEvents
<1>3. ~reset'.on
  BY <1>1 DEF Idle
<1>4. BasesOK' /\ ResetOK'
  BY <1>1, <1>2, <1>3 DEF BasesOK, ResetOK
<1>5. ReportOK'
  BY <1>1, <1>2 DEF Truth, ReportOK, AtEnd
<1>6. ASSUME reset.quiet, NEW l \in Lcores
      PROVE  reg[l] = None /\ \A c \in Fields : Shows(mem[l][c], l, c)
  <2>1. CASE l \notin Forwarding
    BY <1>1, <2>1, OthersShowNothing DEF BasesOK
  <2>2. CASE l \in Forwarding
    <3>1. reg[l] = None
      BY <1>1, <1>6, <2>2 DEF Truth, ResetOK, NoTraffic, LoadedOK
    <3>2. ASSUME NEW c \in Fields
          PROVE  Shows(mem[l][c], l, c)
      <4>1. PICK k \in DOMAIN Counters : c = Counters[k]
        BY DEF Fields
      <4>2. Passed(reset, l, k)
        BY <1>1, <2>2 DEF Passed, Forwarding
      <4> QED
        BY <1>1, <1>6, <4>1, <4>2 DEF Truth, ResetOK
    <3> QED
      BY <3>1, <3>2
  <2> QED
    BY <2>1, <2>2
<1>7. ExactOK'
  BY <1>1, <1>2, <1>3, <1>6 DEF ExactOK, Shows
<1> QED
  BY <1>4, <1>5, <1>7 DEF Truth

\* A step of a report changes nothing else that the invariant is about.
LEMMA ReportTrue ==
  ASSUME Truth, ReportOK', UNCHANGED <<enabled, mem, reset, traffic, history>>
  PROVE  Truth'
<1>1. /\ Forwarding' = Forwarding /\ NoTraffic' = NoTraffic
      /\ \A l, c : Diff(l, c)' = Diff(l, c)
  BY DEF Forwarding, NbLcores, NoTraffic, Diff, traffic, history
<1>2. BasesOK'
  BY <1>1 DEF Truth, BasesOK, traffic, history
<1>3. ExactOK'
  BY <1>1 DEF Truth, ExactOK, Shows, traffic, history
<1>4. ResetOK'
  BY <1>1 DEF Truth, ResetOK, Shows
<1> QED
  BY <1>2, <1>3, <1>4 DEF Truth

LEMMA BeginPrintTrue == ASSUME Consistent, Truth, BeginPrint PROVE Truth'
<1>1. /\ UNCHANGED <<enabled, mem, reset, traffic, history>>
      /\ UNCHANGED <<enabled, todo, total, base>>
      /\ print'.part = "line" /\ print'.pos.lcore = 0 /\ print'.pos.k = 1
      /\ print'.pos.quiet = (NoTraffic /\ ~reset.on) /\ print'.sum = Zero
  BY DEF BeginPrint, NotPrinting, Idle, traffic, history
<1>2. NoTraffic' = NoTraffic
  BY <1>1 DEF NoTraffic, Forwarding, NbLcores
<1>3. \A l \in enabled, k \in DOMAIN Counters :
        /\ ~(l < 0) /\ ~(k < 1) /\ l \in Nat
  BY Positive, CounterFacts DEF Consistent
<1>4. LinesOK'
  BY <1>1, <1>3 DEF LinesOK, Lined, Passed
<1>5. SumsOK'
  <2> SUFFICES ASSUME NEW k \in DOMAIN Counters
               PROVE  print'.sum[Counters[k]]
                        = Weight(Diffs(Counters[k])', Added(k)') % Width
    BY DEF SumsOK
  <2>1. Added(k)' = {}
    BY <1>1, <1>3 DEF Added
  <2>2. print'.sum[Counters[k]] = 0
    BY <1>1, CounterFacts DEF Zero
  <2>3. 0 % Width = 0
    BY WidthAssumption
  <2> QED
    BY <2>1, <2>2, <2>3, WeightEmpty
<1>6. ReportOK'
  BY <1>1, <1>2, <1>4, <1>5 DEF ReportOK
<1> QED
  BY <1>1, <1>6, ReportTrue

LEMMA SkipDisabledTrue == ASSUME Consistent, Truth, SkipDisabled PROVE Truth'
<1> DEFINE n == print.pos.lcore
<1>1. /\ UNCHANGED <<enabled, mem, reset, traffic, history>>
      /\ UNCHANGED <<enabled, todo, total, base>>
      /\ print'.part = "line" /\ print.part = "line" /\ print'.pos.lcore = n + 1
      /\ print'.pos.k = print.pos.k /\ print'.pos.quiet = print.pos.quiet
      /\ print'.pos.on = print.pos.on /\ print'.sum = print.sum
      /\ print'.line = print.line /\ n \notin enabled
  BY DEF SkipDisabled, Printing, traffic, history, Consistent, TypeOK, Positions
<1>2. NoTraffic' = NoTraffic /\ \A l, c : Diff(l, c)' = Diff(l, c)
  BY <1>1 DEF NoTraffic, Forwarding, NbLcores, Diff
<1>3. \A c : Diffs(c)' = Diffs(c)
  BY <1>1, SameEvents
<1>4. print.pos.k = 1 /\ n \in Nat
  BY <1>1, LcoreFacts DEF Truth, ReportOK, Consistent, TypeOK, Positions
<1> HIDE DEF n
<1>5. \A l \in enabled : l < n + 1 => l < n
  <2>1. \A l \in enabled : l \in Nat /\ l # n
    BY <1>1, Positive DEF Consistent
  <2> QED
    BY <1>4, <2>1
<1>6. \A k \in DOMAIN Counters : ~(k < 1)
  BY CounterFacts
<1>7. \A l \in enabled, k \in DOMAIN Counters : Lined(l, k)' => Lined(l, k)
  BY <1>1, <1>4, <1>5, <1>6 DEF Lined, Passed, n
<1>8. \A k : Added(k)' = Added(k)
  <2>1. \A l \in enabled : l < n => l < n + 1
    BY <1>4, Positive DEF Consistent
  <2> QED
    BY <1>1, <1>5, <2>1 DEF Added, n
<1>9. LinesOK => LinesOK'
  BY <1>1, <1>2, <1>7 DEF LinesOK, Shows
<1>10. SumsOK => SumsOK'
  BY <1>1, <1>3, <1>8 DEF SumsOK
<1>11. ReportOK'
  BY <1>1, <1>2, <1>4, <1>9, <1>10 DEF Truth, ReportOK, history
<1> QED
  BY <1>1, <1>11, ReportTrue

LEMMA EndPrintTrue == ASSUME Consistent, Truth, EndPrint PROVE Truth'
<1>1. UNCHANGED <<enabled, mem, reset, traffic, history>> /\ print' = NotPrinting
  BY DEF EndPrint
<1>2. ~print'.pos.on /\ print'.part = "line" /\ print'.pos.k = 1
  BY <1>1 DEF NotPrinting, Idle
<1>3. ReportOK'
  BY <1>2 DEF ReportOK
<1> QED
  BY <1>1, <1>3, ReportTrue

LEMMA AdvancePrintFacts ==
  ASSUME TypeOK, print.pos.on, ~AtEnd(print.pos)
  PROVE  LET a == AdvancePrint
             n == print.pos.lcore
             k == print.pos.k
         IN /\ a.sum = print.sum /\ a.line = print.line
            /\ a.pos.on /\ a.pos.quiet = print.pos.quiet
            /\ n \in Nat /\ k \in Nat /\ k <= Len(Counters)
            /\ k # Len(Counters) =>
                 a.part = print.part /\ a.pos.lcore = n /\ a.pos.k = k + 1
            /\ k = Len(Counters) /\ print.part = "line" =>
                 a.part = "add" /\ a.pos.lcore = n /\ a.pos.k = 1
            /\ k = Len(Counters) /\ print.part = "add" =>
                 a.part = "line" /\ a.pos.lcore = n + 1 /\ a.pos.k = 1
<1>1. print \in Prints /\ print.pos \in Positions
  BY DEF TypeOK, Prints
<1> DEFINE p == Advance(print.pos)
           k == print.pos.k
<1>2. /\ print.pos.lcore \in Nat /\ k \in Nat /\ k <= Len(Counters)
      /\ p.on = print.pos.on /\ p.quiet = print.pos.quiet
      /\ k = Len(Counters) => p.lcore = print.pos.lcore + 1 /\ p.k = 1
  BY <1>1, AdvanceFacts
<1> HIDE DEF p
<1>3. AdvancePrint =
        CASE k # Len(Counters) -> [print EXCEPT !.pos.k = k + 1]
          [] k = Len(Counters) /\ print.part = "line" ->
               [print EXCEPT !.pos.k = 1, !.part = "add"]
          [] OTHER -> [print EXCEPT !.pos = p, !.part = "line"]
  BY DEF AdvancePrint, p
<1>4. CASE k # Len(Counters)
  <2>1. AdvancePrint = [print EXCEPT !.pos.k = k + 1]
    BY <1>3, <1>4
  <2> QED
    BY <1>1, <1>2, <1>4, <2>1 DEF Prints, Positions
<1>5. CASE k = Len(Counters) /\ print.part = "line"
  <2>1. AdvancePrint = [print EXCEPT !.pos.k = 1, !.part = "add"]
    BY <1>3, <1>5
  <2> QED
    BY <1>1, <1>2, <1>5, <2>1 DEF Prints, Positions
<1>6. CASE k = Len(Counters) /\ print.part = "add"
  <2>1. AdvancePrint = [print EXCEPT !.pos = p, !.part = "line"]
    BY <1>3, <1>6
  <2> QED
    BY <1>1, <1>2, <1>6, <2>1 DEF Prints
<1> QED
  BY <1>1, <1>4, <1>5, <1>6 DEF Prints

LEMMA PrintLineTrue == ASSUME Consistent, Truth, PrintLine PROVE Truth'
<1> DEFINE n == print.pos.lcore
           k == print.pos.k
           c == Counters[k]
           v == mem[n][c]
           a == AdvancePrint
<1>1. /\ UNCHANGED <<enabled, mem, reset, traffic, history>>
      /\ UNCHANGED <<enabled, todo, total, base, clean>>
      /\ print.part = "line" /\ n \in enabled /\ n \in Lcores /\ TypeOK
      /\ print.pos.on /\ ~AtEnd(print.pos) /\ print' = [a EXCEPT !.line[n][c] = v]
      /\ k \in DOMAIN Counters /\ c \in Fields
  BY LcoreFacts, CounterFacts
  DEF PrintLine, Printing, traffic, history, Consistent, TypeOK, Positions
<1>2. /\ a.sum = print.sum /\ a.line = print.line
      /\ a.pos.on /\ a.pos.quiet = print.pos.quiet
      /\ n \in Nat /\ k \in Nat /\ k <= Len(Counters)
      /\ k # Len(Counters) =>
           a.part = "line" /\ a.pos.lcore = n /\ a.pos.k = k + 1
      /\ k = Len(Counters) => a.part = "add" /\ a.pos.lcore = n /\ a.pos.k = 1
  BY <1>1, AdvancePrintFacts
<1>3. a \in Prints
  BY <1>1, AdvancePrintOK
<1> HIDE DEF a, n, k, c, v
<1>4. /\ print'.pos = a.pos /\ print'.part = a.part /\ print'.sum = a.sum
      /\ \A l \in Lcores, d \in Fields :
           print'.line[l][d] = IF l = n /\ d = c THEN v ELSE print.line[l][d]
  BY <1>1, <1>2, <1>3 DEF Prints
<1>5. NoTraffic' = NoTraffic /\ \A l, d : Diff(l, d)' = Diff(l, d)
  BY <1>1 DEF NoTraffic, Forwarding, NbLcores, Diff
<1>6. \A d : Diffs(d)' = Diffs(d)
  BY <1>1, SameEvents
<1>7. \A l \in enabled, j \in DOMAIN Counters :
        l \in Nat /\ l \in Lcores /\ j \in Nat /\ 1 <= j /\ j <= Len(Counters)
  BY <1>1, Positive, CounterFacts
<1>8. ASSUME NEW l \in enabled, NEW j \in DOMAIN Counters, Lined(l, j)'
      PROVE  Lined(l, j) \/ (l = n /\ j = k)
  <2>1. \/ l < a.pos.lcore
        \/ l = a.pos.lcore /\ j < a.pos.k
        \/ l = a.pos.lcore /\ a.part = "add"
    BY <1>4, <1>8 DEF Lined, Passed
  <2>2. l < n \/ (l = n /\ j <= k)
    <3>1. CASE k # Len(Counters)
      <4>1. l < n \/ (l = n /\ j < k + 1)
        BY <1>2, <2>1, <3>1
      <4> QED
        BY <1>2, <1>7, <4>1
    <3>2. CASE k = Len(Counters)
      BY <1>2, <1>7, <2>1, <3>2
    <3> QED
      BY <3>1, <3>2
  <2>3. l < n \/ (l = n /\ j < k) \/ (l = n /\ j = k)
    BY <1>2, <1>7, <2>2
  <2> QED
    BY <2>3 DEF Lined, Passed, n, k
<1>9. \A j \in DOMAIN Counters : Added(j)' = Added(j)
  <2>1. \A j \in DOMAIN Counters, l \in enabled :
          /\ print'.pos.lcore = n
          /\ print'.part = "add" => ~(j < print'.pos.k)
    BY <1>2, <1>4, <1>7
  <2> QED
    BY <1>1, <2>1 DEF Added, n
<1>10. clean /\ LinesOK => LinesOK'
  <2> SUFFICES ASSUME clean, LinesOK, NEW l \in enabled, NEW j \in DOMAIN Counters,
                      Lined(l, j)'
               PROVE  print'.line[l][Counters[j]] = Diff(l, Counters[j]) % Width
    BY <1>1, <1>5 DEF LinesOK, Shows
  <2>1. l \in Lcores /\ Counters[j] \in Fields
    BY <1>7, CounterFacts
  <2>2. CASE l = n /\ Counters[j] = c
    BY <1>1, <1>4, <2>1, <2>2 DEF Truth, ExactOK, Shows, v
  <2>3. CASE ~(l = n /\ Counters[j] = c)
    <3>1. Lined(l, j)
      BY <1>8, <2>3 DEF c
    <3> QED
      BY <1>4, <2>1, <2>3, <3>1 DEF LinesOK, Shows
  <2> QED
    BY <2>2, <2>3
<1>11. SumsOK => SumsOK'
  BY <1>1, <1>2, <1>4, <1>6, <1>9 DEF SumsOK
<1>12. ReportOK'
  <2>1. ~AtEnd(print.pos) /\ print'.pos.lcore = print.pos.lcore /\ NbLcores' = NbLcores
    BY <1>1, <1>2, <1>4 DEF n, NbLcores
  <2>2. ~AtEnd(print.pos)'
    BY <2>1 DEF AtEnd
  <2>3. print'.pos.lcore \in enabled /\ print'.pos.quiet = print.pos.quiet
    BY <1>1, <1>2, <1>4
  <2> QED
    BY <1>1, <1>5, <1>10, <1>11, <2>2, <2>3 DEF Truth, ReportOK
<1> QED
  BY <1>1, <1>12, ReportTrue

\* Steps of one lcore's additions add it to one sum after the other.
LEMMA AddToSumTrue == ASSUME Consistent, Truth, AddToSum PROVE Truth'
<1> DEFINE n == print.pos.lcore
           k == print.pos.k
           c == Counters[k]
           v == mem[n][c]
           a == AdvancePrint
<1>1. /\ UNCHANGED <<enabled, mem, reset, traffic, history>>
      /\ UNCHANGED <<enabled, todo, total, base, clean>>
      /\ print.part = "add" /\ n \in enabled /\ n \in Lcores /\ TypeOK /\ BasesOK
      /\ print.pos.on /\ ~AtEnd(print.pos)
      /\ print' = [a EXCEPT !.sum[c] = (@ + v) % Width]
      /\ k \in DOMAIN Counters /\ c \in Fields
  BY LcoreFacts, CounterFacts
  DEF AddToSum, Printing, traffic, history, Consistent, AddingOK, TypeOK, Positions,
      Truth
<1>2. /\ a.sum = print.sum /\ a.line = print.line
      /\ a.pos.on /\ a.pos.quiet = print.pos.quiet
      /\ n \in Nat /\ k \in Nat /\ k <= Len(Counters)
      /\ k # Len(Counters) =>
           a.part = "add" /\ a.pos.lcore = n /\ a.pos.k = k + 1
      /\ k = Len(Counters) =>
           a.part = "line" /\ a.pos.lcore = n + 1 /\ a.pos.k = 1
  BY <1>1, AdvancePrintFacts
<1>3. a \in Prints
  BY <1>1, AdvancePrintOK
<1> HIDE DEF a, n, k, c, v
<1>4. /\ print'.pos = a.pos /\ print'.part = a.part /\ print'.line = print.line
      /\ \A d \in Fields :
           print'.sum[d] = IF d = c THEN (print.sum[c] + v) % Width ELSE print.sum[d]
  BY <1>1, <1>2, <1>3 DEF Prints
<1>5. NoTraffic' = NoTraffic /\ \A l, d : Diff(l, d)' = Diff(l, d)
  BY <1>1 DEF NoTraffic, Forwarding, NbLcores, Diff
<1>6. \A d : Diffs(d)' = Diffs(d)
  BY <1>1, SameEvents
<1>7. \A l \in enabled, j \in DOMAIN Counters :
        l \in Nat /\ l \in Lcores /\ j \in Nat /\ 1 <= j /\ j <= Len(Counters)
  BY <1>1, Positive, CounterFacts
<1>8. ASSUME NEW l \in enabled, NEW j \in DOMAIN Counters, Lined(l, j)'
      PROVE  Lined(l, j)
  <2>1. \/ l < a.pos.lcore
        \/ l = a.pos.lcore /\ j < a.pos.k
        \/ l = a.pos.lcore /\ a.part = "add"
    BY <1>4, <1>8 DEF Lined, Passed
  <2>2. l < n \/ l = n
    <3>1. CASE k # Len(Counters)
      BY <1>2, <2>1, <3>1
    <3>2. CASE k = Len(Counters)
      <4>1. l < n + 1 \/ (l = n + 1 /\ j < 1)
        BY <1>2, <2>1, <3>2
      <4> QED
        BY <1>2, <1>7, <4>1
    <3> QED
      BY <3>1, <3>2
  <2> QED
    BY <1>1, <2>2 DEF Lined, Passed, n
<1>9. ASSUME NEW j \in DOMAIN Counters
      PROVE  Added(j)' = IF j = k THEN Added(j) \cup {n} ELSE Added(j)
  <2>1. Added(j) = {l \in enabled : l < n \/ (l = n /\ j < k)}
    BY <1>1 DEF Added, n, k
  <2>2. Added(j)' = {l \in enabled : l < n \/ (l = n /\ j <= k)}
    <3>1. CASE k # Len(Counters)
      <4>1. Added(j)' = {l \in enabled : l < n \/ (l = n /\ j < k + 1)}
        BY <1>1, <1>2, <1>4, <3>1 DEF Added
      <4> QED
        BY <1>2, <1>7, <4>1
    <3>2. CASE k = Len(Counters)
      <4>1. Added(j)' = {l \in enabled : l < n + 1}
        BY <1>1, <1>2, <1>4, <3>2 DEF Added
      <4>2. \A l \in enabled : l < n + 1 <=> l < n \/ (l = n /\ j <= k)
        BY <1>2, <1>7, <3>2
      <4> QED
        BY <4>1, <4>2
    <3> QED
      BY <3>1, <3>2
  <2>3. CASE j = k
    <3>1. \A l \in enabled : ~(l = n /\ j < k) /\ j <= k
      BY <1>2, <2>3
    <3> QED
      BY <1>1, <2>1, <2>2, <2>3, <3>1
  <2>4. CASE j # k
    <3>1. j <= k <=> j < k
      BY <1>1, <1>2, <1>7, <2>4
    <3> QED
      BY <2>1, <2>2, <2>4, <3>1
  <2> QED
    BY <2>3, <2>4
<1>10. n \notin Added(k)
  BY <1>2 DEF Added, n, k
<1>11. LinesOK => LinesOK'
  BY <1>1, <1>4, <1>5, <1>8 DEF LinesOK, Shows
<1>12. clean /\ SumsOK => SumsOK'
  <2> SUFFICES ASSUME clean, SumsOK, NEW j \in DOMAIN Counters
               PROVE  print'.sum[Counters[j]]
                        = Weight(Diffs(Counters[j]), Added(j)') % Width
    BY <1>1, <1>6 DEF SumsOK
  <2>1. Counters[j] \in Fields
    BY CounterFacts
  <2>2. CASE j # k
    <3>1. Counters[j] # c
      BY <1>1, <2>2, CountersAssumption DEF c
    <3> QED
      BY <1>4, <1>9, <2>1, <2>2, <3>1 DEF SumsOK
  <2>3. CASE j = k
    <3> DEFINE g == Diffs(c)
               T == Added(j)
               U == Added(j)'
               w == Weight(g, T)
               d == Diff(n, c)
    <3>1. g \in [enabled -> Nat] /\ g[n] = d /\ IsFiniteSet(enabled)
      <4>1. \A l \in enabled : Diff(l, c) \in Nat
        BY <1>1, <1>7, DiffFacts
      <4> QED
        BY <1>1, <4>1, Positive DEF Diffs
    <3>2. T \in SUBSET enabled
      BY DEF Added
    <3>3. U \in SUBSET enabled /\ n \in U /\ U \ {n} = T
      BY <1>1, <1>9, <1>10, <2>3, <3>2
    <3>4. d \in Nat /\ v = d % Width
      BY <1>1, DiffFacts DEF Truth, ExactOK, Shows, v
    <3>5. print.sum[c] = w % Width
      BY <1>1, <2>3 DEF SumsOK, c
    <3> HIDE DEF g, T, U, w, d
    <3>6. Weight(g, U) = d + w /\ w \in Nat
      BY <3>1, <3>2, <3>3, WeightStep, WeightFinite DEF w
    <3>7. ((w % Width) + (d % Width)) % Width = (w + d) % Width
      <4>1. w \in Int /\ d \in Int /\ Width \in Nat \ {0}
        BY <3>4, <3>6, WidthAssumption
      <4> QED
        BY <4>1, ModAdd
    <3>8. w + d = d + w
      BY <3>4, <3>6
    <3>9. print'.sum[c] = Weight(g, U) % Width
      BY <1>1, <1>4, <3>4, <3>5, <3>6, <3>7, <3>8
    <3> QED
      BY <2>3, <3>9 DEF g, U, c
  <2> QED
    BY <2>2, <2>3
<1>13. ReportOK'
  <2>1. print'.part = "add" => ~AtEnd(print.pos)'
    <3> SUFFICES ASSUME print'.part = "add"
                 PROVE  ~AtEnd(print.pos)'
      OBVIOUS
    <3>1. print'.pos.lcore = print.pos.lcore /\ NbLcores' = NbLcores
      BY <1>1, <1>2, <1>4 DEF n, NbLcores
    <3> QED
      BY <1>1, <3>1 DEF AtEnd
  <2>2. print'.pos.k # 1 => print'.pos.lcore \in enabled
    BY <1>1, <1>2, <1>4
  <2>3. print'.pos.quiet = print.pos.quiet
    BY <1>2, <1>4
  <2> QED
    BY <1>1, <1>5, <1>11, <1>12, <2>1, <2>2, <2>3 DEF Truth, ReportOK
<1> QED
  BY <1>1, <1>13, ReportTrue

LEMMA InitTruth == Init => Truth
<1> SUFFICES ASSUME Init
             PROVE  Truth
  OBVIOUS
<1>1. /\ clean /\ ~reset.on /\ ~print.pos.on /\ print.part = "line" /\ print.pos.k = 1
      /\ \A l \in Lcores : reg[l] = None
      /\ \A l \in Lcores, c \in Fields :
           mem[l][c] = 0 /\ total[l][c] = 0 /\ base[l][c] = 0
  BY DEF Init, Idle, NotPrinting, Zero
<1>2. BasesOK
  BY <1>1 DEF BasesOK
<1>3. (0 - 0) % Width = 0
  BY Modulo
<1>4. ExactOK
  BY <1>1, <1>3 DEF ExactOK, Shows, Diff
<1>5. ResetOK /\ ReportOK
  BY <1>1 DEF ResetOK, ReportOK
<1> QED
  BY <1>2, <1>4, <1>5 DEF Truth

LEMMA StutterTrue == ASSUME Truth, UNCHANGED vars PROVE Truth'
<1>1. /\ UNCHANGED <<enabled, mem, print, reset, traffic, history>>
      /\ UNCHANGED <<enabled, todo, total, base, clean, print>>
  BY DEF vars, traffic, history
<1>2. NoTraffic' = NoTraffic /\ \A l, c : Diff(l, c)' = Diff(l, c)
  BY <1>1 DEF NoTraffic, Forwarding, NbLcores, Diff
<1>3. \A c : Diffs(c)' = Diffs(c)
  BY <1>1, SameEvents
<1>4. LinesOK' = LinesOK /\ SumsOK' = SumsOK
  BY <1>1, <1>2, <1>3 DEF LinesOK, SumsOK, Lined, Passed, Added, Shows
<1>5. ReportOK'
  BY <1>1, <1>2, <1>4 DEF Truth, ReportOK, AtEnd, NbLcores
<1> QED
  BY <1>1, <1>5, ReportTrue

\* The second invariant holds throughout, given the first.
THEOREM StatsTruthful == Spec => []Truth
<1>1. Init => Truth
  BY InitTruth
<1>2. Consistent /\ Truth /\ [Next]_vars => Truth'
  BY StutterTrue, ReceiveTrue, LoadTrue, StoreTrue, BeginResetTrue, ResetCounterTrue,
     EndResetTrue, BeginPrintTrue, SkipDisabledTrue, PrintLineTrue, AddToSumTrue,
     EndPrintTrue DEF Next, Loop
<1> QED
  BY <1>1, <1>2, StatsConsistent, PTL DEF Spec

-----------------------------------------------------------------------------
(* The sums of ReportIsTrue, unrolled.                                     *)

\* One turn of the fold that ReportIsTrue sums with.
Turn(c, S, f) ==
  [s \in SUBSET S |->
     IF s = {} THEN 0
     ELSE Diff(CHOOSE x \in s : TRUE, c) + f[s \ {CHOOSE x \in s : TRUE}]]

Sum(c, S) == MapThenSumSet(LAMBDA l : total[l][c] - base[l][c], S)

LEMMA SumIsFold ==
  ASSUME NEW c, NEW S
  PROVE  Sum(c, S) = (CHOOSE f : f = Turn(c, S, f))[S]
BY DEF Sum, MapThenSumSet, MapThenFoldSet, Turn, Diff

LEMMA ReportBySum ==
  ReportIsTrue <=> (  print.pos.on /\ AtEnd(print.pos) /\ print.pos.quiet /\ clean =>
    \A c \in Fields :
      /\ \A l \in Forwarding :
           print.line[l][c] = (total[l][c] - base[l][c]) % Width
      /\ print.sum[c] = Sum(c, Forwarding) % Width)
BY DEF ReportIsTrue, Sum, MapThenSumSet, MapThenFoldSet

LEMMA SumIsWeight ==
  ASSUME NEW c, NEW S, IsFiniteSet(S), \A l \in S : Diff(l, c) \in Nat
  PROVE  Sum(c, S) = Weight([l \in S |-> Diff(l, c)], S)
<1> DEFINE g == [l \in S |-> Diff(l, c)]
           first(s) == CHOOSE x \in s : TRUE
           w == [s \in SUBSET S |-> Weight(g, s)]
           f == CHOOSE h : h = Turn(c, S, h)
<1>1. g \in [S -> Nat] /\ \A l \in S : g[l] = Diff(l, c)
  OBVIOUS
<1>2. \A s \in SUBSET S : s # {} => first(s) \in s
  OBVIOUS
<1>3. \A h : Turn(c, S, h) =
        [s \in SUBSET S |-> IF s = {} THEN 0
                            ELSE Diff(first(s), c) + h[s \ {first(s)}]]
  BY DEF Turn
<1>4. w = [s \in SUBSET S |-> Weight(g, s)]
  OBVIOUS
<1> HIDE DEF g, first, w
<1>5. w = Turn(c, S, w)
  <2>1. ASSUME NEW s \in SUBSET S, s # {}
        PROVE  w[s] = Diff(first(s), c) + w[s \ {first(s)}]
    <3>1. first(s) \in s /\ s \ {first(s)} \in SUBSET S
      BY <1>2, <2>1
    <3>2. Weight(g, s) = g[first(s)] + Weight(g, s \ {first(s)})
      BY <1>1, <3>1, WeightStep
    <3> QED
      BY <1>1, <1>4, <3>1, <3>2
  <2>2. w[{}] = 0
    BY <1>4, WeightEmpty
  <2>3. \A s \in SUBSET S :
          w[s] = IF s = {} THEN 0 ELSE Diff(first(s), c) + w[s \ {first(s)}]
    BY <2>1, <2>2
  <2>4. w = [s \in SUBSET S |-> IF s = {} THEN 0
                                 ELSE Diff(first(s), c) + w[s \ {first(s)}]]
    BY <1>4, <2>3
  <2> QED
    BY <1>3, <2>4
<1>6. f = Turn(c, S, f)
  BY <1>5
<1> HIDE DEF f
<1>7. \A s \in SUBSET S :
        f[s] = IF s = {} THEN 0 ELSE Diff(first(s), c) + f[s \ {first(s)}]
  BY <1>3, <1>6
<1> DEFINE Wrong == {n \in Nat : \E s \in SUBSET S :
                                   Cardinality(s) = n /\ f[s] # Weight(g, s)}
           less == {p \in Nat \X Nat : p[1] < p[2]}
<1>8. ASSUME Wrong # {}
      PROVE  FALSE
  <2>1. \A a, b : <<a, b>> \in OpToRel(<, Nat) <=> a \in Nat /\ b \in Nat /\ a < b
    BY DEF OpToRel
  <2>2. PICK n \in Wrong : \A k \in Wrong : ~(k < n)
    <3>1. Wrong \subseteq Nat
      OBVIOUS
    <3> HIDE DEF Wrong
    <3>2. \E n \in Wrong : \A k \in Wrong : ~(<<k, n>> \in OpToRel(<, Nat))
      BY <1>8, <3>1, NatLessThanWellFounded, WFMin
    <3> QED
      BY <2>1, <3>1, <3>2
  <2>3. PICK s \in SUBSET S : Cardinality(s) = n /\ f[s] # Weight(g, s)
    OBVIOUS
  <2>4. CASE s = {}
    BY <1>7, <2>3, <2>4, WeightEmpty
  <2>5. CASE s # {}
    <3> DEFINE x == first(s)
               u == s \ {x}
    <3>1. x \in s /\ u \in SUBSET S
      BY <1>2, <2>5
    <3>2. f[s] = Diff(x, c) + f[u]
      BY <1>7, <2>5
    <3>3. Weight(g, s) = g[x] + Weight(g, u) /\ g[x] = Diff(x, c)
      BY <1>1, <3>1, WeightStep
    <3>4. f[u] # Weight(g, u)
      BY <2>3, <3>2, <3>3
    <3>5. IsFiniteSet(s) /\ n \in Nat
      BY FS_Subset
    <3>6. Cardinality(u) = n - 1 /\ Cardinality(u) \in Nat
      BY <2>3, <3>1, <3>5, FS_RemoveElement, FS_CardinalityType
    <3>7. Cardinality(u) \in Wrong
      BY <3>1, <3>4, <3>6
    <3>8. Cardinality(u) < n
      BY <3>5, <3>6
    <3> QED
      BY <2>2, <3>7, <3>8
  <2> QED
    BY <2>4, <2>5
<1>9. f[S] = Weight(g, S)
  <2>1. Cardinality(S) \in Nat
    BY FS_CardinalityType
  <2> QED
    BY <1>8, <2>1
<1> QED
  BY <1>9, SumIsFold DEF f, g

\* The sums range over the lcores a report visits, of which lcore 0, that runs
\* the control plane, has counted nothing.
LEMMA SumShown ==
  ASSUME TypeOK, BasesOK, NEW c \in Fields
  PROVE  Weight(Diffs(c), {l \in enabled : l < NbLcores}) = Sum(c, Forwarding)
<1> DEFINE F == Forwarding
           T == {l \in enabled : l < NbLcores}
           g == Diffs(c)
           h == [l \in F |-> Diff(l, c)]
<1>1. /\ IsFiniteSet(enabled) /\ 0 \in enabled /\ 0 \in Lcores
      /\ \A l \in enabled : l \in Nat /\ l \in Lcores
  BY Positive
<1>2. 0 < NbLcores
  <2>1. NbLcores \in Nat /\ NbLcores # 0
    BY <1>1, FS_CardinalityType, FS_EmptySet DEF NbLcores
  <2> QED
    BY <2>1
<1>3. 0 \in T /\ T \ {0} = F /\ 0 \notin F /\ T \in SUBSET enabled /\ F \in SUBSET enabled
  <2>1. \A l \in enabled : 1 <= l <=> l # 0
    BY <1>1
  <2> QED
    BY <1>1, <1>2, <2>1 DEF Forwarding
<1>4. \A l \in enabled : Diff(l, c) \in Nat
  BY <1>1, DiffFacts
<1>5. g \in [enabled -> Nat] /\ g[0] = 0
  BY <1>1, <1>3, <1>4, OthersShowNothing DEF Diffs
<1>6. \A l \in F : h[l] = g[l]
  BY <1>3 DEF Diffs
<1> HIDE DEF T, g, h, F
<1>7. Weight(g, T) = 0 + Weight(g, F) /\ Weight(g, F) \in Nat
  BY <1>1, <1>3, <1>5, WeightStep, WeightFinite
<1>8. Weight(h, F) = Weight(g, F)
  BY <1>6 DEF Weight, Weights
<1>9. IsFiniteSet(F)
  BY <1>1, <1>3, FS_Subset
<1>10. Sum(c, F) = Weight(h, F)
  BY <1>3, <1>4, <1>9, SumIsWeight DEF h
<1>11. Weight(g, T) = Sum(c, F)
  BY <1>7, <1>8, <1>10
<1> QED
  BY <1>11 DEF T, g, F

\* "Statistics can be printed or reset when there is no traffic being handled"
\* (README.md:114-115): a report that met no traffic and no reset (main.c),
\* after resets that met none, shows for each lcore the events since the last
\* reset, and their sums.
THEOREM ReportAlwaysTrue == Spec => []ReportIsTrue
<1>1. ASSUME Consistent, Truth
      PROVE  ReportIsTrue
  <2> SUFFICES ASSUME print.pos.on, AtEnd(print.pos), print.pos.quiet, clean,
                      NEW c \in Fields
               PROVE  /\ \A l \in Forwarding :
                           print.line[l][c] = (total[l][c] - base[l][c]) % Width
                      /\ print.sum[c] = Sum(c, Forwarding) % Width
    BY ReportBySum
  <2>1. /\ TypeOK /\ BasesOK /\ LinesOK /\ SumsOK /\ print.part # "add"
        /\ print.pos.lcore = NbLcores
    BY <1>1 DEF Consistent, Truth, ReportOK, AtEnd
  <2>2. PICK k \in DOMAIN Counters : c = Counters[k]
    BY DEF Fields
  <2>3. \A l \in Forwarding : l \in enabled /\ Lined(l, k)
    BY <2>1 DEF Forwarding, Lined, Passed
  <2>4. \A l \in Forwarding : print.line[l][c] = (total[l][c] - base[l][c]) % Width
    BY <2>1, <2>2, <2>3 DEF LinesOK, Shows, Diff
  <2>5. Added(k) = {l \in enabled : l < NbLcores}
    BY <2>1 DEF Added
  <2>6. print.sum[c] = Sum(c, Forwarding) % Width
    BY <2>1, <2>2, <2>5, SumShown DEF SumsOK
  <2> QED
    BY <2>4, <2>6
<1> QED
  BY <1>1, StatsConsistent, StatsTruthful, PTL
=============================================================================
