----------------------------- MODULE Forwarder -----------------------------
(***************************************************************************)
(* One forwarding lcore (main/data_plane.c): it polls its RX queues, runs  *)
(* icn_fwd on every packet, batches packets for transmission in one table  *)
(* per face (tx_mbufs) and hands the tables to the NIC.                    *)
(*                                                                         *)
(* The lcore owns its CS and PIT and runs each handler to completion, so a *)
(* handler is one action, split by the way it ends.  What is concurrent is *)
(* the NIC, which puts frames on the wire whenever it likes, and the other *)
(* lcores of the socket, which share its mbuf pool (init.c:116-140).       *)
(* The driver releases the mbufs of transmitted frames only when the lcore *)
(* hands it the next burst for the same port.                              *)
(*                                                                         *)
(* CS and PIT are the abstract ones, ContentStore and PendingInterests,    *)
(* which Cs and Pit implement.  The FIB is any answer: the control plane   *)
(* may change it at any moment.  Packets are abstracted to mbufs with a    *)
(* reference count and the face whose MAC addresses are in the header.     *)
(***************************************************************************)
EXTENDS Integers, Sequences, FiniteSets

CONSTANTS
  Names,        \* content names
  Faces,        \* ports; numbers, the code scans a bitmask from 0 up
  Mbufs,        \* the mbuf pool of the socket, less what RX queues hold
  NoMbuf,       \* NULL
  Hash, Ways,   \* bucket of each name in the CS, slots per bucket
  Capacity,     \* packets the CS holds
  MaxBurst,     \* MAX_PKT_BURST
  NicRing,      \* descriptors of a NIC transmit queue
  CounterMod    \* counters are taken modulo this; 2^32 in the code

\* Without a port to use, start-up ends the program (init.c:353).
ASSUME FacesAssumption == /\ Faces \subseteq Nat /\ IsFiniteSet(Faces)
                          /\ Faces # {}
ASSUME SizesAssumption ==
  /\ {Capacity, Ways, MaxBurst, CounterMod} \subseteq Nat \ {0}
  /\ NicRing \in Nat
  /\ MaxBurst < CounterMod
ASSUME PoolAssumption == NoMbuf \notin Mbufs /\ IsFiniteSet(Mbufs)

\* struct stats, and how many frames left on the wire.
Counters == {"int_recv", "int_cs_hit", "int_pit_hit", "int_fib_hit",
             "int_fib_loop", "int_no_route", "data_recv", "data_sent",
             "data_pit_miss", "nic_pkt_drop", "sw_pkt_drop", "malformed",
             "wire"}

VARIABLES
  store, csret,     \* the CS and what its last call returned
  pending, pitret,  \* the PIT and what its last call returned
  ref,              \* reference count of each mbuf; 0: free, in the pool
  mac,              \* mac[m]: the face whose addresses the header carries
  tx,               \* tx[p]: tx_mbufs[p], the mbufs queued for face p
  nic,              \* nic[p]: mbufs given to the NIC, not transmitted yet
  done,             \* done[p]: transmitted, not released by the driver yet
  lent,             \* mbufs that the other lcores of the socket hold
  lost,             \* history: mbufs whose packet the CS refused
  stats             \* the counters, modulo CounterMod

vars == <<store, csret, pending, pitret, ref, mac, tx, nic, done, lent, lost,
          stats>>

\* Which call was last is of no interest here.
Cs  == INSTANCE ContentStore WITH ret <- csret, call <- <<>>
Pit == INSTANCE PendingInterests WITH ret <- pitret, call <- <<>>

-----------------------------------------------------------------------------
(* Buffers and counters.                                                   *)

\* Where the queues q hold buffers, and how many times they hold m.
Places(q)  == UNION {{p} \X DOMAIN q[p] : p \in Faces}
Uses(m, q) == Cardinality({x \in Places(q) : q[x[1]][x[2]] = m})

\* Buffers that the pool can give to a receive queue.
FreeMbufs == {m \in Mbufs : ref[m] = 0}

One(m) == [x \in Mbufs |-> IF x = m THEN 1 ELSE 0]

\* Faulty variant of Counted: NIC drops are not counted.
CountedNoDrops(c, n, d) ==
  [k \in Counters |->
     (stats[k] + (IF k \in c THEN 1 ELSE 0)
               + (IF k = "data_sent" THEN n ELSE 0)) % CounterMod]

\* The counters after one more of each counter in c, n more Data sent and d
\* more packets dropped by the NIC.
Counted(c, n, d) ==
  [k \in Counters |->
     (stats[k] + (IF k \in c THEN 1 ELSE 0)
               + (IF k = "data_sent" THEN n ELSE 0)
               + (IF k = "nic_pkt_drop" THEN d ELSE 0)) % CounterMod]

(* send_burst.  The driver first releases some of the mbufs it has done     *)
(* with: R[p] of port p.  The NIC then takes as many mbufs as its queue has *)
(* room for (rte_eth_tx_burst); those it does not take are freed and       *)
(* counted.                                                                *)

Releases(B) == {R \in [Faces -> 0 .. NicRing] :
                  \A p \in Faces : R[p] <= IF p \in B THEN Len(done[p]) ELSE 0}

Released(R) == [p \in Faces |-> SubSeq(done[p], 1, R[p])]
Kept(R)     == [p \in Faces |-> SubSeq(done[p], R[p] + 1, Len(done[p]))]

Room(p, R) == NicRing - Len(nic[p]) - (Len(done[p]) - R[p])

Taken(q, p, R) == IF Len(q[p]) <= Room(p, R) THEN Len(q[p]) ELSE Room(p, R)

Accepted(q, B, R) == [p \in Faces |-> IF p \in B
                                      THEN SubSeq(q[p], 1, Taken(q, p, R))
                                      ELSE <<>>]

\* Faulty variants of Refused: every packet of the burst is freed, also those
\* the NIC took; no packet is freed.
RefusedAll(q, B, R)  == [p \in Faces |->
                           IF p \in B /\ Taken(q, p, R) < Len(q[p])
                           THEN q[p]
                           ELSE <<>>]
RefusedNone(q, B, R) == [p \in Faces |-> <<>>]

Refused(q, B, R) == [p \in Faces |->
                       IF p \in B
                       THEN SubSeq(q[p], Taken(q, p, R) + 1, Len(q[p]))
                       ELSE <<>>]

\* The queues q, with those of B handed to the NIC; gain is what the rest of
\* the handler adds to the reference counts, c and n what it counts.
Transmit(q, B, gain, c, n) ==
  \E R \in Releases(B) :
    /\ tx' = [p \in Faces |-> IF p \in B THEN <<>> ELSE q[p]]
    /\ nic' = [p \in Faces |-> nic[p] \o Accepted(q, B, R)[p]]
    /\ done' = Kept(R)
    /\ ref' = [m \in Mbufs |-> ref[m] + gain[m] - Uses(m, Released(R))
                                - Uses(m, Refused(q, B, R))]
    /\ stats' = Counted(c, n, Cardinality(Places(Refused(q, B, R))))

\* send_single_packet for each face of F: m is queued, and a table that
\* reaches MaxBurst is sent at once.  Without a face, nothing is queued.
Send(F, m, gain, c, n) ==
  LET q == [p \in Faces |-> IF p \in F THEN Append(tx[p], m) ELSE tx[p]]
  IN Transmit(q, {p \in F : Len(q[p]) = MaxBurst}, gain, c, n)

\* The handler queues nothing and leaves every reference count as it was: the
\* received mbuf is taken from the pool and freed again.
FreeReceived(c) ==
  /\ FreeMbufs # {}
  /\ stats' = Counted(c, 0, 0)
  /\ UNCHANGED <<ref, tx, nic, done, mac, lent, lost>>

-----------------------------------------------------------------------------
(* pkt_fwd_loop before its first iteration.                                *)

Init ==
  /\ Cs!Init
  /\ Pit!Init
  /\ ref = [m \in Mbufs |-> 0]
  /\ mac = [m \in Mbufs |-> CHOOSE p \in Faces : TRUE]
  /\ tx = [p \in Faces |-> <<>>]
  /\ nic = [p \in Faces |-> <<>>]
  /\ done = [p \in Faces |-> <<>>]
  /\ lent = {}
  /\ lost = {}
  /\ stats = [k \in Counters |-> 0]

(* icn_fwd on a packet received on face p.                                 *)

\* Not IPv4, not ICN, or neither an Interest nor Data.
Malformed ==
  /\ FreeReceived({"malformed"})
  /\ UNCHANGED <<store, csret, pending, pitret>>

\* Faulty variant of InterestCsHit: no reference is added for the send.
InterestCsHitNoRef(p, n) ==
  /\ FreeMbufs # {}
  /\ Cs!Find(n)
  /\ csret'.mbuf # NoMbuf
  /\ mac' = [mac EXCEPT ![csret'.mbuf] = p]
  /\ Send({p}, csret'.mbuf, [m \in Mbufs |-> 0], {"int_recv", "int_cs_hit"}, 1)
  /\ UNCHANGED <<pending, pitret, lent, lost>>

\* Interest answered from the cache.  The cached mbuf itself is sent: its
\* header is rewritten in place, for the face that asks.
InterestCsHit(p, n) ==
  /\ FreeMbufs # {}
  /\ Cs!Find(n)
  /\ csret'.mbuf # NoMbuf
  /\ mac' = [mac EXCEPT ![csret'.mbuf] = p]
  /\ Send({p}, csret'.mbuf, One(csret'.mbuf), {"int_recv", "int_cs_hit"}, 1)
  /\ UNCHANGED <<pending, pitret, lent, lost>>

\* Faulty variant of CsMiss: the cache is not asked.
CsNotAsked(n) == csret' = csret /\ UNCHANGED store

CsMiss(n) == Cs!Find(n) /\ csret'.mbuf = NoMbuf

\* Interest for a pending name.
InterestAggregated(p, n) ==
  /\ CsMiss(n)
  /\ Pit!Aggregate(n, p)
  /\ FreeReceived({"int_recv", "int_pit_hit"})

\* Interest that the PIT has no room for.
InterestRefused(p, n) ==
  /\ CsMiss(n)
  /\ Pit!Refuse(n)
  /\ FreeReceived({"int_recv", "sw_pkt_drop"})

\* Faulty variant of InterestUnroutable: the PIT entry stays.
InterestUnroutableKept(p, n, c) ==
  /\ CsMiss(n)
  /\ Pit!Record(n, p)
  /\ FreeReceived({"int_recv", c})

\* A new Interest that has no route, or whose route points back to p.  The
\* PIT entry just made is removed again.
InterestUnroutable(p, n, c) ==
  /\ CsMiss(n)
  /\ n \notin DOMAIN pending
  /\ pending' = Pit!Without(Pit!With(pending, n, p), {n})
  /\ pitret' = Pit!Answer(0, {p})
  /\ FreeReceived({"int_recv", c})

InterestNoRoute(p, n) == InterestUnroutable(p, n, "int_no_route")
InterestLoop(p, n)    == InterestUnroutable(p, n, "int_fib_loop")

\* A new Interest, queued for face q.  The PIT entry stays whatever becomes of
\* it: the NIC may refuse it, in this step or when the batch is drained.
InterestForwarded(p, n, q) ==
  /\ CsMiss(n)
  /\ Pit!Record(n, p)
  /\ q # p
  /\ \E m \in FreeMbufs :
       /\ mac' = [mac EXCEPT ![m] = q]
       /\ Send({q}, m, One(m), {"int_recv", "int_fib_hit"}, 0)
  /\ UNCHANGED <<lent, lost>>

\* Data.  It is cached first; what the cache answers is not looked at.  The
\* faces waiting for it are then served in increasing order, all with the
\* one mbuf: its header ends up with the addresses of the last.
Data(n) ==
  \E m \in FreeMbufs :
    LET F == IF n \in DOMAIN pending THEN pending[n] ELSE {}
        evicted == csret'.freed
    IN /\ \/ Cs!Store(n, m) /\ lost' = lost
          \/ Cs!Refuse(n) /\ lost' = lost \cup {m}
       /\ Pit!Take(n)
       /\ mac' = IF F = {} THEN mac
                 ELSE [mac EXCEPT ![m] = CHOOSE p \in F : \A r \in F : r <= p]
       /\ Send(F, m,
               [x \in Mbufs |-> (1 + Cardinality(F)) * One(m)[x]
                                - (IF x = evicted THEN 1 ELSE 0)],
               IF F = {} THEN {"data_recv", "data_pit_miss"}
                         ELSE {"data_recv"},
               Cardinality(F))
       /\ UNCHANGED lent

(* The rest of pkt_fwd_loop: every BURST_TX_DRAIN_US all transmit tables   *)
(* are sent and the PIT is purged.  The second purge of the loop, every    *)
(* PIT_PURGE_US, is never due: the drain period is shorter and purges too. *)

\* Faulty variant of Drain: only full batches are sent.
DrainFullOnly ==
  /\ Transmit(tx, {p \in Faces : Len(tx[p]) = MaxBurst},
              [m \in Mbufs |-> 0], {}, 0)
  /\ \E S \in SUBSET DOMAIN pending :
       Pit!Drop(S) /\ pitret' = Pit!Answer(Cardinality(S), {})
  /\ UNCHANGED <<store, csret, mac, lent, lost>>

Drain ==
  /\ Transmit(tx, {p \in Faces : tx[p] # <<>>}, [m \in Mbufs |-> 0], {}, 0)
  /\ \E S \in SUBSET DOMAIN pending :
       Pit!Drop(S) /\ pitret' = Pit!Answer(Cardinality(S), {})
  /\ UNCHANGED <<store, csret, mac, lent, lost>>

\* The NIC puts the oldest frame of a queue on the wire.  Its mbuf waits for
\* the next burst to be released.
Transmitted(p) ==
  /\ nic[p] # <<>>
  /\ nic' = [nic EXCEPT ![p] = Tail(@)]
  /\ done' = [done EXCEPT ![p] = Append(@, Head(nic[p]))]
  /\ stats' = Counted({"wire"}, 0, 0)
  /\ UNCHANGED <<store, csret, pending, pitret, ref, mac, tx, lent, lost>>

\* Another lcore of the socket takes a buffer of the pool, or gives one back.
Shared(m) ==
  /\ \/ /\ m \in FreeMbufs
        /\ lent' = lent \cup {m}
        /\ ref' = [ref EXCEPT ![m] = 1]
     \/ /\ m \in lent
        /\ lent' = lent \ {m}
        /\ ref' = [ref EXCEPT ![m] = @ - 1]
  /\ UNCHANGED <<store, csret, pending, pitret, mac, tx, nic, done, lost, stats>>

Receive ==
  \/ Malformed
  \/ \E n \in Names :
       \/ Data(n)
       \/ \E p \in Faces :
            \/ InterestCsHit(p, n)
            \/ InterestAggregated(p, n)
            \/ InterestRefused(p, n)
            \/ InterestNoRoute(p, n)
            \/ InterestLoop(p, n)
            \/ \E q \in Faces : InterestForwarded(p, n, q)

Next ==
  \/ Receive
  \/ Drain
  \/ \E p \in Faces : Transmitted(p)
  \/ \E m \in Mbufs : Shared(m)

Spec == Init /\ [][Next]_vars

\* The loop runs forever and reads the clock every time around.  Nothing is
\* assumed of the NIC or of the other lcores.
FairSpec == Spec /\ WF_vars(Drain)

-----------------------------------------------------------------------------
(* Properties.                                                             *)

\* Type invariant of every variable above.
TypeOK ==
  /\ store \in Seq(Cs!Packet)
  /\ pending \in UNION {[S -> SUBSET Faces] : S \in SUBSET Names}
  /\ ref \in [Mbufs -> Nat]
  /\ mac \in [Mbufs -> Faces]
  /\ tx \in [Faces -> Seq(Mbufs)]
  /\ nic \in [Faces -> Seq(Mbufs)]
  /\ done \in [Faces -> Seq(Mbufs)]
  /\ lent \subseteq Mbufs /\ lost \subseteq Mbufs
  /\ stats \in [Counters -> 0 .. CounterMod - 1]

\* How many references to m the store, the transmit tables, the driver and
\* the other lcores hold.
Holders(m) ==
  Cardinality({k \in DOMAIN store : store[k].mbuf = m})
    + Uses(m, tx) + Uses(m, nic) + Uses(m, done) + (IF m \in lent THEN 1 ELSE 0)

\* No dangling pointer: a buffer that the store, a transmit table or the NIC
\* points at is never back in the pool ("otherwise the mbuf is freed and the
\* CS will have a dangling pointer", data_plane.c:359-366).
NoDanglingMbuf == \A m \in Mbufs : Holders(m) <= ref[m]

\* No leak: a buffer out of the pool is reachable, so it comes back some day
\* ("Quit without freeing the mbuf because the packet is in the CS",
\* data_plane.c:352-353).
NoLeakedMbuf == \A m \in Mbufs : ref[m] <= Holders(m)

\* Every reference is accounted for, packets the CS refuses included: such a
\* packet keeps the one reference that the handler left it for the CS
\* (data_plane.c:348-356), once and for ever, and no other reference is lost.
ReferencesAccounted ==
  \A m \in Mbufs : ref[m] = Holders(m) + (IF m \in lost THEN 1 ELSE 0)

\* What this lcore keeps out of the pool of the socket, and the most that it
\* needs: its cache, its batches and its transmit rings.
Share  == {m \in Mbufs : ref[m] > 0} \ (lent \cup lost)
Demand == Capacity + Cardinality(Faces) * (MaxBurst - 1 + NicRing)

\* However traffic, refusals and the other lcores go, an lcore takes no more of
\* the shared pool than its cache, batches and rings have room for, buffers
\* that the CS refused aside.  The pool has 8192, a cache alone holds 4096
\* (defaults.h:147-149, 173-175).
ShareIsBounded == Cardinality(Share) <= Demand

\* A name becomes pending only as its Interest, in a buffer that was free,
\* leaves for a face other than the one that asked: it is in a batch or with
\* the NIC, or the NIC refused it and that is counted.  An Interest dropped
\* for want of room, of a route or for a loop leaves nothing behind that would
\* swallow later Interests for the name (data_plane.c:293-334).
PendingIsForwarded ==
  [][\A n \in DOMAIN pending' \ DOMAIN pending :
       \E q \in Faces \ pending'[n], m \in FreeMbufs :
         \/ \E i \in DOMAIN tx'[q] : tx'[q][i] = m
         \/ \E i \in DOMAIN nic'[q] : nic'[q][i] = m
         \/ stats'["nic_pkt_drop"] # stats["nic_pkt_drop"]]_vars

\* No consumer waits for content that is here: cache lookup, PIT update, and
\* the Data that enters the one as it leaves the other (data_plane.c:260-356)
\* never let a name be cached and pending at once.
PendingNotCached == \A k \in DOMAIN store : store[k].name \notin DOMAIN pending

\* Every Interest is counted under exactly one outcome, modulo 2^32 however
\* often the counters wrap.
InterestsBalance ==
  (stats["int_recv"] - stats["int_cs_hit"] - stats["int_pit_hit"]
     - stats["int_fib_hit"] - stats["int_fib_loop"] - stats["int_no_route"]
     - stats["sw_pkt_drop"]) % CounterMod

\* Every packet sent is on the wire, queued, or counted as dropped.
FramesBalance ==
  (stats["data_sent"] + stats["int_fib_hit"] - stats["wire"]
     - stats["nic_pkt_drop"] - Cardinality(Places(tx))
     - Cardinality(Places(nic))) % CounterMod

\* The two balances are zero at start and no step changes them.
StatsBalance ==
  [][InterestsBalance' = InterestsBalance /\ FramesBalance' = FramesBalance]_vars

\* The frame that a face transmits carries that face's own MAC addresses
\* ("local and remote MAC addresses associated to each port", init.h).
FrameHasPortAddress ==
  [][\A p \in Faces : Transmitted(p) => mac[Head(nic[p])] = p]_vars

\* Batching delays a packet, it does not hold it: a transmit table is emptied
\* again and again ("the maximum delay a packet can wait in the batching
\* queue", data_plane.c:404-409).
BatchesLeave == \A p \in Faces : []<>(tx[p] = <<>>)
=============================================================================
