--------------------------------- MODULE Cs ---------------------------------
(***************************************************************************)
(* The Content Store of one forwarding lcore (lib/cs/cs.c, lib/cs/cs.h): a *)
(* cache of Data packets, kept as a hash table whose slots point into a    *)
(* circular log ordered by insertion, and evicted first in, first out.     *)
(*                                                                         *)
(* The store holds one reference to the mbuf of each packet.  It drops that*)
(* reference (rte_pktmbuf_free) on eviction only; a refused insertion      *)
(* leaves the reference with the caller.  One operation is one action: a CS*)
(* belongs to one lcore.                                                   *)
(*                                                                         *)
(* Names have at most MAX_NAME_LEN (33) bytes here.  The code does not look*)
(* at the length when it copies a name (cs.c:94-95): the mbuf pointer is   *)
(* then stored over the end of a longer one, which no lookup matches again,*)
(* and one of more than 57 bytes runs into the next entry of the ring.     *)
(***************************************************************************)
EXTENDS CircularLog, FiniteSets

CONSTANTS
  Names,        \* content names
  NoName,       \* the name of ring memory never written
  Crc,          \* rte_hash_crc: the CRC of each name; names may collide
  NumBuckets,   \* num_buckets given to cs_create
  BucketSize,   \* BUCKET_SIZE: slots per bucket
  Mbufs,        \* packet buffers
  NoMbuf        \* NULL

ASSUME SizesAssumption ==
  NumBuckets \in Nat \ {0} /\ BucketSize \in Nat \ {0}
ASSUME NamesAssumption == NoName \notin Names /\ NoMbuf \notin Mbufs
ASSUME CrcAssumption == Crc \in [Names -> Nat]

\* errno.h
ENOSPC == 28

Buckets == 0 .. NumBuckets - 1
Tabs    == 0 .. BucketSize - 1
Slots   == Buckets \X Tabs

TableEntry == [crc : Nat, index : RingIdx]
RingEntry  == [active : BOOLEAN, bucket : Buckets, tab : Tabs,
               name : Names \cup {NoName}, mbuf : Mbufs \cup {NoMbuf}]

VARIABLES
  busy,     \* the table slots whose busy flag is set
  entry,    \* entry[<<bucket, tab>>]: crc and ring index of a table slot
  ring,     \* the circular log
  top,      \* ring index the next packet is written at
  bottom,   \* ring index of the oldest packet
  ret,      \* what the last call returned: a code, a packet, and the mbuf
            \* it gave to rte_pktmbuf_free
  call      \* history: the call that was made last, with its arguments

vars == <<busy, entry, ring, top, bottom, ret, call>>

-----------------------------------------------------------------------------
(* Helpers.                                                                *)

\* The bucket of a name: crc % num_buckets.
BucketOf(n) == Crc[n] % NumBuckets

\* Position of a ring index counted from bottom, and the indices in use.
Pos(i) == Dist(bottom, i)
Window == {i \in RingIdx : Pos(i) < Pos(top)}
Active == {i \in RingIdx : ring[i].active}

\* Faulty variant of IsFull: one slot too early.
IsFullEarly == Succ(Succ(top)) = bottom

IsFull == Succ(top) = bottom

\* The mbufs the store holds a reference to.
Held == {ring[i].mbuf : i \in Active}

Matches(n) == {s \in busy : /\ s[1] = BucketOf(n)
                            /\ entry[s].crc = Crc[n]
                            /\ ring[entry[s].index].name = n}

\* The scan of a bucket goes up from tab 0: the first slot of S.
IsFirst(s, S) == s \in S /\ \A r \in S : s[2] <= r[2]

FreeSlots(n) == {s \in Slots \ busy : s[1] = BucketOf(n)}

Answer(c, hit, freed) == [code |-> c, mbuf |-> hit, freed |-> freed]

-----------------------------------------------------------------------------

\* cs_create: zeroed memory.
Init ==
  /\ busy = {}
  /\ entry = [s \in Slots |-> [crc |-> 0, index |-> 0]]
  /\ ring = [i \in RingIdx |-> [active |-> FALSE, bucket |-> 0, tab |-> 0,
                                name |-> NoName, mbuf |-> NoMbuf]]
  /\ top = 0
  /\ bottom = 0
  /\ ret = Answer(0, NoMbuf, NoMbuf)
  /\ call = <<>>

\* Faulty variants of InsertAt: the evicted packet's table slot stays busy;
\* the buffer freed is the one at top.
InsertKeepsSlot(s, n, m) ==
  /\ busy' = busy \cup {s}
  /\ entry' = [entry EXCEPT ![s] = [crc |-> Crc[n], index |-> top]]
  /\ ring' = [i \in RingIdx |->
                IF i = top
                THEN [active |-> TRUE, bucket |-> s[1], tab |-> s[2],
                      name |-> n, mbuf |-> m]
                ELSE IF IsFull /\ i = bottom
                     THEN [ring[i] EXCEPT !.active = FALSE]
                     ELSE ring[i]]
  /\ bottom' = IF IsFull THEN Succ(bottom) ELSE bottom
  /\ top' = Succ(top)
  /\ ret' = Answer(0, NoMbuf, IF IsFull THEN ring[bottom].mbuf ELSE NoMbuf)

InsertFreesTop(s, n, m) ==
  LET slot == <<ring[bottom].bucket, ring[bottom].tab>>
  IN /\ busy' = (IF IsFull THEN busy \ {slot} ELSE busy) \cup {s}
     /\ entry' = [entry EXCEPT ![s] = [crc |-> Crc[n], index |-> top]]
     /\ ring' = [i \in RingIdx |->
                   IF i = top
                   THEN [active |-> TRUE, bucket |-> s[1], tab |-> s[2],
                         name |-> n, mbuf |-> m]
                   ELSE IF IsFull /\ i = bottom
                        THEN [ring[i] EXCEPT !.active = FALSE]
                        ELSE ring[i]]
     /\ bottom' = IF IsFull THEN Succ(bottom) ELSE bottom
     /\ top' = Succ(top)
     /\ ret' = Answer(0, NoMbuf, IF IsFull THEN ring[top].mbuf ELSE NoMbuf)

\* cs_insert_with_hash takes the first free slot of the bucket; if the ring
\* is full the oldest packet leaves first.  The slot was chosen before, so
\* it is another one than the slot that the eviction frees.  The mbuf comes
\* from the pool: it is not one the store already holds.
InsertAt(s, n, m) ==
  LET slot   == <<ring[bottom].bucket, ring[bottom].tab>>
      oldest == IF IsFull THEN {bottom} ELSE {}
  IN /\ busy' = (busy \ {slot : i \in oldest}) \cup {s}
     /\ entry' = [entry EXCEPT ![s] = [crc |-> Crc[n], index |-> top]]
     /\ ring' = [i \in RingIdx |->
                   IF i = top
                   THEN [active |-> TRUE, bucket |-> s[1], tab |-> s[2],
                         name |-> n, mbuf |-> m]
                   ELSE IF i \in oldest
                        THEN [ring[i] EXCEPT !.active = FALSE]
                        ELSE ring[i]]
     /\ bottom' = IF IsFull THEN Succ(bottom) ELSE bottom
     /\ top' = Succ(top)
     /\ ret' = Answer(0, NoMbuf, IF IsFull THEN ring[bottom].mbuf ELSE NoMbuf)

Insert(n, m) ==
  /\ m \notin Held
  /\ \E s \in FreeSlots(n) : IsFirst(s, FreeSlots(n)) /\ InsertAt(s, n, m)

\* Every slot of the bucket is busy: refused, even if the ring is full and
\* the packet to evict is in this very bucket.
Refuse(n) ==
  /\ FreeSlots(n) = {}
  /\ ret' = Answer(-ENOSPC, NoMbuf, NoMbuf)
  /\ UNCHANGED <<busy, entry, ring, top, bottom>>

\* cs_lookup_with_hash returns the mbuf of the first matching slot.
Lookup(n) ==
  /\ \/ \E s \in Matches(n) :
          /\ IsFirst(s, Matches(n))
          /\ ret' = Answer(0, ring[entry[s].index].mbuf, NoMbuf)
     \/ /\ Matches(n) = {}
        /\ ret' = Answer(0, NoMbuf, NoMbuf)
  /\ UNCHANGED <<busy, entry, ring, top, bottom>>

Next ==
  \E n \in Names :
    \/ \E m \in Mbufs : /\ Insert(n, m) \/ Refuse(n)
                       /\ call' = <<"insert", n, m>>
    \/ Lookup(n) /\ call' = <<"lookup", n>>

Spec == Init /\ [][Next]_vars

-----------------------------------------------------------------------------
(* Properties.                                                             *)

\* Type invariant of every variable but call.
TypeOK ==
  /\ busy \subseteq Slots
  /\ entry \in [Slots -> TableEntry]
  /\ ring \in [RingIdx -> RingEntry]
  /\ top \in RingIdx
  /\ bottom \in RingIdx
  /\ ret \in [code : {0, -ENOSPC}, mbuf : Mbufs \cup {NoMbuf},
              freed : Mbufs \cup {NoMbuf}]

\* Every busy table slot leads to an active ring entry that leads back to
\* it, holds a packet, and hashes to that slot's bucket.
SlotsPointIntoRing ==
  \A s \in busy :
    LET i == entry[s].index IN
    /\ ring[i].active
    /\ s = <<ring[i].bucket, ring[i].tab>>
    /\ ring[i].name \in Names
    /\ ring[i].mbuf \in Mbufs
    /\ entry[s].crc = Crc[ring[i].name]
    /\ s[1] = BucketOf(ring[i].name)

\* Every active ring entry is reachable from the slot it names.
RingPointsIntoTable ==
  \A i \in Active :
    LET s == <<ring[i].bucket, ring[i].tab>> IN
    s \in busy /\ entry[s].index = i

\* Packets leave in the order they came, so the log has no holes.
NoHoles == Active = Window

\* Table and ring agree: an eviction frees the slot of the packet it evicts
\* and no other, so no packet stays in the ring out of lookup's reach and no
\* slot leads to a packet that was freed (cs.c:76-84).
TableAgreesWithRing ==
  SlotsPointIntoRing /\ RingPointsIntoTable /\ NoHoles

\* The store holds one reference to each mbuf: freeing the oldest packet
\* cannot pull a buffer from under a younger one.
HeldOnce ==
  \A i, j \in Active : ring[i].mbuf = ring[j].mbuf => i = j

\* The inductive invariant behind the theorems of module CsProofs.
Consistent == TypeOK /\ TableAgreesWithRing /\ HeldOnce

\* The store drops its reference to a packet exactly when it forgets it:
\* none is freed while still cached, none is forgotten without being freed.
FreedWhenForgotten ==
  [][Held \ Held' = {ret'.freed} \ {NoMbuf}]_vars

-----------------------------------------------------------------------------
(* The CS implements the queue of module ContentStore.                     *)

store == [k \in 1 .. Pos(top) |->
            LET r == ring[(bottom + k - 1) % RingSize] IN
            [name |-> r.name, mbuf |-> r.mbuf]]

Abs == INSTANCE ContentStore
         WITH Hash <- [n \in Names |-> BucketOf(n)],
              Ways <- BucketSize,
              Capacity <- MaxElements

\* Insertions, evictions, refusals and lookups are those of the queue.
ImplementsContentStore == Abs!Spec
=============================================================================
