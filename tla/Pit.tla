-------------------------------- MODULE Pit --------------------------------
(***************************************************************************)
(* The Pending Interest Table of one forwarding lcore (lib/pit/pit.c and   *)
(* lib/pit/pit.h): a hash table of fixed-size buckets whose slots point    *)
(* into a circular log ("ring") of entries ordered by insertion.           *)
(*                                                                         *)
(* Lookups go through the table, expiry goes through the ring.  The two    *)
(* structures point at each other and every operation updates both, so     *)
(* the questions this module asks are whether they can drift apart, and    *)
(* whether the ring's insertion order is enough to expire entries.         *)
(*                                                                         *)
(* A PIT belongs to one lcore, which runs every operation to completion:   *)
(* one operation is one action.                                            *)
(*                                                                         *)
(* Names have at most MAX_NAME_LEN (33) bytes here.  The code does not look*)
(* at the length when it copies a name (pit.c:168-169): face_bitmask is    *)
(* then stored over the end of a longer one, which no lookup matches again,*)
(* and one of more than 49 bytes runs into the next entry of the ring.     *)
(***************************************************************************)
EXTENDS CircularLog, FiniteSets

CONSTANTS
  Names,        \* content names
  NoName,       \* the name of ring memory never written
  Faces,        \* faces an Interest may come from (the bits of face_bitmask)
  Crc,          \* rte_hash_crc: the CRC of each name; names may collide
  NumBuckets,   \* num_buckets given to pit_create
  BucketSize,   \* BUCKET_SIZE: slots per bucket
  TTLs,         \* the values pit_create and pit_set_ttl_us are given
  MaxTime       \* bound of the model: the last clock value explored

ASSUME SizesAssumption ==
  /\ NumBuckets \in Nat \ {0}
  /\ BucketSize \in Nat \ {0}
  /\ MaxTime \in Nat
ASSUME NamesAssumption == NoName \notin Names
ASSUME CrcAssumption == Crc \in [Names -> Nat]
ASSUME TTLAssumption == TTLs \subseteq Nat

\* errno.h, the error both tables return for "no space"
ENOSPC == 28

Buckets == 0 .. NumBuckets - 1
Tabs    == 0 .. BucketSize - 1
Slots   == Buckets \X Tabs

TableEntry == [crc : Nat, index : RingIdx]
RingEntry  == [active : BOOLEAN, bucket : Buckets, tab : Tabs,
               expiry : Nat, name : Names \cup {NoName}, faces : SUBSET Faces]

VARIABLES
  busy,     \* the table slots whose busy flag is set
  entry,    \* entry[<<bucket, tab>>]: crc and ring index of a table slot
  ring,     \* the circular log
  top,      \* ring index the next entry is written at
  bottom,   \* ring index of the oldest entry
  ttl,      \* TTL applied to new entries
  now,      \* the CPU time stamp counter
  born,     \* history: the time each ring entry was inserted at
  ret,      \* what the last call returned: a code, and a face bitmask
  call      \* history: the call that was made last, with its arguments

table == <<busy, entry>>
vars  == <<busy, entry, ring, top, bottom, ttl, now, born, ret,
           call>>

-----------------------------------------------------------------------------
(* Helpers.                                                                *)

\* The bucket of a name: crc % num_buckets.
BucketOf(n) == Crc[n] % NumBuckets

\* Position of a ring index counted from bottom, and the indices in use.
Pos(i) == Dist(bottom, i)
Window == {i \in RingIdx : Pos(i) < Pos(top)}

IsFull == Succ(top) = bottom

\* Faulty variant of Matches: the scan ends at the first free slot.
MatchesUpToHole(n) ==
  {s \in busy : /\ s[1] = BucketOf(n)
                /\ \A t \in 0 .. s[2] : <<s[1], t>> \in busy
                /\ entry[s].crc = Crc[n]
                /\ ring[entry[s].index].name = n}

\* The slots of n's bucket that match n: busy, same CRC, same stored name.
Matches(n) == {s \in busy : /\ s[1] = BucketOf(n)
                            /\ entry[s].crc = Crc[n]
                            /\ ring[entry[s].index].name = n}

\* The scan of a bucket goes up from tab 0: the first slot of S.
IsFirst(s, S) == /\ s \in S
                 /\ \A r \in S : s[2] <= r[2]

FreeSlots(n) == {s \in Slots \ busy : s[1] = BucketOf(n)}

\* The entries in use.
Active == {i \in RingIdx : ring[i].active}

\* Faulty variant of Valid: an entry lives one tick longer than its TTL.
ValidTooLong(i, t) == ring[i].active /\ ring[i].expiry >= t

\* An entry that stops the purge: active and still valid at time t.
Valid(i, t) == ring[i].active /\ ring[i].expiry > t

-----------------------------------------------------------------------------
(* pit_create: zeroed memory.                                              *)

Init ==
  /\ busy = {}
  /\ entry = [s \in Slots |-> [crc |-> 0, index |-> 0]]
  /\ ring = [i \in RingIdx |-> [active |-> FALSE, bucket |-> 0, tab |-> 0,
                                expiry |-> 0, name |-> NoName, faces |-> {}]]
  /\ top = 0
  /\ bottom = 0
  /\ ttl \in TTLs
  /\ now = 0
  /\ born = [i \in RingIdx |-> 0]
  /\ ret = [code |-> 0, faces |-> {}]
  /\ call = <<>>

(* pit_lookup_and_update_with_hash, one action per way it returns.         *)

\* Faulty variants of Aggregate: the expiry is refreshed; the bitmask is
\* assigned instead of or-ed.
AggregateRefreshing(n, f) ==
  \E s \in Matches(n) :
    /\ IsFirst(s, Matches(n))
    /\ ring' = [ring EXCEPT ![entry[s].index].faces = @ \cup {f},
                            ![entry[s].index].expiry = now + ttl]
    /\ ret' = [code |-> 0, faces |-> {}]
    /\ UNCHANGED <<busy, entry, top, bottom, ttl, now, born>>

AggregateAssigning(n, f) ==
  \E s \in Matches(n) :
    /\ IsFirst(s, Matches(n))
    /\ ring' = [ring EXCEPT ![entry[s].index].faces = {f}]
    /\ ret' = [code |-> 0, faces |-> {}]
    /\ UNCHANGED <<busy, entry, top, bottom, ttl, now, born>>

\* The name is pending: its face is added, the expiry is left alone.
Aggregate(n, f) ==
  \E s \in Matches(n) :
    /\ IsFirst(s, Matches(n))
    /\ ring' = [ring EXCEPT ![entry[s].index].faces = @ \cup {f}]
    /\ ret' = [code |-> 0, faces |-> {}]
    /\ UNCHANGED <<busy, entry, top, bottom, ttl, now, born>>

\* No match, and either the bucket or the ring has no room.
Reject(n, f) ==
  /\ Matches(n) = {}
  /\ FreeSlots(n) = {} \/ IsFull
  /\ ret' = [code |-> -ENOSPC, faces |-> {}]
  /\ UNCHANGED <<busy, entry, ring, top, bottom, ttl, now, born>>

\* No match and room in both: a new entry at the top of the ring.
Insert(n, f) ==
  /\ Matches(n) = {}
  /\ ~IsFull
  /\ \E s \in FreeSlots(n) :
       /\ IsFirst(s, FreeSlots(n))
       /\ busy' = busy \cup {s}
       /\ entry' = [entry EXCEPT ![s] = [crc |-> Crc[n], index |-> top]]
       /\ ring' = [ring EXCEPT ![top] =
                     [active |-> TRUE, bucket |-> s[1], tab |-> s[2],
                      expiry |-> now + ttl, name |-> n, faces |-> {f}]]
  /\ top' = Succ(top)
  /\ born' = [born EXCEPT ![top] = now]
  /\ ret' = [code |-> 1, faces |-> {}]
  /\ UNCHANGED <<bottom, ttl, now>>

LookupAndUpdate(n, f) == Aggregate(n, f) \/ Reject(n, f) \/ Insert(n, f)

(* pit_lookup_and_remove_with_hash.                                        *)

\* Faulty variant of RemoveHit: bottom moves even if the entry was not the
\* oldest.
RemoveMovesBottom(n) ==
  \E s \in Matches(n) :
    LET i == entry[s].index IN
    /\ IsFirst(s, Matches(n))
    /\ busy' = busy \ {s}
    /\ ring' = [ring EXCEPT ![i].active = FALSE]
    /\ bottom' = Succ(bottom)
    /\ ret' = [code |-> 0, faces |-> ring[i].faces]
    /\ UNCHANGED <<entry, top, ttl, now, born>>

\* The entry is unlinked; bottom moves only when it was the oldest one, so
\* an entry removed from the middle leaves a hole in the ring.
RemoveHit(n) ==
  \E s \in Matches(n) :
    LET i == entry[s].index IN
    /\ IsFirst(s, Matches(n))
    /\ busy' = busy \ {s}
    /\ ring' = [ring EXCEPT ![i].active = FALSE]
    /\ bottom' = IF bottom = i THEN Succ(bottom) ELSE bottom
    /\ ret' = [code |-> 0, faces |-> ring[i].faces]
    /\ UNCHANGED <<entry, top, ttl, now, born>>

RemoveMiss(n) ==
  /\ Matches(n) = {}
  /\ ret' = [code |-> 0, faces |-> {}]
  /\ UNCHANGED <<busy, entry, ring, top, bottom, ttl, now, born>>

LookupAndRemove(n) == RemoveHit(n) \/ RemoveMiss(n)

(* pit_purge_expired_with_time: bottom moves up to b, the first entry still*)
(* valid, or to top.  The indices passed are the holes and the expired     *)
(* entries; the caller may have sampled the time t before now.             *)

Passed(b) == {i \in Window : Pos(i) < Pos(b)}

\* Faulty variant of PurgeTo: table slots are not given back.
PurgeLeaksSlots(b, t) ==
  /\ ring' = [i \in RingIdx |-> IF i \in Passed(b)
                                THEN [ring[i] EXCEPT !.active = FALSE]
                                ELSE ring[i]]
  /\ bottom' = b
  /\ ret' = [code |-> Pos(b), faces |-> {}]
  /\ UNCHANGED <<busy, entry, top, ttl, now, born>>

PurgeTo(b, t) ==
  LET expired == Passed(b) \cap Active IN
  /\ bottom' = b
  /\ ret' = [code |-> Pos(b), faces |-> {}]
  /\ busy' = busy \ {<<ring[i].bucket, ring[i].tab>> : i \in expired}
  /\ ring' = [i \in RingIdx |-> IF i \in Passed(b)
                                THEN [ring[i] EXCEPT !.active = FALSE]
                                ELSE ring[i]]
  /\ UNCHANGED <<entry, top, ttl, now, born>>

\* Faulty variant of StopsAt: a hole stops the purge as well.
StopsAtHole(b, t) ==
  /\ b = top \/ (b \in Window /\ (b \notin Active \/ Valid(b, t)))
  /\ \A i \in Passed(b) : i \in Active /\ ~Valid(i, t)

StopsAt(b, t) == /\ b = top \/ (b \in Window /\ Valid(b, t))
                 /\ \A i \in Passed(b) : ~Valid(i, t)

PurgeExpired(t) == \E b \in RingIdx : StopsAt(b, t) /\ PurgeTo(b, t)

(* pit_set_ttl_us, and the passing of time.                                *)

SetTtl(v) ==
  /\ ttl' = v
  /\ UNCHANGED <<busy, entry, ring, top, bottom, now, born, ret>>

Tick ==
  /\ now < MaxTime
  /\ now' = now + 1
  /\ UNCHANGED <<busy, entry, ring, top, bottom, ttl, born, ret>>

Next ==
  \/ \E n \in Names, f \in Faces :
       LookupAndUpdate(n, f) /\ call' = <<"update", n, f>>
  \/ \E n \in Names : LookupAndRemove(n) /\ call' = <<"remove", n>>
  \/ \E t \in 0 .. now : PurgeExpired(t) /\ call' = <<"purge">>
  \/ \E v \in TTLs : SetTtl(v) /\ UNCHANGED call
  \/ Tick /\ UNCHANGED call

Spec == Init /\ [][Next]_vars

-----------------------------------------------------------------------------
(* Properties.                                                             *)

\* Type invariant of every variable but call.
TypeOK ==
  /\ busy \subseteq Slots
  /\ entry \in [Slots -> TableEntry]
  /\ ring \in [RingIdx -> RingEntry]
  /\ top \in RingIdx
  /\ bottom \in RingIdx
  /\ ttl \in TTLs
  /\ now \in Nat
  /\ born \in [RingIdx -> Nat]
  /\ ret \in [code : Int, faces : SUBSET Faces]

\* Every busy table slot leads to an active ring entry that leads back to
\* it and hashes to that slot's bucket.
SlotsPointIntoRing ==
  \A s \in busy :
    LET i == entry[s].index IN
    /\ ring[i].active
    /\ s = <<ring[i].bucket, ring[i].tab>>
    /\ ring[i].name \in Names
    /\ entry[s].crc = Crc[ring[i].name]
    /\ s[1] = BucketOf(ring[i].name)

\* Every active ring entry is reachable from the slot it names.
RingPointsIntoTable ==
  \A i \in Active :
    LET s == <<ring[i].bucket, ring[i].tab>> IN
    s \in busy /\ entry[s].index = i

\* Active entries are between bottom and top: the next insertion cannot
\* overwrite one, and the purge cannot miss one.
ActiveInWindow == Active \subseteq Window

\* Table and ring agree: no slot is leaked (busy with no entry behind it, so
\* never freed) and no entry is lost (pending, but out of lookup's reach).
\* This is the assumption stated in the comment of pit.c:253-257.
TableAgreesWithRing ==
  SlotsPointIntoRing /\ RingPointsIntoTable /\ ActiveInWindow

\* A name is pending at most once.  With two entries, Data would serve the
\* faces of one of them and the others' Interests would never be answered.
PendingOnce ==
  \A i, j \in Active : ring[i].name = ring[j].name => i = j

\* The clock never runs behind an insertion, and the ring is in the order its
\* entries were inserted in, holes included.
BornInOrder ==
  /\ \A i \in Window : born[i] <= now
  /\ \A i, j \in Window : Pos(i) < Pos(j) => born[i] <= born[j]

\* No entry is given more than the largest TTL ever configured.
LifetimeBounded ==
  \A i \in Active : \E v \in TTLs : ring[i].expiry = born[i] + v

\* The inductive invariant behind the theorems of module PitProofs.
Consistent ==
  /\ TypeOK
  /\ TableAgreesWithRing
  /\ PendingOnce
  /\ BornInOrder
  /\ LifetimeBounded

\* pit_purge_expired_with_time stops at the first entry still valid.  What
\* it leaves behind was inserted later, so no entry outlives a purge by more
\* than the largest TTL, even after pit_set_ttl_us lowered the TTL ("old
\* (larger) TTL being applied to a number of entries", pit.h:114-118); and
\* what it drops had expired.  The bound is that of the ring's space, too: a
\* hole behind an unanswered Interest is taken back within a TTL, so a ring
\* full of holes does not go on refusing new names (pit.c:149).
PurgeBoundsLifetime ==
  [][\A t \in 0 .. now : PurgeExpired(t) =>
       /\ \A i \in Window' : \E v \in TTLs : t < born[i] + v
       /\ \A i \in Active \ Active' : ring[i].expiry <= t]_vars

\* As long as all that is pending was inserted under one TTL, as in the
\* program, the order of the ring is the order of expiry: a purge leaves the
\* entries still valid, and no other.
SameTtl ==
  \A i, j \in Active : ring[i].expiry - born[i] = ring[j].expiry - born[j]
PurgeIsExact ==
  [][\A t \in 0 .. now : SameTtl /\ PurgeExpired(t) =>
       Active' = {i \in Active : ring[i].expiry > t}]_vars

\* A new name is refused for lack of space only if its bucket is full of
\* names that are really pending, or the ring is full: removal and purge give
\* every slot back.
RefusedOnlyWhenFull ==
  [][\A n \in Names, f \in Faces : Reject(n, f) =>
       \/ IsFull
       \/ BucketSize = Cardinality(
            {m \in Names : /\ BucketOf(m) = BucketOf(n)
                           /\ \E i \in Active : ring[i].name = m})]_vars

-----------------------------------------------------------------------------
(* The PIT implements the map of module PendingInterests.                  *)

EntryOf(n) == CHOOSE i \in Active : ring[i].name = n

pending == [n \in {ring[i].name : i \in Active} |-> ring[EntryOf(n)].faces]

Abs == INSTANCE PendingInterests

\* Every call changes the map as promised and returns what it promises.
ImplementsPendingInterests == Abs!Spec
=============================================================================
