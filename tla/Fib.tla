--------------------------------- MODULE Fib ---------------------------------
(***************************************************************************)
(* The Forwarding Information Base of one lcore (lib/fib/fib.c over        *)
(* lib/fib/fib_hash_table.c): a hash table of fixed-size buckets whose     *)
(* slots point into a forwarding table.  Entries of the forwarding table   *)
(* are handed out in order and never again: deleting a route frees its     *)
(* slot, not its entry.                                                    *)
(*                                                                         *)
(* fib_add copies a name into its entry without looking at its length      *)
(* (fib_hash_table.c:74): an entry takes 62 bytes of name, and a longer    *)
(* name runs on into the entries behind.  Those have not been handed out,  *)
(* so no route is lost by it yet; the next addition writes its own entry   *)
(* over that end of the name, and the longer route is in the table no more *)
(* while its slot stays busy.  Reach says which names are so long.  Left   *)
(* out: what the copy writes behind the last entry of the table, and a     *)
(* name of more than 255 bytes, whose length fib_hash_table_add_key cuts   *)
(* to 8 bits.                                                              *)
(*                                                                         *)
(* One call is one action here.  The control plane's lcore makes the       *)
(* additions and deletions, the forwarding lcore the lookups, without a    *)
(* lock ("there might be inconsistent behavior", README.md:148-149); this  *)
(* module is about calls that do not overlap.                              *)
(***************************************************************************)
EXTENDS Integers, Sequences, FiniteSets

CONSTANTS
  Prefixes,     \* name prefixes a route may be for
  NoPrefix,     \* the name in an entry that holds none, or not all of one
  Faces,        \* next hops
  Names,        \* content names looked up
  Path,         \* Path[n]: the prefixes of n, shortest first
  Crc,          \* rte_hash_crc: the CRC of each prefix; they may collide
  Reach,        \* into how many entries behind its own a prefix's name runs
  NumBuckets,   \* num_buckets given to fib_create
  BucketSize,   \* BUCKET_SIZE: slots per bucket
  MaxElements   \* max_elements given to fib_create

ASSUME SizesAssumption ==
  {NumBuckets, BucketSize, MaxElements} \subseteq Nat \ {0}
ASSUME PrefixesAssumption == NoPrefix \notin Prefixes
ASSUME CrcAssumption == Crc \in [Prefixes -> Nat]
ASSUME ReachAssumption == Reach \in [Prefixes -> Nat]
ASSUME PathAssumption == Path \in [Names -> Seq(Prefixes)]
\* fib_lookup returns the face as an int8_t.  The control plane lets no face
\* above the number of ports through, so none is large enough to turn negative.
ASSUME FacesAssumption == Faces \subseteq 0 .. 127

\* errno.h
EINVAL == 22
ENOENT == 2
ENOSPC == 28

Buckets == 0 .. NumBuckets - 1
Tabs    == 0 .. BucketSize - 1
Slots   == Buckets \X Tabs
Index   == 0 .. MaxElements - 1

TableEntry == [crc : Nat, index : Index]
FwdEntry   == [name : Prefixes \cup {NoPrefix}, face : Faces \cup {0}]

VARIABLES
  busy,       \* the table slots whose busy flag is set
  entry,      \* entry[<<bucket, tab>>]: crc and index of a table slot
  fwd,        \* fwd_table: the forwarding table
  next_free,  \* next_free_element: the first entry never used
  ret,        \* what the last call returned: an error, 0, or a face
  call        \* history: the call that was made last, with its arguments

vars == <<busy, entry, fwd, next_free, ret, call>>

-----------------------------------------------------------------------------
(* Helpers.                                                                *)

\* The bucket of a prefix: crc % num_buckets.
BucketOf(p) == Crc[p] % NumBuckets

RouteAt(s) == fwd[entry[s].index]

\* The slots of p's bucket that match p, and those for p through face f.
Matches(p) == {s \in busy : /\ s[1] = BucketOf(p)
                            /\ entry[s].crc = Crc[p]
                            /\ RouteAt(s).name = p}

\* Faulty variant of MatchesVia: the face is not compared.
MatchesViaAny(p, f) == Matches(p)

MatchesVia(p, f) == {s \in Matches(p) : RouteAt(s).face = f}

FreeSlots(p) == {s \in Slots \ busy : s[1] = BucketOf(p)}

\* The scan of a bucket goes up from tab 0: the first slot of S.
IsFirst(s, S) == s \in S /\ \A r \in S : s[2] <= r[2]

\* The prefixes whose names fit in one entry.
Fitting  == {p \in Prefixes : Reach[p] = 0}
NamesFit == Fitting = Prefixes

\* The entries whose names run into the one that is handed out next.
Overrun == {i \in Index : /\ i < next_free
                          /\ fwd[i].name \in Prefixes
                          /\ i + Reach[fwd[i].name] >= next_free}

\* Faulty variant of IsFull: one more route than there are entries.
IsFullLate == next_free = MaxElements + 1

IsFull == next_free = MaxElements

-----------------------------------------------------------------------------

\* fib_create: zeroed memory.
Init ==
  /\ busy = {}
  /\ entry = [s \in Slots |-> [crc |-> 0, index |-> 0]]
  /\ fwd = [i \in Index |-> [name |-> NoPrefix, face |-> 0]]
  /\ next_free = 0
  /\ ret = 0
  /\ call = <<>>

\* Faulty variant of Add: the entry written is the last one handed out.
AddOverLast(p, f) ==
  /\ ~IsFull
  /\ \E s \in FreeSlots(p), i \in Index :
       /\ i = IF next_free = 0 THEN 0 ELSE next_free - 1
       /\ IsFirst(s, FreeSlots(p))
       /\ busy' = busy \cup {s}
       /\ entry' = [entry EXCEPT ![s] = [crc |-> Crc[p], index |-> i]]
       /\ fwd' = [fwd EXCEPT ![i] = [name |-> p, face |-> f]]
  /\ next_free' = next_free + 1
  /\ ret' = 0

\* fib_add: the first free slot of the bucket, the next entry of the table.
\* The end of a name that ran into that entry is lost.
Add(p, f) ==
  /\ ~IsFull
  /\ \E s \in FreeSlots(p) :
       /\ IsFirst(s, FreeSlots(p))
       /\ busy' = busy \cup {s}
       /\ entry' = [entry EXCEPT ![s] = [crc |-> Crc[p], index |-> next_free]]
  /\ fwd' = [i \in Index |->
               CASE i = next_free -> [name |-> p, face |-> f]
                 [] i \in Overrun -> [fwd[i] EXCEPT !.name = NoPrefix]
                 [] OTHER         -> fwd[i]]
  /\ next_free' = next_free + 1
  /\ ret' = 0

AddRefused(p) ==
  /\ IsFull \/ FreeSlots(p) = {}
  /\ ret' = -ENOSPC
  /\ UNCHANGED <<busy, entry, fwd, next_free>>

\* fib_add and fib_del refuse the empty prefix.
Invalid ==
  /\ ret' = -EINVAL
  /\ UNCHANGED <<busy, entry, fwd, next_free>>

\* fib_del: of several slots with the same route, the first is freed.
Del(p, f) ==
  /\ \E s \in MatchesVia(p, f) : /\ IsFirst(s, MatchesVia(p, f))
                                 /\ busy' = busy \ {s}
  /\ ret' = 0
  /\ UNCHANGED <<entry, fwd, next_free>>

DelMissing(p, f) ==
  /\ MatchesVia(p, f) = {}
  /\ ret' = -ENOENT
  /\ UNCHANGED <<busy, entry, fwd, next_free>>

\* fib_lookup: the prefixes of n are tried from the longest down, and one of
\* the matches of the first that has any is drawn at random.
Found(n, k) ==
  /\ \A j \in DOMAIN Path[n] : j > k => Matches(Path[n][j]) = {}
  /\ \E s \in Matches(Path[n][k]) : ret' = RouteAt(s).face

Lookup(n) ==
  /\ \/ \E k \in DOMAIN Path[n] : Found(n, k)
     \/ /\ \A k \in DOMAIN Path[n] : Matches(Path[n][k]) = {}
        /\ ret' = -ENOENT
  /\ UNCHANGED <<busy, entry, fwd, next_free>>

Next ==
  \/ \E p \in Prefixes, f \in Faces :
       \/ (Add(p, f) \/ AddRefused(p)) /\ call' = <<"add", p, f>>
       \/ (Del(p, f) \/ DelMissing(p, f)) /\ call' = <<"del", p, f>>
  \/ \E n \in Names : Lookup(n) /\ call' = <<"lookup", n>>
  \/ Invalid /\ call' = <<"invalid">>

Spec == Init /\ [][Next]_vars

-----------------------------------------------------------------------------
(* Properties.                                                             *)

\* Type invariant of every variable but call.
TypeOK ==
  /\ busy \subseteq Slots
  /\ entry \in [Slots -> TableEntry]
  /\ fwd \in [Index -> FwdEntry]
  /\ next_free \in 0 .. MaxElements
  /\ ret \in Faces \cup {0, -EINVAL, -ENOENT, -ENOSPC}

\* Every busy slot owns one entry of the forwarding table, handed out already,
\* whose prefix hashes to that slot's CRC and bucket.  No addition can then
\* hand out an entry in use, and no deletion frees another's slot.  If all
\* names fit in an entry, every entry in use holds one.
SlotsOwnEntries ==
  /\ \A s \in busy : /\ entry[s].index < next_free
                     /\ RouteAt(s).face \in Faces
                     /\ NamesFit => RouteAt(s).name \in Prefixes
                     /\ RouteAt(s).name \in Prefixes =>
                          /\ entry[s].crc = Crc[RouteAt(s).name]
                          /\ s[1] = BucketOf(RouteAt(s).name)
  /\ \A s, r \in busy : entry[s].index = entry[r].index => s = r

\* The inductive invariant behind the theorems of module FibProofs.
Consistent == TypeOK /\ SlotsOwnEntries

\* A change of the table leaves every other route as it is, also the memory
\* a lookup on another lcore may be reading: what a busy slot leads to is never
\* written again while the slot stays busy (fib_hash_table.c:70-75), whatever
\* other names there are, if the route's own name fits in an entry.  A longer
\* one keeps its slot and its face.
LeavesRoutes ==
  \A s \in busy \cap busy' :
    /\ entry'[s] = entry[s]
    /\ fwd'[entry[s].index].face = RouteAt(s).face
    /\ RouteAt(s).name \in Fitting => fwd'[entry[s].index] = RouteAt(s)
RoutesUndisturbed == [][LeavesRoutes]_vars

\* A route is in the table until it is deleted ("-ENOENT if the queried name is
\* not in the FIB", fib.h:100): what a busy slot leads to stays, however long
\* the names are.
RoutesStay == [][\A s \in busy \cap busy' : RouteAt(s)' = RouteAt(s)]_vars

\* A route is refused only when the table is full: its bucket has no free slot,
\* or max_elements routes are stored ("Max numbers of items to be stored",
\* "-ENOSPCS if hash table is full", fib.h:42 and 67).
RefusedOnlyWhenFull ==
  [][\A p \in Prefixes : AddRefused(p) =>
       FreeSlots(p) = {} \/ Cardinality(busy) = MaxElements]_vars

-----------------------------------------------------------------------------
(* The FIB implements the bag of routes of module RouteTable, if all names *)
(* fit in an entry.                                                        *)

routes == [r \in Prefixes \X Faces |->
             Cardinality({s \in busy : RouteAt(s).name = r[1]
                                       /\ RouteAt(s).face = r[2]})]

Abs == INSTANCE RouteTable
         WITH added <- next_free,
              Hash <- [p \in Prefixes |-> BucketOf(p)],
              Ways <- BucketSize,
              Capacity <- MaxElements

\* Additions, deletions and refusals are those of the bag, and every lookup
\* answers with a next hop of the longest prefix that has one.
ImplementsRouteTable == Abs!Spec
=============================================================================
