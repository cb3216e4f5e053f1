------------------------------- MODULE FibRace -------------------------------
(***************************************************************************)
(* The control plane (main/control_plane.c) beside the lookups of the      *)
(* forwarding lcores.  Each forwarding lcore has a FIB of its own          *)
(* (main/init.c, init_fwd_data_structures); the control plane applies a    *)
(* command to the FIB of one lcore after the other, and nothing keeps a    *)
(* lookup from running meanwhile: "there might be inconsistent behavior as *)
(* there is no synchronization mechanism" (README.md).  This module asks   *)
(* how inconsistent.                                                       *)
(*                                                                         *)
(* Steps are single loads and stores, in program order: every store goes   *)
(* through a pointer that the store before may have changed, so the        *)
(* compiler cannot reorder them, and x86 does not.  A lookup loads the     *)
(* index of a slot three times, as the source does: for the length of the  *)
(* name, for the name and for the face (fib_hash_table.c:122-124).  A build*)
(* may load it once and keep it, which is one of the behaviours here.      *)
(*                                                                         *)
(* A name is compared by as many bytes as the prefix has that is tried.  A *)
(* name that is being stored equals no name of its own length until its    *)
(* last byte is there, but may already begin with a shorter one.           *)
(*                                                                         *)
(* Names fit in an entry here (Reach in module Fib is 0).                  *)
(***************************************************************************)
EXTENDS Integers, Sequences, FiniteSets

CONSTANTS
  Prefixes, NoPrefix, Faces, Names, Path, Crc,   \* as in module Fib
  Length,       \* the bytes of a prefix
  Starts,       \* Starts[p]: the prefixes whose first Length[p] bytes are p
  NumBuckets, BucketSize, MaxElements,
  Lcores,       \* the forwarding lcores, by number
  Readers       \* those whose lookups are explored: a lookup changes nothing,
                \* and reads the FIB of its own lcore only

ASSUME SizesAssumption ==
  {NumBuckets, BucketSize, MaxElements} \subseteq Nat \ {0}
ASSUME PrefixesAssumption == NoPrefix \notin Prefixes
ASSUME CrcAssumption == Crc \in [Prefixes -> Nat]
ASSUME LengthAssumption == Length \in [Prefixes -> Nat \ {0}]
ASSUME StartsAssumption ==
  /\ Starts \in [Prefixes -> SUBSET Prefixes]
  /\ \A p \in Prefixes : p \in Starts[p]
  /\ \A p \in Prefixes : \A q \in Starts[p] : Length[q] = Length[p] => q = p
ASSUME FacesAssumption == Faces \subseteq 0 .. 127
\* The lookup of a name without components reads nothing: -ENOENT at once.
ASSUME NamesAssumption ==
  Names # {} /\ Path \in [Names -> Seq(Prefixes) \ {<<>>}]
ASSUME LcoresAssumption ==
  /\ Lcores \subseteq Nat \ {0} /\ Lcores # {} /\ IsFiniteSet(Lcores)
  /\ Readers \subseteq Lcores

VARIABLES
  fib,    \* fib[l]: the FIB of lcore l, as in module Fib
  cmd,    \* the command the control plane is applying
  at,     \* the lcore whose FIB it is at
  wr,     \* how far fib_add has come: the slot taken, and what is stored next
  rd      \* rd[l]: the lookup of lcore l

vars == <<fib, cmd, at, wr, rd>>

F(l) == INSTANCE Fib WITH
          busy <- fib[l].busy, entry <- fib[l].entry, fwd <- fib[l].fwd,
          next_free <- fib[l].next_free, ret <- 0, call <- <<>>,
          Reach <- [p \in Prefixes |-> 0]

Slots == (0 .. NumBuckets - 1) \X (0 .. BucketSize - 1)
Index == 0 .. MaxElements - 1

TableEntry == [crc : Nat, index : Index]
Route      == [name : Prefixes \cup {NoPrefix}, face : Faces \cup {0}]
FibState   == [busy : SUBSET Slots, entry : [Slots -> TableEntry],
               fwd : [Index -> Route], next_free : 0 .. MaxElements]

NoCmd  == [op |-> "none", prefix |-> NoPrefix, face |-> 0]
Cmds   == [op : {"add", "del"}, prefix : Prefixes, face : Faces]
Stages == {"start", "crc", "index", "face", "len", "name"}
NoWr   == [slot |-> <<0, 0>>, stage |-> "start"]

EmptyFib == [busy  |-> {},
             entry |-> [s \in Slots |-> [crc |-> 0, index |-> 0]],
             fwd   |-> [i \in Index |-> [name |-> NoPrefix, face |-> 0]],
             next_free |-> 0]

\* The loads of an index, and what is loaded from the entry behind it.
IndexOf == [indexOfLen |-> "len", indexOfName |-> "name", indexOfFace |-> "face"]

\* A lookup: the name, the length k of the prefix tried, the slot tab of its
\* bucket, the index loaded from it, the faces found and the answer.  Of the
\* history: the slots that held a route all along (stable), every route that
\* was stored at some moment (present), every deleted route that a slot under
\* construction could be taken for (stale), every route that was under way
\* (begun), and the slots that were given another index (refilled).
NoLookup == [stage |-> "idle", name |-> CHOOSE n \in Names : TRUE, k |-> 0,
             tab |-> 0, index |-> 0, found |-> {}, answer |-> 0,
             stable |-> {}, present |-> {}, stale |-> {}, begun |-> {},
             refilled |-> {}]

Answers     == Faces \cup {0} \cup {-F(l)!ENOENT : l \in Lcores}
LookupState == [stage : {"idle", "busy", "crc", "indexOfLen", "len", "indexOfName",
                         "name", "indexOfFace", "face", "done"},
                name : Names, k : Nat, tab : 0 .. BucketSize, index : Index,
                found : SUBSET (Faces \cup {0}), answer : Answers,
                stable : SUBSET Slots, present : SUBSET Route,
                stale : SUBSET Route, begun : SUBSET Route,
                refilled : SUBSET Slots]

-----------------------------------------------------------------------------
(* What a FIB stores: the slots taken, but for the one being filled.       *)

Adding(l)   == cmd.op = "add" /\ at = l /\ wr.stage # "start"
Complete(l) == fib[l].busy \ {s \in {wr.slot} : Adding(l)}
Routes(l)   == {F(l)!RouteAt(s) : s \in Complete(l)}

\* What a slot under construction leads to before its index is stored.
Behind(l) == {F(l)!RouteAt(s) : s \in {wr.slot}}
Stale(l)  == {r \in Behind(l) : Adding(l) /\ wr.stage \in {"crc", "index"}}

\* The route that has its face but not yet its name; the slot that has just
\* been given its index.
Coming(l)   == {r \in {[name |-> cmd.prefix, face |-> cmd.face]} :
                  Adding(l) /\ wr.stage \in {"len", "name"}}
Reindexed(l) == {s \in {wr.slot} : Adding(l) /\ wr.stage = "face"}

-----------------------------------------------------------------------------

Init ==
  /\ fib = [l \in Lcores |-> EmptyFib]
  /\ cmd = NoCmd
  /\ at = CHOOSE l \in Lcores : \A m \in Lcores : l <= m
  /\ wr = NoWr
  /\ rd = [l \in Readers |-> NoLookup]

(* ctrl_loop.  A command is checked by the same values for every lcore, so *)
(* it passes or fails alike; one that fails changes nothing.               *)

ReceiveCmd ==
  /\ cmd = NoCmd
  /\ cmd' \in Cmds
  /\ at' = CHOOSE l \in Lcores : \A m \in Lcores : l <= m
  /\ UNCHANGED <<fib, wr, rd>>

\* Faulty variant of Later: the loop ends one lcore too early.
LaterButLast == {l \in Lcores : l > at /\ \E m \in Lcores : m > l}

Later == {l \in Lcores : l > at}

\* On to the next lcore, or to the next command.
Advance ==
  IF Later = {} THEN cmd' = NoCmd /\ UNCHANGED at
  ELSE /\ at' = CHOOSE l \in Later : \A m \in Later : l <= m
       /\ UNCHANGED cmd

\* The history of the lookups, after a step that changes the FIB of at.
Observe ==
  rd' = [l \in Readers |->
           IF l # at THEN rd[l]
           ELSE [rd[l] EXCEPT !.stable  = @ \cap Complete(l)',
                              !.present = @ \cup Routes(l)',
                              !.stale   = @ \cup Stale(l)',
                              !.begun   = @ \cup Coming(l)',
                              !.refilled = @ \cup Reindexed(l)']]

(* fib_add on the FIB of at, store by store.                               *)

AddRefused ==
  /\ cmd.op = "add" /\ wr.stage = "start"
  /\ F(at)!IsFull \/ F(at)!FreeSlots(cmd.prefix) = {}
  /\ Advance
  /\ UNCHANGED <<fib, wr, rd>>

TakeSlot ==
  /\ cmd.op = "add" /\ wr.stage = "start"
  /\ ~F(at)!IsFull
  /\ \E s \in F(at)!FreeSlots(cmd.prefix) :
       /\ F(at)!IsFirst(s, F(at)!FreeSlots(cmd.prefix))
       /\ fib' = [fib EXCEPT ![at].busy = @ \cup {s}]
       /\ wr' = [slot |-> s, stage |-> "crc"]
  /\ UNCHANGED <<cmd, at>>
  /\ Observe

StoreCrc ==
  /\ wr.stage = "crc"
  /\ fib' = [fib EXCEPT ![at].entry[wr.slot].crc = Crc[cmd.prefix]]
  /\ wr' = [wr EXCEPT !.stage = "index"]
  /\ UNCHANGED <<cmd, at>>
  /\ Observe

StoreIndex ==
  /\ wr.stage = "index"
  /\ fib' = [fib EXCEPT ![at].entry[wr.slot].index = fib[at].next_free]
  /\ wr' = [wr EXCEPT !.stage = "face"]
  /\ UNCHANGED <<cmd, at>>
  /\ Observe

StoreFace ==
  /\ wr.stage = "face"
  /\ fib' = [fib EXCEPT ![at].fwd[fib[at].next_free].face = cmd.face]
  /\ wr' = [wr EXCEPT !.stage = "len"]
  /\ UNCHANGED <<cmd, at>>
  /\ Observe

\* The length of the name is in the entry from here on: see LenAt.
StoreLen ==
  /\ wr.stage = "len"
  /\ wr' = [wr EXCEPT !.stage = "name"]
  /\ UNCHANGED <<fib, cmd, at>>
  /\ Observe

\* Faulty variant of StoreName: the entry is not taken out of use.
StoreNameKeepsEntry ==
  /\ wr.stage = "name"
  /\ fib' = [fib EXCEPT ![at].fwd[fib[at].next_free].name = cmd.prefix]
  /\ wr' = NoWr
  /\ Advance
  /\ Observe

StoreName ==
  /\ wr.stage = "name"
  /\ fib' = [fib EXCEPT ![at].fwd[fib[at].next_free].name = cmd.prefix,
                        ![at].next_free = @ + 1]
  /\ wr' = NoWr
  /\ Advance
  /\ Observe

(* fib_del on the FIB of at: one store.                                    *)

Delete ==
  /\ cmd.op = "del"
  /\ \E s \in F(at)!MatchesVia(cmd.prefix, cmd.face) :
       /\ F(at)!IsFirst(s, F(at)!MatchesVia(cmd.prefix, cmd.face))
       /\ fib' = [fib EXCEPT ![at].busy = @ \ {s}]
  /\ Advance
  /\ UNCHANGED wr
  /\ Observe

DeleteMissing ==
  /\ cmd.op = "del"
  /\ F(at)!MatchesVia(cmd.prefix, cmd.face) = {}
  /\ Advance
  /\ UNCHANGED <<fib, wr, rd>>

ControlPlane == \/ ReceiveCmd
                \/ AddRefused \/ TakeSlot
                \/ StoreCrc \/ StoreIndex
                \/ StoreFace \/ StoreLen \/ StoreName
                \/ Delete \/ DeleteMissing

-----------------------------------------------------------------------------
(* fib_lookup on lcore l, load by load.                                    *)

\* The prefix that is tried, and the slot that is looked at.
Prefix(l) == Path[rd[l].name][rd[l].k]
Slot(l)   == <<F(l)!BucketOf(Prefix(l)), rd[l].tab>>

\* Faulty variant of InBucket: the scan goes one slot too far.
InBucketOver(l, stage) == rd[l].stage = stage /\ rd[l].tab <= BucketSize

InBucket(l, stage) == rd[l].stage = stage /\ rd[l].tab < BucketSize

Begin(l, n) ==
  /\ rd[l].stage = "idle"
  /\ rd' = [rd EXCEPT ![l] =
              [NoLookup EXCEPT !.stage = "busy", !.name = n,
                               !.k = Len(Path[n]),
                               !.stable  = Complete(l),
                               !.present = Routes(l),
                               !.stale   = Stale(l),
                               !.begun   = Coming(l)]]

\* On to the next slot of the bucket.
Skip(l) == rd' = [rd EXCEPT ![l].stage = "busy", ![l].tab = @ + 1, ![l].index = 0]

\* Faulty variant of LoadBusy: a free slot ends the scan of the bucket.
LoadBusyUpToHole(l) ==
  /\ InBucket(l, "busy")
  /\ rd' = IF Slot(l) \in fib[l].busy
           THEN [rd EXCEPT ![l].stage = "crc"]
           ELSE [rd EXCEPT ![l].tab = BucketSize]

LoadBusy(l) ==
  /\ InBucket(l, "busy")
  /\ IF Slot(l) \in fib[l].busy
     THEN rd' = [rd EXCEPT ![l].stage = "crc"]
     ELSE Skip(l)

LoadCrc(l) ==
  /\ rd[l].stage = "crc"
  /\ IF fib[l].entry[Slot(l)].crc = Crc[Prefix(l)]
     THEN rd' = [rd EXCEPT ![l].stage = "indexOfLen"]
     ELSE Skip(l)

LoadIndex(l) ==
  /\ rd[l].stage \in DOMAIN IndexOf
  /\ rd' = [rd EXCEPT ![l].stage = IndexOf[@],
                      ![l].index = fib[l].entry[Slot(l)].index]

\* The entry whose name is being stored.
InStore(l, i) == Adding(l) /\ wr.stage = "name" /\ i = fib[l].next_free

\* name_len of entry i: it is stored before the name.
LenAt(l, i) == IF InStore(l, i) THEN Length[cmd.prefix]
               ELSE IF fib[l].fwd[i].name = NoPrefix THEN 0
               ELSE Length[fib[l].fwd[i].name]

LoadLen(l) ==
  /\ rd[l].stage = "len"
  /\ IF LenAt(l, rd[l].index) = Length[Prefix(l)]
     THEN rd' = [rd EXCEPT ![l].stage = "indexOfName", ![l].index = 0]
     ELSE Skip(l)

\* Whether the name of entry i begins with the prefix that is tried, and whether
\* it may do so already while it is being stored.
Begins(l, i)   == fib[l].fwd[i].name \in Starts[Prefix(l)]
MayBegin(l, i) == InStore(l, i) /\ cmd.prefix \in Starts[Prefix(l)] \ {Prefix(l)}

LoadName(l) ==
  /\ rd[l].stage = "name"
  /\ \/ /\ Begins(l, rd[l].index) \/ MayBegin(l, rd[l].index)
        /\ rd' = [rd EXCEPT ![l].stage = "indexOfFace", ![l].index = 0]
     \/ ~Begins(l, rd[l].index) /\ Skip(l)

LoadFace(l) ==
  /\ rd[l].stage = "face"
  /\ rd' = [rd EXCEPT ![l].stage = "busy", ![l].tab = @ + 1, ![l].index = 0,
                      ![l].found = @ \cup {fib[l].fwd[rd[l].index].face}]

\* The end of a bucket: one of the matches is drawn, or the prefix one
\* component shorter is tried, or there is none.
EndBucket(l) ==
  /\ rd[l].stage = "busy" /\ rd[l].tab = BucketSize
  /\ \/ \E f \in rd[l].found :
          rd' = [rd EXCEPT ![l].stage = "done", ![l].answer = f]
     \/ /\ rd[l].found = {} /\ rd[l].k > 1
        /\ rd' = [rd EXCEPT ![l].k = @ - 1, ![l].tab = 0]
     \/ /\ rd[l].found = {} /\ rd[l].k = 1
        /\ rd' = [rd EXCEPT ![l].stage = "done", ![l].k = 0,
                            ![l].answer = -F(l)!ENOENT]

End(l) == rd[l].stage = "done" /\ rd' = [rd EXCEPT ![l] = NoLookup]

Lookup(l) ==
  /\ \/ \E n \in Names : Begin(l, n)
     \/ LoadBusy(l) \/ LoadCrc(l) \/ LoadIndex(l)
     \/ LoadLen(l) \/ LoadName(l) \/ LoadFace(l)
     \/ EndBucket(l) \/ End(l)
  /\ UNCHANGED <<fib, cmd, at, wr>>

Next == ControlPlane \/ \E l \in Readers : Lookup(l)

Spec == Init /\ [][Next]_vars

-----------------------------------------------------------------------------
(* Properties.                                                             *)

\* Type invariant.
TypeOK ==
  /\ fib \in [Lcores -> FibState]
  /\ cmd \in Cmds \cup {NoCmd}
  /\ at \in Lcores
  /\ wr \in [slot : Slots, stage : Stages]
  /\ rd \in [Readers -> LookupState]
  /\ \A l \in Readers : rd[l].k \in 0 .. Len(Path[rd[l].name])

Answered(l) == rd[l].stage = "done"

\* The routes that stay while others change are not lost from sight: a lookup
\* answers by a prefix at least as long as that of any route for the name that
\* was in the FIB all along.
StableRoutesSeen ==
  \A l \in Readers : Answered(l) =>
    \A s \in rd[l].stable, j \in DOMAIN Path[rd[l].name] :
      F(l)!RouteAt(s).name = Path[rd[l].name][j] => j <= rd[l].k

\* How face c can be found for prefix p: by a route that was in the FIB at some
\* moment of the lookup, or a deleted one whose slot or entry was behind a slot
\* being filled meanwhile; or from a slot that was given to another route
\* between two loads of its index.  Then length, name and face may be those of
\* different routes, one that p is only the beginning of among them, and the
\* face may be read before it is stored.
Known(l) == rd[l].present \cup rd[l].stale
Seen(l)  == Known(l) \cup rd[l].begun
Mixed(l, p, c) ==
  /\ \E s \in rd[l].refilled : s[1] = F(l)!BucketOf(p)
  /\ \E r \in Seen(l) : r.name \in Starts[p]
  /\ c = 0 \/ \E r \in Seen(l) : r.face = c
Explained(l, p, c) == [name |-> p, face |-> c] \in Known(l) \/ Mixed(l, p, c)

\* A lookup answers with the face of a route for that very prefix, unless a slot
\* of the bucket changed hands meanwhile.  Even then, some route begins with the
\* prefix, and the face is that of some route or the 0 of an entry not filled
\* yet.  Without an addition meanwhile, a deleted route is never used.
AnswersAreRoutes ==
  \A l \in Readers : Answered(l) /\ rd[l].k > 0 =>
    Explained(l, Path[rd[l].name][rd[l].k], rd[l].answer)

\* All lcores forward by the same table, but for the command being applied:
\* the FIBs the loop has passed are equal, and so are those it has yet to
\* reach; between commands, all are.
FibsAgree ==
  \A l, m \in Lcores :
    cmd = NoCmd \/ (l < at /\ m < at) \/ (l > at /\ m > at) => fib[l] = fib[m]
=============================================================================
