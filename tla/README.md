# Augustus in TLA+

Augustus is a software router for Content-Centric / Named-Data networks on top
of DPDK. Consumers send *Interests* that name a content, routers forward them
by longest-prefix match and remember where they came from, and the *Data*
packet that answers follows the way back and is cached on it. This directory
models the state of such a router, checks it with TLC and proves what matters
most about it with TLAPS. Paths below are relative to the repository.

## 1. The system

One process; lcore 0 runs the control plane, every other enabled lcore runs one
copy of the forwarding loop. Each forwarding lcore owns a PIT, a CS and a FIB, its receive
queues and one transmit queue per port, so forwarding needs no lock. What is shared is the
mbuf pool of a socket, the FIBs (written by the control plane, read by their lcore), the
counters (printed on SIGUSR1 and reset on SIGUSR2 by a signal handler, beside the
loops that increment them) and the NIC. From outside, the tool `fib-ctrl` sends commands
in UDP datagrams to the socket that start-up opened and the control plane reads.

| Component | Source | State | Operations | Correct when |
|---|---|---|---|---|
| Pending Interest Table | `src/lib/pit` | buckets of slots (busy, CRC, ring index); ring of entries (active, name, face bitmask, expiry, back pointer); `top`, `bottom`, `ttl` | lookup-and-update, lookup-and-remove, purge, set TTL | slots and ring entries always point at each other; a name is pending once; the purge drops what has expired and keeps the rest; no space is lost |
| Content Store | `src/lib/cs` | buckets as above; log of (name, mbuf, back pointer); `top`, `bottom` | insert (evicts the oldest), lookup | a FIFO queue; one reference per cached mbuf, given back exactly once |
| FIB | `src/lib/fib` | buckets as above; table of (name, face), `next_free_element` | add, delete, longest-prefix lookup | a bag of routes; updates leave other routes alone; room is given back |
| Data plane loop | `src/main/data_plane.c` | batches `tx_mbufs`, counters, reference counts in the mbufs | one handler per packet (`icn_fwd`), batch and drain, purge | no buffer is freed while in use or leaked, and no lcore takes more than its share of the pool; no Interest that is not sent stays pending or waits for what is cached; packets leave with the right header; counters add up |
| Counters and signal handler | `src/main/data_plane.c`, `src/main/main.c` | `stats` of each lcore | increment, `print_stats`, `reset_stats` | a report made as the manual asks is true; a reset at any other time is harmless |
| Control plane loop | `src/main/control_plane.c` | the command being applied | `ADD`/`DEL` applied to every lcore's FIB in turn | the FIBs are copies of one table; routes lead to ports in use; no command stops the loop; forwarding goes on undisturbed |
| `fib_control` tool | `src/util/fib_control.c` | none | one command, one datagram, no answer | what it loses or sends twice does no harm |
| Start-up, program entry | `src/main/init.c`, `src/main/main.c` | lcore/port/socket tables | parse the command line; assign queues, pools, tables, addresses; open the socket; wait for links; launch | every port and queue served once; a name has one lcore; addresses in place |
| Packet parser | `src/lib/packet.c` | none | offsets of the components of a name | |
| Configuration, utilities, `icn-scapy` | `src/config`, `src/lib/util.*`, `icn-scapy` | none | | |

**Interactions.** For an Interest, `icn_fwd` asks the CS, then the PIT, then the
FIB, and undoes the PIT entry if there is no route. For Data it inserts into
the CS, takes the faces from the PIT and sends *the same mbuf* to each of them,
with one reference more per face. `send_single_packet` collects packets per
port and hands a full batch to the NIC; the loop hands over partial batches
and purges the PIT every `BURST_TX_DRAIN_US`. `ctrl_loop` applies a command to the
FIB of lcore after lcore while these go on looking up.

**What is hard.** PIT and CS keep two structures (table and ring) that must
agree through removals from the middle, wrap-arounds and evictions. Expiry
relies on the order of a ring. Buffers have several owners: the CS, the
batches, the NIC; the NIC may refuse part of a batch at any time, its driver releases what was sent
only with the next burst, and the lcores of a socket share one pool. The FIB is
changed without a lock while it is being read. Counters are neither atomic nor locked, and a
signal may reset them at any moment. Datagrams are lost and sent again, the router ends
and starts again with empty tables. Errors are detected after something was already done
(the PIT entry, the CS insertion) or not at all (results nobody looks at). The hazards in
`PROJECT.json` list each of these at its line.

## 2. Modules

| Module | Models |
|---|---|
| `CircularLog` | index arithmetic of the rings of PIT and CS: `max_elements + 1` slots, one kept free |
| `Pit` | `lib/pit`: table and ring, one action per operation and way it returns |
| `PendingInterests` | what a PIT promises: a map from names to faces |
| `Cs` | `lib/cs`: table, log, and the reference counts it holds |
| `ContentStore` | what a CS promises: a FIFO queue with per-bucket limits |
| `Fib` | `lib/fib`: buckets, forwarding table, add, delete, lookup |
| `RouteTable` | what a FIB promises: a bag of routes with longest-prefix match |
| `FibRace` | `control_plane.c` and `lib/fib` together: commands applied store by store to one lcore's FIB after the other, beside lookups load by load. Uses `Fib` by INSTANCE, once per lcore |
| `Startup` | `init.c`, `main.c`: from the masks of the command line to loops running on lcores |
| `Forwarder` | `data_plane.c`: one lcore, the NIC and its driver, and what the other lcores do to the pool. Uses `ContentStore` and `PendingInterests` by INSTANCE |
| `Stats` | `data_plane.c`, `main.c`: increments by load and store, `print_stats` and `reset_stats` counter by counter |
| `Control` | `fib_control.c`, `control_plane.c` and the socket of `init.c`: from a datagram to the FIBs of all lcores. Uses `RouteTable` by INSTANCE, once per lcore |
| `ReplicatedTable` | what the control plane promises: one table, and copies that follow it |
| `PitProofs`, `CsProofs`, `FibProofs`, `ForwarderProofs`, `FibRaceProofs`, `ControlProofs`, `StartupProofs`, `StatsProofs` | theorems about the module they extend |
| `MCPit`, `MCCs`, `MCFib`, `MCFibRace`, `MCStartup`, `MCForwarder`, `MCStats`, `MCControl` | small instances for TLC |

`Forwarder` is composed with the *abstract* PIT and CS. That `Pit` and `Cs`
implement them is checked and proved (`PitImplementsPendingInterests`,
`CsImplementsContentStore`), so what holds of the lcore with the promises holds
of the lcore with the tables. The FIB is left open there: it may give any
answer, since the control plane may change it at any moment. What it may
answer during a change is the subject of `FibRace`. `Control` takes an update
of one FIB as one step of `RouteTable`, which `Fib` implements, and so can follow commands over
losses and restarts; `FibRace` takes commands as given and has the stores. `Startup` ends where
`Forwarder`, `FibRace` and `Stats` begin: each lcore with tables and queues of its own, and
addresses for the ports in use, which is what `Control` takes from it (`Accepts`).

### State and actions against the code

*PIT and CS.* A slot is a pair `<<bucket, tab>>`; `busy` is the set of slots
whose flag is set, `entry[s]` what else is in them. `Matches(n)` are the slots a
scan of `n`'s bucket may stop at; the operations take the first, as the code
does, and an insertion takes the first free one. The history variable `call` holds
the last call with its arguments, so that a refinement compares not only what a
call answered but what was asked. Freed slots and inactive ring
entries keep their old contents, as in the code. An operation runs to
completion on the lcore that owns the table, hence is one action. `now` in
`Pit` is the time stamp counter; a purge may use any time up to `now`, because
the loop samples it before (`data_plane.c:450-478`). `born` is a history variable.
`Cs` counts references (`ref`) to the buffers it was given: the caller's own is
added at insertion, and an eviction drops one.

*FIB.* A prefix is a model value; `Path` gives for each name the sequence of
its prefixes, shortest first, so the byte strings and component offsets of the
parser do not appear. `fwd` is the forwarding table, `next_free` the number of
entries handed out. `Reach` says how many entries a name needs beyond its own, since `fib_add` copies it
whatever its length (`fib_hash_table.c:74`): an entry has 62 bytes for it, padding included. `Add` takes the end off
every name that had run into the entry it hands out (`Overrun`). `fib_lookup` tries the prefixes from the longest down and draws
one of the matches of the first that has any.

*FIB under change.* In `FibRace` the FIB of each lcore is a record, and `F(l)` the
module `Fib` over it. `wr` is how far `fib_add` has come: `TakeSlot`, `StoreCrc`,
`StoreIndex`, `StoreFace`, `StoreLen`, `StoreName` are its stores in program order, the last with
`next_free_element++`; `fib_del` has one store. `rd[l]` is the lookup of lcore
`l`: `LoadBusy`, `LoadCrc`, then three times `LoadIndex`, as the source has it
(`fib_hash_table.c:122-124`), followed by `LoadLen`, `LoadName` and `LoadFace` of the entry it leads to;
`EndBucket` is the answer or the next shorter prefix. `stable`, `present`, `stale`, `begun` and
`refilled` in it are history variables. The order of the steps is the one the machine keeps: each
store of `fib_add` goes through pointers that the `char` store before it may
alias, so the compiler keeps them in order or merges neighbours, and x86 keeps
the order of stores and of loads. A build that merges stores, or loads an index once and keeps it, as `-O3` may
and `-O0` (`README.md:111-112`) does not, has fewer interleavings, which are among those here. `memcmp` looks at as
many bytes as the tried prefix has, so an entry whose name is another one can pass it (`Starts`), if its
length was read elsewhere, and so can a name that is half copied (`MayBegin`).

*Start-up.* Each init function is an action of `Startup`, in the order of
`init_app`; `pc` is the next one and `Exit` is `rte_exit`, possible wherever a
DPDK call may fail. `rx[l]` and `tx[l]` are `rx_queue` and `tx_queue_id`, and begin as
zeros because `lcore_conf` is a global. `local` is `port_addr` and what lies behind it: as many devices as
elements pass `init.c:286`, and a face of that number makes `control_plane.c:122` read behind the array. There is the padding
of a packed structure aligned to 64 bytes (120 bytes of elements end at 878 of 896), zero like all of it: the face is refused
(`Addresses`). `InitFwdDataStructures` gives a FIB to any of the forwarding lcores, for nobody looks whether there was memory.
`ParseArgs` chooses the port mask: it may be
empty, and without `-p` it is uninitialised, hence any. The launch loop is one action
per round.

*Control plane.* `proc` is how far the router has come, `sock` is `sockfd`, `queue` what the
kernel keeps for it, `cmd` the command `ctrl_loop` is applying and `at` the lcore it has
come to. `Send` puts a datagram into the queue; one that is lost leaves everything as it was and
is no step. A datagram has `pkt_len` 0 because the tool copies the header before it
sets the field; so `parse_packet` reports an error for each of them (`Parsed`), and `Understood`
says that nobody looks. Every datagram taken leaves the queue first (`Receive`), whatever comes of it. `Discard` is
one that is no command the loop knows (`Known`): too short, without a second `:`, `CLR`, and also an `ADD` or `DEL` if there is no
zero byte behind the three that `strcmp` compares (`terminated`). A text without a `:` and one with a face too long may
overrun the stack (`Overruns`): the loop goes on with any command, or none, or the router ends (`TakeGarbled`, `Discard`, `Fault`).
`Accepts` is the test of `control_plane.c:122`: the number against `devs`, and the address `addr` that `Boot` has
taken over from `Startup`, with the masks and devices of this start. `SkipLcore` refuses by it. `AddRoute`, `AddRefused`, `DeleteRoute`, `DeleteMissing`
and `SkipLcore` are a round of the loop over the lcores. `Exit` ends the process
anywhere, and `Boot` starts it again. The refinement maps the abstract table to what the
last lcore's FIB will be when `cmd` is done (`Meant`), and each FIB to its copy.

*Counters.* `mem[l][c]` is the memory of a counter; `Load` and `Store` are the two halves
of an increment, `reg` what is between. `Paths` are the counters that one packet
increments in `icn_fwd` and `send_burst`. The signal handlers take one counter per step: `PrintLine`
and then `AddToSum`, which reads it once more, and `ResetCounter`. The kernel may run a handler on
any thread, so it interleaves with all loops, and a signal is blocked during its own handler, so there
is one of each. `total`, `marks`, `base` and `clean` are history variables: what a
counter would show without resets, and what it showed at each reset.

*Hash.* `rte_hash_crc` is the constant `Crc`, any function: the runs choose one
with collisions of buckets and of whole CRCs.

*Data plane.* An mbuf has a reference count and one header, `mac`: the port
whose addresses are in it. Each way through `icn_fwd` is an action:
`Malformed`, `InterestCsHit`, `InterestAggregated`, `InterestRefused`,
`InterestNoRoute`, `InterestLoop`, `InterestForwarded`, `Data`. `Send` is
`send_single_packet` with the burst a full batch causes, inside the handler.
`Drain` is the periodic part of the loop with its purge. `Transmitted` is the
NIC (external): it moves a buffer to `done`. The driver releases some of `done[p]` when `send_burst` hands it
the next burst for `p` (`Releases`), and only then. `Shared` is the other lcores of the socket, which take buffers out of the pool and put them
back. `lost` is a history variable: the buffers whose packet the CS refused. `stats` are the counters of
the code plus `wire`, the frames that left.

## 3. Runs

| Run | Module, cfg | Shows |
|---|---|---|
| `pit` | `MCPit`, `MCPit.cfg` | four names in two buckets of two slots, two with one CRC, a ring that holds two, the TTL switched between 1 and 2: `PendingOnce`, `TableAgreesWithRing`, the inductive invariant `Consistent`, `RefusedOnlyWhenFull`, `PurgeIsExact`, `PurgeBoundsLifetime`, refinement of `PendingInterests` |
| `cs` | `MCCs.cfg` | `TableAgreesWithRing`, `FreedWhenForgotten`, refinement of `ContentStore` |
| `fib` | `MCFib.cfg` | when names fit in an entry: `SlotsOwnEntries`, refinement of `RouteTable` |
| `fib_full` | `MCFibFull.cfg` | **violated** by the code: `RefusedOnlyWhenFull` |
| `fib_torn` | `MCFibTorn.cfg` | **violated** by the code: `RoutesStay`, with names that run one and two entries too far |
| `forwarder` | `MCForwarder.cfg` | with a CS that evicts and refuses: `NoDanglingMbuf`, `ReferencesAccounted`, `PendingIsForwarded`, `PendingNotCached`, `StatsBalance`, and under fairness `BatchesLeave` |
| `forwarder_leak` | `MCForwarderLeak.cfg` | **violated** by the code: `NoLeakedMbuf` when a CS bucket fills up |
| `forwarder_mac` | `MCForwarderMac.cfg` | **violated** by the code: `FrameHasPortAddress` |
| `fib_race` | `MCFibRace`, `MCFibRace.cfg` | lookups beside updates: `StableRoutesSeen`, `AnswersAreRoutes`, and `FibsAgree` between the lcores |
| `startup` | `MCStartup`, `MCStartup.cfg` | every core and port mask: `NothingShared`, `ServedWhenDense`, `FacesArePorts`, `NameHasOneLcore` |
| `stats` | `MCStats`, `MCStats.cfg` | increments beside printing and resetting: `CountsSinceAReset` at any time, `ReportIsTrue` when the rule of `README.md:114-115` is kept |
| `control` | `MCControl`, `MCControl.cfg` | commands lost, repeated, refused, of no sense and too long, restarts, sockets that fail: `RoutesLeadToPorts`, refinement of `ReplicatedTable`, and under fairness `CommandsTaken` |

**Bounds and why they are enough.** The tables compare, scan one bucket and
follow one index. Three names in a bucket of two slots give every order of
free, matching and other slots, and a refused name; a second bucket shows that
operations stay in theirs. The ring of `pit` has three slots, of which it uses two, that of `cs`
has four: they fill, wrap and have holes before and behind an entry; a hole between two
entries needs one slot more, which TLC does not finish, and is left to the proofs. Two faces tell
*or* from *assign* in the bitmask. A clock up to 2 (`MaxTime`, in the guard of `Tick`) lets
an entry of TTL 1 be inserted after one of TTL 2 and expire before it. In the forwarder,
two ports, bursts of two and a NIC ring of one give full, partial and refused bursts; three mbufs
let the pool run empty while CS, batches, NIC and other lcores hold them all. The CS holds one packet and has a bucket of one
slot for each of two names, so that it both evicts and refuses. Counters wrap at 8
rather than 2^32 (`CounterMod`); where they are no subject they are reduced to one value.

In `fib_race` the slots of one bucket are taken, freed and taken again while a
lookup passes them, with a shorter prefix of the same CRC to fall back to and two
faces for each prefix; three entries in the forwarding table are enough for a slot to
change its route twice, also between two loads of its index. What a prefix of the same length as the stored one
begins is not in the instance: its two prefixes nest with different lengths, and the general `Starts` is the proof's. Lookups run on one lcore (`Readers`), because a lookup
reads its own FIB and writes nothing; the second lcore is there for `FibsAgree`.
`startup` has all masks for four lcores and three ports, the empty port mask included, and
NICs with fewer queues than lcores.

`stats` handles three packets (`MaxPackets`) and two resets (`MaxResets`), with core masks {0, 1, 2}
and {0, 1, 3}; in the second the loops and both handlers leave out lcore 3, as they go by ids
below the number of lcores. Two counters are enough for a packet that increments both,
and counters that wrap at 4 (`Width`): more than the packets there are, so a reset that an increment undoes is told
apart from one that holds. An increment can be lost between two resets, with a packet
before it, and another lcore counting all the while. `control` has four lcores of which two
forward, two prefixes in one bucket, an address table of three elements with one to three devices, commands for
ports in and out of use and for the face behind the table, masks with and without a hole,
FIBs of three entries so that additions are refused, and a queue of two. Neither datagrams nor
restarts are bounded in number.

`forwarder_leak` has `Ways = Capacity`: the code looks for a free slot *before* it evicts, so a full bucket makes the
insertion fail even when its own packet is the one to evict. Only with `Ways > Capacity` would no bucket ever be full; the
code has 7 and 4096.

**Symmetry and views.** Faces in `Pit` and mbufs in the runs of `Cs` and of `Forwarder` without liveness
are only compared for equality; runs with liveness use no symmetry. The views leave out what no later step
reads. In `pit` these are the fields of free slots and inactive entries, and the last call with its
answer: properties of steps are evaluated on every step TLC takes, also on
those that lead to a state seen before. `cs` keeps call and answer.
The runs of `Forwarder` leave out counters, headers and answers, which no guard and no fairness
condition reads, so `BatchesLeave` does not depend on them; `StatsBalance` compares two states of one
step by differences, so the value a counter happens to have does not matter. `stats` leaves out
the content of reports that met traffic or a reset, of which `ReportIsTrue` says nothing.

**Fairness.** `WF(Drain)`: `pkt_fwd_loop` never ends and compares the clock
each time around, and the drain has no guard, so it is always enabled and
happens again and again. Of the NIC nothing is assumed, not even that it transmits. `WF(StartLoop)` and `WF(CtrlLoop)`: the master lcore goes on from the end of start-up to
`ctrl_loop`, whose loops have no wait but `recvfrom`. Nothing is assumed of the traffic, of
the users who send commands, or of the router being started again: one that is down drops datagrams and keeps none.

## 4. Proofs

The proofs hold for every value of the constants: any number of buckets, slots,
elements, names, faces, mbufs and lcores, any `Crc`, any set of TTLs and commands. The
assumptions are named in the modules, and TLC evaluates them on every run: sizes are positive
(`MaxElementsAssumption`, `SizesAssumption`, `WidthAssumption`, `BoundsAssumption`), lengths are (`LengthAssumption`, `ReachAssumption`), the
values that stand for "none" are none of the others (`NamesAssumption`, `PrefixesAssumption`,
`PoolAssumption`), hashes, TTLs and masks are numbers (`CrcAssumption`, `TTLAssumption`,
`MasksAssumption`), the prefixes of a name are a sequence (`PathAssumption`, and
`NamesAssumption` of `FibRace`). Six say more than a type: the counters have different names (`CountersAssumption`: they are fields of a struct); a face is a number below 128
(`FacesAssumption` of `Fib` and `FibRace`: `fib_lookup` returns it as an `int8_t`, and the control plane
lets no number above that of the ports through);
the forwarder has a port at all (`FacesAssumption` of `Forwarder`: start-up ends the program
otherwise, `init.c:353`); the pool is finite; a batch is smaller than the range of a counter
(`MaxBurst < CounterMod`: 32 against 2^32); and in `FibRace` a prefix begins with itself and with no other of its length
(`StartsAssumption`).

The tables list the theorems; below each is, for every module, the inductive invariant, why the property
alone is not inductive, and how the argument goes.

### The tables

| Theorem | States |
|---|---|
| `PitConsistent`, `PitTypeCorrect`, `TableAlwaysAgrees`, `AlwaysPendingOnce` | the invariant `Consistent` and its parts |
| `AlwaysRefusedOnlyWhenFull`, `PurgeAlwaysBoundsLifetime`, `PurgeAlwaysExact` | action properties of `Pit` |
| `PitImplementsPendingInterests` | `Pit` implements `PendingInterests` |
| `CsConsistent`, `CsTypeCorrect`, `TableAlwaysAgrees`, `AlwaysHeldOnce` | the invariant of `Cs` and its parts |
| `AlwaysFreedWhenForgotten` | action property of `Cs` |
| `CsImplementsContentStore` | `Cs` implements `ContentStore` |
| `FibConsistent`, `FibTypeCorrect`, `AlwaysOwnEntries` | the invariant of `Fib` and its parts |
| `AlwaysUndisturbed` | action property of `Fib`, names of any length |
| `FibImplementsRouteTable` | `Fib` implements `RouteTable`, if `NamesFit` |

*Rings.* `PitProofs` and `CsProofs` begin with lemmas about the distance along the ring from
`bottom`: how it changes when either end moves by one slot. What follows only uses
these lemmas and never sees `%`.

*PitProofs.* The invariant is `Consistent`. That a slot leads to an active
entry (`SlotsPointIntoRing`) is not inductive: an insertion could overwrite the
entry unless active entries lie between `bottom` and `top` (`ActiveInWindow`), and a
removal frees the right slot only if entry and slot point back at each other
(`RingPointsIntoTable`). `PendingOnce` then follows for insertions, since a
name whose entry is active is found by the scan. `BornInOrder` and
`LifetimeBounded` are about expiry. The first is about the whole window, holes included: what a purge
leaves is not older than the first valid entry, so neither an entry nor a hole outlives the
largest TTL, however the TTL was changed (`PurgeAlwaysBoundsLifetime`). If all entries were made under
one TTL (`SameTtl`), the order of birth is the order of expiry and the purge is exact
(`PurgeAlwaysExact`). For the refinement the map from names to faces is read off the active
entries; each action is a step of `PendingInterests` with the same call and answer, because the slot the
scan stops at is, by `PendingOnce` and the two-way pointers, the entry of that name.

*CsProofs.* As above, with a log that has no holes (every index between
`bottom` and `top` holds a packet) and with one reference per buffer
(`HeldOnce`), which together give that eviction frees what it forgets and nothing else
(`AlwaysFreedWhenForgotten`). For the refinement the queue is the ring read from `bottom` to
`top`. An eviction moves the base of all positions by one (`AtNextBase`), an insertion adds the last
one (`InsertAppends`);
the packets of the queue in a bucket correspond one to one to the busy slots of that bucket
(`BucketCount`), so the bucket is full when the queue says so.

*FibProofs.* Entries handed out are never handed out again, so each busy slot
owns its own (`AlwaysOwnEntries`) and an update cannot touch another route
(`AlwaysUndisturbed`), unless that one's own name lies in the entries behind, where it loses its end but not its slot and
face. With names that fit (`NamesFit`) every entry in use holds its name, which the refinement needs: `fib_torn` shows that without
it there is none. For the refinement, the bag of `RouteTable` has each route as often as
busy slots lead to it. That a bucket is full when the bag says so needs that the sum of these numbers is
the number of busy slots: a bijection from those slots to the elements of the bag, put together
from one bijection per route.

### What uses the tables

| Theorem | States |
|---|---|
| `ForwarderConsistent`, `ForwarderTypeCorrect`, `AlwaysAccounted`, `NeverDangling`, `PendingNeverCached` | the invariant of `Forwarder` and its parts |
| `ShareAlwaysBounded` | `ShareIsBounded`: an lcore keeps no more buffers than cache, batches and rings have room for |
| `PendingAlwaysForwarded`, `StatsAlwaysBalance` | action properties `PendingIsForwarded` and `StatsBalance` |
| `FibRaceConsistent`, `FibRaceTypeCorrect`, `StableRoutesAlwaysSeen`, `AnswersAlwaysRoutes`, `FibsAlwaysAgree` | the invariant of `FibRace` and what it is for |
| `ControlConsistent`, `ControlTypeCorrect`, `RoutesAlwaysLeadToPorts` | the invariant of `Control` and its parts |
| `ControlImplementsReplicatedTable` | `Control` implements `ReplicatedTable` |
| `StartupConsistent`, `StartupTypeCorrect`, `NothingEverShared`, `NameAlwaysHasOneLcore`, `AlwaysServedWhenDense`, `FacesAlwaysPorts` | the invariant of `Startup` and what it is for |
| `StatsConsistent`, `StatsTypeCorrect`, `AlwaysCountsSinceAReset` | the invariant of `Stats` and its parts |
| `StatsTruthful`, `ReportAlwaysTrue` | a second invariant of `Stats`, and `ReportIsTrue` from it |

*ForwarderProofs.* The proof keeps accounts of references. A burst splits the queues into what stays, what the NIC takes and
what it refuses, and what the driver is done with into what it releases and what it keeps (`TransmitJoins`); the numbers of
references add up when queues are joined (`JoinedUses`). So every handler leaves the difference between `ref` and `Holders` as it was
(`StepAccounts`), but for Data the CS refuses, which leaves one reference more to a buffer that had been free: `lost`
grows by it, and `ReferencesAccounted` is inductive. For that the sizes of store and NIC queues have to be
bounded, which typing does not say, and a buffer that is lost must never be free again, which is why the invariant has the count
itself and not only a bound. `NoDanglingMbuf` follows. `PendingNotCached` is inductive together with the types: a name gets into the PIT
when the CS has just missed it, and out of it when it is cached. `PendingIsForwarded` follows the new
packet through one step: the last place of its batch, then, if the batch was handed over, the NIC's queue or the refused ones, whose
number is below the range of the counter and so moves it (`SendOneGoes`).
`ShareIsBounded` needs that batches are sent in the step that fills them (`BatchesOpen`). What an lcore keeps is then, by
`ReferencesAccounted`, in the CS or at one of `MaxBurst - 1 + NicRing` places for each face (`FewOnTheWay`).
`StatsBalance` is about counters that wrap. Each is congruent, modulo `CounterMod`, to what it was and what the
handler adds (`CountedGain`); congruences add and subtract, every handler that counts an Interest counts one
outcome (`OneOutcome`), and what it adds to the queues less what the NIC transmits or refuses is what it
counts (`Tally`, from the sizes of joined queues).

*FibRaceProofs.* The properties speak of finished lookups and of whole commands, so none is inductive. `TableOK`
is what a FIB is like while one slot of it is being filled, `WriterOK` what `fib_add` has stored so far,
`CommandOK` what the command makes of the FIBs still to come, `LookupOK` what a lookup has seen and may rely
on. The heart is that complete slots keep what they lead to until they are freed, and that the slot being
filled leads to the route deleted from it or to an entry without a name until its index is stored. For each of the three loads
of an index the invariant says what the lookup may conclude: the slot has kept its index since the first, and the entry is one and the
same route's, or it is among the `refilled`, and each load is from an entry of some route that was there or was begun.

*ControlProofs.* With `CopiesOK`, which says of the FIBs the loop has passed that they are what the command makes
of those to come, each turn of the loop is a step of one copy. That a copy can follow at all, an addition never being
refused by one FIB and taken by the next, is why the invariant compares whole tables and bounds
the number of a route by the number of additions (`FibsOK`). `RoutesLeadToPorts` needs that the addresses are those of the ports of this start
and that no route is for a face without one, from `Boot` to `Exit`.

*StartupProofs.* Queue numbers increase strictly with lcore ids (`QueueId` counts the lcores below), so two
lcores never have one queue; that every queue has an lcore is then a matter of counting. The invariant says what each
init function leaves to those after it.

*StatsProofs.* `CountsSinceAReset` is not inductive: a value loaded before a reset is stored after it. The
invariant says of such values (`LoadedOK`) what the property says of memory, and a reset only adds a mark; the rest is arithmetic
modulo `Width`.
`ReportIsTrue` speaks of finished reports, so `Truth` says what holds on the way there: counters are exact while no reset
has met traffic (`ExactOK`), those behind a quiet reset are too (`ResetOK`), the lines a quiet report has printed show them,
and each sum is the sum over the lcores already added (`LinesOK`, `SumsOK`). A report or a reset that a packet interrupts
is not quiet any more, and nothing is claimed of it. Sums are stated as the cardinality of a set (`Weight`), which grows by one
lcore at a time (`WeightStep`) in whatever order. `ReportIsTrue` has a fold instead, whose order is that of CHOOSE: it is the
recursive function `Turn` unfolds, and it equals `Weight` because a smallest set for which it does not would still do so after
one turn (`SumIsWeight`).

### What is only model-checked

- The liveness properties `BatchesLeave` and `CommandsTaken`: liveness under fairness, and the
  ENABLED in it, are out of the prover's reach.
- The properties of the runs that find them violated, naturally. (`ReferencesAccounted` is what is
  true, and proved, where `NoLeakedMbuf` is violated; the `RefusedOnlyWhenFull` that is proved is that of `Pit`, the one violated that of `Fib`.)

## 5. What the code does otherwise

1. `forwarder_leak`: the result of `cs_insert_with_hash` is ignored
   (`data_plane.c:349`). If the bucket is full the buffer's reference is lost.
2. `forwarder_mac`: one buffer is queued for several ports and its Ethernet
   header rewritten for each, also while it is queued (`data_plane.c:272-277`,
   `367-378`). A port can send with another port's addresses.
3. `fib_full`: `next_free_element` only grows (`fib_hash_table.c:75`), so a FIB
   takes `max_elements` additions in its life, whatever is deleted.
4. `fib_torn`: a prefix of more than 62 bytes is copied beyond its entry (`fib_hash_table.c:74`; `MAX_NAME_LEN` is 33 and looked
   at nowhere). The next addition writes over the end of the name: the route cannot be found or deleted any more, and its slot stays taken.

What the FIB's lack of locks (which `README.md` announces) comes to, by `fib_race`: a lookup may
miss a route that is being added or deleted, and while a slot is being filled it
may once more follow the route that was deleted from that slot
(`stale` in `AnswersAreRoutes`). It loses no route that stays. If a slot of the bucket is freed and filled again between
two of the three loads of its index, name and face may come from different routes, or the face of a new one may be read as 0
before it is stored (`Mixed`); otherwise the answer was a route.

Also worth knowing, though not against any text:

- A retransmitted Interest that meets an expired entry not yet purged joins it
  and is not forwarded.
- An Interest that the NIC refuses (`data_plane.c:160-166`), at once or when its batch is drained, is counted and
  stays pending: Interests for the name are not sent again until the entry expires.
- The buffers of transmitted frames come back only with the next burst for their port, and the drain passes over empty
  batches (`data_plane.c:469`). The pool of a socket (`NB_MBUF`, 8192) is as large as the caches of two lcores (4096 each):
  with both full and the pool empty nothing is received, so nothing is evicted or sent, and nothing comes back.
- PIT and CS copy names of any length, too (`pit.c:169`, `cs.c:95`). What is stored next writes over the end of a name of
  more than 33 bytes, so that it is never matched again.
- A command without a second `:` is read on into what older ones left in the buffer (`control_plane.c:94`), and a face of more than
  four characters overruns `sface` (`control_plane.c:108-110`).
- A face equal to the number of ports, with ten of them, is compared with an address behind the array (`control_plane.c:122`); it
  is refused because that is padding.
- Nobody looks whether FIB, PIT and CS could be allocated (`init.c:448-458`): lcores without them are launched.
- The second purge in the loop (`PIT_PURGE_US`) is never due, because the
  drain purges too.
- The loop polls the first `nb_rx_ports` elements of `rx_queue`
  (`data_plane.c:487`), which are filled by port number (`init.c:222`). With a hole in the
  port mask all lcores poll queue 0 of port 0 and nobody polls the last port; the
  properties of `startup` about polling are limited to masks without holes.
- `init_queues` reckons with holes in the sequence of lcore IDs (`init.c:194-197`), the launch loop does not
  (`main.c:285`): with the core mask {0, 2} lcore 2 has tables and queues and never runs, and nobody reads its queues.
  `ServedWhenDense` is therefore limited to core masks without holes.
- Without `-p` the port mask is read uninitialised.
- `parse_packet` is not asked whether it succeeded: for a packet without the offsets of a name,
  `component_nr` is uninitialised (`data_plane.c:245-252`).
- For each command of `fib-ctrl` it does fail (`fib_control.c` copies the header before it sets
  `pkt_len`), and commands work only because that is not looked at.
- `CLR` is a command of the manual (`README.md:88`) and of the tool (`fib_control.c:51`); `ctrl_loop`
  ignores it. The tool reports success for it, as for any command that is lost.
- A command sent again, because nobody knows what became of the first, adds its route twice: the
  route takes two entries and two `DEL`s to go.
- If the socket cannot be opened the router starts and ends at the first `recvfrom`; if it cannot be bound, it
  runs and never gets a command.
- `print_stats` and `reset_stats` go by lcore ids below the number of lcores, as the launch does: with
  a hole in the core mask they leave out an enabled lcore, which is one that never runs.
- A reset under traffic may be undone, counter by counter, by an increment that had read the old value.
- Remote addresses are parsed and never copied to an lcore (`init.c:424`); the
  check that they differ from the local ones looks at the next port (`init.c:401-403`).
- The wait for links reports success after a timeout as well: the round that
  prints sets `all_ports_up` and clears it for no port (`init.c:50-69`).

## 6. Not modelled

Byte-level parsing of packets, commands and command lines: the parser is pointer arithmetic without state, and what it
answers is an input of `Forwarder` and `Control`. The contents of DPDK device configurations; promiscuous mode;
remote addresses, which `init.c` never gives to an lcore; the outcome of the wait for links, which nobody looks at
(a port without link is a NIC that takes nothing). `src/config` is constants, which the modules take as parameters, and
`icn-scapy` a Python library to write test packets with. What a copy of too long a name writes over in PIT and CS, what it writes
behind the last entry of a FIB, and names of more than 255 bytes, whose length the FIB cuts to 8 bits; what an overrun of the control
loop's stack does beyond a command garbled, dropped or deadly; more devices than `APP_MAX_ETH_PORTS`, for which `init_queues` and
`init_addr_table` leave their arrays; lcores without PIT or CS, which end the router at their first packet. PIT, CS and FIB are freed only when the program ends.
`pit_lookup` has no caller.

## 7. Plan

Order: the tables (most of the router's own logic), then the lcore that uses
them, then what runs beside it, then the proofs in the same order. Done: everything in sections 2 and 4.
Every safety invariant and action property that a passing run checks is a theorem as well. What could still be added is listed in section 6: the parts of the code that are not modelled.
