---------------------------- MODULE StartupProofs ----------------------------
(***************************************************************************)
(* Proofs about module Startup: for every core mask, port mask and number  *)
(* of ports and hardware queues, a start-up that comes to its end leaves   *)
(* each lcore with tables and queues of its own and knows the faces that   *)
(* are ports.                                                              *)
(***************************************************************************)
EXTENDS Startup, FiniteSetTheorems, TLAPS

-----------------------------------------------------------------------------
(* The inductive invariant: what each step of MAIN leaves to the next ones. *)

FromLaunch == {"launch", "running"}
FromStart  == {"start", "addr"} \cup FromLaunch
FromQueues == {"queues"} \cup FromStart
FromPorts  == {"ports"} \cup FromQueues

ConfigOK ==
  /\ enabled \in CoreMasks /\ portmask \subseteq Ports
  /\ devs \in 0 .. MaxPorts
  /\ socket \in [Lcores -> 0 .. MaxSockets]

TablesOK == pc \in FromPorts => \A l \in Forwarding : fib[l] \in {l, NULL}

QueuesOK ==
  /\ pc \in FromQueues => configured = Cardinality(enabled) - 1
  /\ pc \in FromStart =>
       \A l \in Forwarding :
         /\ QueueId(l) < configured
         /\ nb_rx_ports[l] = Cardinality(InUse)
         /\ \A p \in InUse : rx[l][p] = <<p, QueueId(l)>> /\ tx[l][p] = QueueId(l)

AddressesOK ==
  pc \in FromLaunch =>
    \A l \in Forwarding, p \in Addresses : local[l][p] = IF p \in InUse THEN p + 1 ELSE 0

\* The loops that run are those of forwarding lcores; without holes in the
\* core mask they are all that have been come to.
LaunchedOK ==
  /\ running \subseteq Forwarding
  /\ next <= Cardinality(enabled)
  /\ pc \notin FromLaunch \cup {"exit"} => running = {} /\ next = 1
  /\ pc \in FromLaunch /\ DenseLcores => running = 1 .. next - 1
  /\ pc = "running" => next = Cardinality(enabled)

Consistent ==
  /\ TypeOK /\ ConfigOK
  /\ TablesOK /\ QueuesOK /\ AddressesOK /\ LaunchedOK

-----------------------------------------------------------------------------
(* Masks, lcores and the numbers of their queues.                          *)

LEMMA Sizes ==
  /\ MaxLcores \in Nat /\ MaxLcores > 0 /\ MaxSockets \in Nat /\ MaxSockets > 0
  /\ MaxPorts \in Nat /\ MaxPorts > 0 /\ NicQueues \in Nat /\ NicQueues > 0
BY MasksAssumption

LEMMA FirstNumbers ==
  ASSUME NEW n \in Nat
  PROVE  IsFiniteSet(0 .. n - 1) /\ Cardinality(0 .. n - 1) = n
<1>1. 0 \in Int /\ n - 1 \in Int
  OBVIOUS
<1>2. IsFiniteSet(0 .. n - 1)
      /\ Cardinality(0 .. n - 1) = IF 0 > n - 1 THEN 0 ELSE n - 1 - 0 + 1
  BY <1>1, FS_Interval
<1> QED
  BY <1>2

LEMMA LcoreFacts ==
  ASSUME ConfigOK
  PROVE  /\ IsFiniteSet(enabled) /\ IsFiniteSet(Forwarding)
         /\ Cardinality(enabled) \in 1 .. MaxLcores
         /\ Cardinality(Forwarding) \in Nat
         /\ Cardinality(enabled) - 1 <= Cardinality(Forwarding)
         /\ \A l \in enabled : l \in Nat /\ l < MaxLcores
         /\ \A l \in Forwarding : l \in enabled /\ l # 0 /\ l \in Lcores
<1>1. enabled \in SUBSET (0 .. MaxLcores - 1) /\ enabled # {}
  BY MasksAssumption DEF ConfigOK
<1>2. IsFiniteSet(0 .. MaxLcores - 1) /\ Cardinality(0 .. MaxLcores - 1) = MaxLcores
  BY Sizes, FirstNumbers
<1>3. IsFiniteSet(enabled) /\ Cardinality(enabled) <= MaxLcores
  BY <1>1, <1>2, FS_Subset
<1>4. Cardinality(enabled) \in Nat /\ Cardinality(enabled) # 0
  BY <1>1, <1>3, FS_CardinalityType, FS_EmptySet
<1>5. IsFiniteSet(enabled \ {0})
      /\ Cardinality(enabled \ {0}) =
           IF 0 \in enabled THEN Cardinality(enabled) - 1 ELSE Cardinality(enabled)
  BY <1>3, FS_RemoveElement
<1>6. \A l \in enabled : l \in Nat /\ l < MaxLcores
  BY <1>1, Sizes
<1> QED
  BY <1>1, <1>3, <1>4, <1>5, <1>6, Sizes, FS_CardinalityType DEF Forwarding, Lcores

\* Queues are numbered in the order of the lcores, from 0.
LEMMA QueueIdFacts ==
  ASSUME ConfigOK
  PROVE  /\ \A l \in Forwarding : QueueId(l) \in Nat
         /\ \A l, m \in Forwarding : l < m => QueueId(l) < QueueId(m)
         /\ \A l, m \in Forwarding : QueueId(l) = QueueId(m) => l = m
<1> DEFINE Before(l) == {m \in Forwarding : m < l}
<1>1. \A l : IsFiniteSet(Before(l)) /\ Cardinality(Before(l)) \in Nat
  <2> TAKE l
  <2>1. IsFiniteSet(Forwarding) /\ Before(l) \in SUBSET Forwarding
    BY LcoreFacts
  <2>2. IsFiniteSet(Before(l))
    BY <2>1, FS_Subset
  <2> QED
    BY <2>2, FS_CardinalityType
<1>2. ASSUME NEW l \in Forwarding, NEW m \in Forwarding, l < m
      PROVE  Cardinality(Before(l)) < Cardinality(Before(m))
  <2>1. l \in Nat /\ m \in Nat /\ \A k \in Forwarding : k \in Nat
    BY LcoreFacts
  <2>2. l \notin Before(l) /\ Before(l) \cup {l} \in SUBSET Before(m)
    <3>1. ~(l < l) /\ \A k \in Forwarding : k < l => k < m
      BY <1>2, <2>1
    <3> QED
      BY <1>2, <3>1
  <2> HIDE DEF Before
  <2>3. Cardinality(Before(l) \cup {l}) = Cardinality(Before(l)) + 1
    BY <1>1, <2>2, FS_AddElement
  <2>4. Cardinality(Before(l) \cup {l}) <= Cardinality(Before(m))
    BY <1>1, <2>2, FS_Subset
  <2> QED
    BY <1>1, <2>3, <2>4
<1>3. ASSUME NEW l \in Forwarding, NEW m \in Forwarding,
             Cardinality(Before(l)) = Cardinality(Before(m))
      PROVE  l = m
  <2>1. l \in Nat /\ m \in Nat
    BY LcoreFacts
  <2> HIDE DEF Before
  <2> QED
    BY <1>1, <1>2, <1>3, <2>1
<1>4. \A l : QueueId(l) = Cardinality(Before(l))
  BY DEF QueueId
<1> HIDE DEF Before
<1> QED
  BY <1>1, <1>2, <1>3, <1>4

\* If the queues suffice, each of them has its lcore.
LEMMA EveryQueueTaken ==
  ASSUME ConfigOK, NEW n \in Nat, n <= Cardinality(Forwarding),
         \A l \in Forwarding : QueueId(l) < n
  PROVE  {QueueId(l) : l \in Forwarding} = 0 .. n - 1
<1>1. \A l \in Forwarding : QueueId(l) \in 0 .. n - 1
  BY QueueIdFacts
<1>2. ASSUME NEW q \in 0 .. n - 1, \A l \in Forwarding : QueueId(l) # q
      PROVE  FALSE
  <2> DEFINE T == 0 .. n - 1 \ {q}
             f == [l \in Forwarding |-> QueueId(l)]
  <2>1. IsFiniteSet(0 .. n - 1) /\ Cardinality(0 .. n - 1) = n
    BY FirstNumbers
  <2>2. IsFiniteSet(T) /\ Cardinality(T) = n - 1
    BY <2>1, FS_RemoveElement
  <2>3. f \in [Forwarding -> T]
    BY <1>1, <1>2
  <2>4. IsFiniteSet(Forwarding) /\ Cardinality(T) < Cardinality(Forwarding)
    BY <2>2, LcoreFacts
  <2> HIDE DEF T
  <2>5. \E l, m \in Forwarding : l # m /\ f[l] = f[m]
    <3> HIDE DEF f
    <3> QED
      BY <2>2, <2>3, <2>4, FS_PigeonHole
  <2> QED
    BY <2>5, QueueIdFacts
<1> QED
  BY <1>1, <1>2

\* Ports in use are ports, and without holes they are the first ones.
LEMMA PortFacts ==
  ASSUME ConfigOK
  PROVE  /\ InUse \subseteq Ports /\ \A p \in InUse : p \in Nat /\ p < devs
         /\ Cardinality(InUse) \in 0 .. MaxPorts
         /\ DensePorts => InUse = {j \in Ports : j < Cardinality(InUse)}
<1>1. InUse \in SUBSET Ports /\ portmask \in SUBSET Ports /\ devs \in Nat /\ devs <= MaxPorts
  BY Sizes DEF ConfigOK, InUse
<1>2. IsFiniteSet(Ports) /\ Cardinality(Ports) = MaxPorts
  BY Sizes, FirstNumbers DEF Ports
<1>3. Cardinality(InUse) \in 0 .. MaxPorts /\ Cardinality(portmask) \in Nat
  BY <1>1, <1>2, FS_Subset, FS_CardinalityType
<1>4. ASSUME DensePorts
      PROVE  InUse = {j \in Ports : j < Cardinality(InUse)}
  <2>1. PICK k \in Nat : k = Cardinality(portmask)
    BY <1>3
  <2>2. PICK n \in Nat : n = IF k < devs THEN k ELSE devs
    BY <1>1
  <2>3. InUse = 0 .. n - 1
    BY <1>1, <1>4, <2>1, <2>2 DEF DensePorts, InUse
  <2>4. Cardinality(0 .. n - 1) = n
    BY FirstNumbers
  <2>5. Cardinality(InUse) = n
    BY <2>3, <2>4
  <2> QED
    BY <1>1, <2>2, <2>3, <2>5, Sizes DEF Ports
<1> QED
  BY <1>1, <1>3, <1>4, Sizes DEF InUse, Ports

-----------------------------------------------------------------------------
(* The steps keep the invariant.                                           *)

\* Steps that change nothing that an earlier one set up.
LEMMA SameTables ==
  ASSUME Consistent, UNCHANGED <<config, fib, configured, nb_rx_ports, rx, tx, local>>
  PROVE  /\ ConfigOK'
         /\ pc \in FromPorts \/ pc' \notin FromPorts => TablesOK'
         /\ (pc \in FromQueues \/ pc' \notin FromQueues)
            /\ (pc \in FromStart \/ pc' \notin FromStart) => QueuesOK'
         /\ pc \in FromLaunch \/ pc' \notin FromLaunch => AddressesOK'
<1>1. enabled' = enabled /\ portmask' = portmask /\ devs' = devs /\ socket' = socket
  BY DEF config
<1>2. /\ InUse' = InUse /\ Forwarding' = Forwarding
      /\ \A l \in Forwarding : QueueId(l)' = QueueId(l)
  BY <1>1 DEF InUse, Forwarding, QueueId
<1>3. ConfigOK'
  BY <1>1 DEF Consistent, ConfigOK
<1>4. pc \in FromPorts \/ pc' \notin FromPorts => TablesOK'
  BY <1>2 DEF Consistent, TablesOK
<1>5. (pc \in FromQueues \/ pc' \notin FromQueues)
      /\ (pc \in FromStart \/ pc' \notin FromStart) => QueuesOK'
  BY <1>1, <1>2 DEF Consistent, QueuesOK
<1>6. pc \in FromLaunch \/ pc' \notin FromLaunch => AddressesOK'
  BY <1>2 DEF Consistent, AddressesOK
<1> QED
  BY <1>3, <1>4, <1>5, <1>6

Unlaunched == UNCHANGED <<next, running>>

\* Nor do steps that launch nothing.
LEMMA SameLaunched ==
  ASSUME Consistent, enabled' = enabled, Unlaunched, pc \notin FromLaunch,
         pc # "exit", pc' # "running"
  PROVE  LaunchedOK'
<1>1. Forwarding' = Forwarding /\ Cardinality(enabled)' = Cardinality(enabled)
  BY DEF Forwarding
<1>2. running' = {} /\ next' = 1 /\ {} = 1 .. next' - 1
  BY DEF Consistent, LaunchedOK, Unlaunched
<1> QED
  BY <1>1, <1>2 DEF Consistent, LaunchedOK, Unlaunched, FromLaunch

LEMMA ExitKeeps ==
  ASSUME Consistent, NEW step, Exit(step)
  PROVE  Consistent'
<1>1. pc' \notin FromPorts /\ pc' \notin FromQueues /\ pc' \notin FromStart
      /\ pc' \notin FromLaunch
  BY DEF Exit, FromPorts, FromQueues, FromStart, FromLaunch
<1>2. ConfigOK' /\ TablesOK' /\ QueuesOK' /\ AddressesOK'
  BY <1>1, SameTables DEF Exit
<1>3. LaunchedOK'
  BY <1>1 DEF Exit, config, Consistent, LaunchedOK, Forwarding
<1>4. TypeOK'
  BY DEF Exit, Consistent, TypeOK
<1> QED
  BY <1>2, <1>3, <1>4 DEF Consistent

LEMMA CheckLcoresKeeps == ASSUME Consistent, CheckLcores PROVE Consistent'
<1>1. CASE Exit("eal")
  BY <1>1, ExitKeeps
<1>2. CASE pc = "eal" /\ pc' = "args"
           /\ UNCHANGED <<config, pool, fib, configured, nb_rx_ports, rx, tx, local,
                          next, running>>
  <2>1. ConfigOK' /\ TablesOK' /\ QueuesOK' /\ AddressesOK'
    BY <1>2, SameTables DEF FromPorts, FromQueues, FromStart, FromLaunch
  <2>2. LaunchedOK'
    BY <1>2, SameLaunched DEF Unlaunched, FromLaunch, config
  <2>3. TypeOK'
    BY <1>2 DEF Consistent, TypeOK
  <2> QED
    BY <2>1, <2>2, <2>3 DEF Consistent
<1> QED
  BY <1>1, <1>2 DEF CheckLcores, Step

LEMMA StartPortsKeeps == ASSUME Consistent, StartPorts PROVE Consistent'
<1>1. CASE Exit("start")
  BY <1>1, ExitKeeps
<1>2. CASE pc = "start" /\ pc' = "addr"
           /\ UNCHANGED <<config, pool, fib, configured, nb_rx_ports, rx, tx, local,
                          next, running>>
  <2>1. ConfigOK' /\ TablesOK' /\ QueuesOK' /\ AddressesOK'
    BY <1>2, SameTables DEF FromPorts, FromQueues, FromStart, FromLaunch
  <2>2. LaunchedOK'
    BY <1>2, SameLaunched DEF Unlaunched, FromLaunch, config
  <2>3. TypeOK'
    BY <1>2 DEF Consistent, TypeOK
  <2> QED
    BY <2>1, <2>2, <2>3 DEF Consistent
<1> QED
  BY <1>1, <1>2 DEF StartPorts, Step

LEMMA ParseArgsKeeps == ASSUME Consistent, ParseArgs PROVE Consistent'
<1>1. CASE Exit("args")
  BY <1>1, ExitKeeps
<1>2. CASE /\ pc = "args" /\ pc' = "pools" /\ portmask' \in PortMasks
           /\ UNCHANGED <<enabled, devs, socket, pool, fib, configured, nb_rx_ports,
                          rx, tx, local, next, running>>
  <2>1. portmask' \subseteq Ports
    BY <1>2, MasksAssumption DEF Ports
  <2>2. ConfigOK' /\ TablesOK' /\ QueuesOK' /\ AddressesOK'
    BY <1>2, <2>1 DEF Consistent, ConfigOK, TablesOK, QueuesOK, AddressesOK,
                      FromPorts, FromQueues, FromStart, FromLaunch
  <2>3. LaunchedOK'
    BY <1>2, SameLaunched DEF Unlaunched, FromLaunch
  <2>4. TypeOK'
    BY <1>2 DEF Consistent, TypeOK
  <2> QED
    BY <2>2, <2>3, <2>4 DEF Consistent
<1> QED
  BY <1>1, <1>2 DEF ParseArgs

LEMMA InitMbufPoolsKeeps == ASSUME Consistent, InitMbufPools PROVE Consistent'
<1>1. CASE Exit("pools")
  BY <1>1, ExitKeeps
<1>2. CASE /\ pc = "pools" /\ pc' = "tables"
           /\ \A l \in enabled : socket[l] < MaxSockets
           /\ pool' = [l \in Lcores |-> IF l \in enabled THEN socket[l] ELSE NULL]
           /\ UNCHANGED <<config, fib, configured, nb_rx_ports, rx, tx, local, next, running>>
  <2>1. ConfigOK' /\ TablesOK' /\ QueuesOK' /\ AddressesOK'
    BY <1>2, SameTables DEF FromPorts, FromQueues, FromStart, FromLaunch
  <2>2. LaunchedOK'
    BY <1>2, SameLaunched DEF Unlaunched, FromLaunch, config
  <2>3. pool' \in [Lcores -> 0 .. MaxSockets - 1 \cup {NULL}]
    BY <1>2, Sizes DEF Consistent, ConfigOK
  <2>4. TypeOK'
    BY <1>2, <2>3 DEF Consistent, TypeOK
  <2> QED
    BY <2>1, <2>2, <2>4 DEF Consistent
<1> QED
  BY <1>1, <1>2 DEF InitMbufPools, Step

LEMMA InitFwdDataStructuresKeeps ==
  ASSUME Consistent, InitFwdDataStructures
  PROVE  Consistent'
<1>1. /\ pc = "tables" /\ pc' = "ports"
      /\ \E created \in SUBSET Forwarding :
           fib' = [l \in Lcores |-> IF l \in created THEN l ELSE NULL]
      /\ UNCHANGED <<config, pool, configured, nb_rx_ports, rx, tx, local, next, running>>
  BY DEF InitFwdDataStructures, Step, FibOf
<1>2. ConfigOK' /\ enabled' = enabled /\ Forwarding' = Forwarding
  BY <1>1 DEF config, Consistent, ConfigOK, Forwarding
<1>3. TablesOK' /\ fib' \in [Lcores -> Lcores \cup {NULL}]
  <2>1. PICK created \in SUBSET Forwarding :
          fib' = [l \in Lcores |-> IF l \in created THEN l ELSE NULL]
    BY <1>1
  <2> QED
    BY <1>2, <2>1, LcoreFacts DEF Consistent, TablesOK
<1>4. QueuesOK' /\ AddressesOK'
  BY <1>1 DEF QueuesOK, AddressesOK, FromQueues, FromStart, FromLaunch
<1>5. LaunchedOK'
  BY <1>1, <1>2, SameLaunched DEF Unlaunched, FromLaunch
<1>6. TypeOK'
  BY <1>1, <1>3 DEF Consistent, TypeOK
<1> QED
  BY <1>2, <1>3, <1>4, <1>5, <1>6 DEF Consistent

LEMMA InitPortsKeeps == ASSUME Consistent, InitPorts PROVE Consistent'
<1>1. CASE Exit("ports")
  BY <1>1, ExitKeeps
<1>2. CASE /\ pc = "ports" /\ pc' = "queues"
           /\ Cardinality(enabled) - 1 <= NicQueues
           /\ configured' = Cardinality(enabled) - 1
           /\ UNCHANGED <<config, pool, fib, nb_rx_ports, rx, tx, local, next, running>>
  <2>1. ConfigOK' /\ enabled' = enabled /\ Forwarding' = Forwarding
    BY <1>2 DEF config, Consistent, ConfigOK, Forwarding
  <2>2. TablesOK'
    BY <1>2, <2>1 DEF Consistent, TablesOK, FromPorts
  <2>3. QueuesOK' /\ AddressesOK'
    BY <1>2, <2>1 DEF QueuesOK, AddressesOK, FromStart, FromLaunch
  <2>4. LaunchedOK'
    BY <1>2, <2>1, SameLaunched DEF Unlaunched, FromLaunch
  <2>5. configured' \in 0 .. NicQueues
    BY <1>2, LcoreFacts, Sizes DEF Consistent
  <2>6. TypeOK'
    BY <1>2, <2>5 DEF Consistent, TypeOK
  <2> QED
    BY <2>1, <2>2, <2>3, <2>4, <2>6 DEF Consistent
<1> QED
  BY <1>1, <1>2 DEF InitPorts, Step

LEMMA InitQueuesKeeps == ASSUME Consistent, InitQueues PROVE Consistent'
<1>1. CASE Exit("queues")
  BY <1>1, ExitKeeps
<1>2. CASE
  /\ pc = "queues" /\ pc' = "start"
  /\ \A l \in Forwarding : QueueId(l) < configured
  /\ nb_rx_ports' = [l \in Lcores |-> IF l \in Forwarding THEN Cardinality(InUse) ELSE 0]
  /\ rx' = [l \in Lcores |-> [p \in Ports |->
              IF l \in Forwarding /\ p \in InUse THEN <<p, QueueId(l)>> ELSE <<0, 0>>]]
  /\ tx' = [l \in Lcores |-> [p \in Ports |->
              IF l \in Forwarding /\ p \in InUse THEN QueueId(l) ELSE 0]]
  /\ UNCHANGED <<config, pool, fib, configured, local, next, running>>
  <2>1. ConfigOK' /\ enabled' = enabled /\ Forwarding' = Forwarding /\ InUse' = InUse
        /\ \A l : QueueId(l)' = QueueId(l)
    BY <1>2 DEF config, Consistent, ConfigOK, Forwarding, InUse, QueueId
  <2>2. TablesOK'
    BY <1>2, <2>1 DEF Consistent, TablesOK, FromPorts, FromQueues, FromStart
  <2>3. /\ \A l \in Forwarding : l \in Lcores /\ QueueId(l) \in 0 .. NicQueues - 1
        /\ \A p \in InUse : p \in Ports
        /\ Cardinality(InUse) \in 0 .. MaxPorts
    <3>1. configured \in Nat /\ configured <= NicQueues
      BY Sizes DEF Consistent, TypeOK
    <3> QED
      BY <1>2, <3>1, LcoreFacts, QueueIdFacts, PortFacts, Sizes DEF Consistent
  <2>4. QueuesOK'
    <3>1. configured' = Cardinality(enabled) - 1
      BY <1>2 DEF Consistent, QueuesOK, FromQueues
    <3>2. \A l \in Forwarding :
            /\ nb_rx_ports'[l] = Cardinality(InUse)
            /\ \A p \in InUse : rx'[l][p] = <<p, QueueId(l)>> /\ tx'[l][p] = QueueId(l)
      BY <1>2, <2>3
    <3> QED
      BY <1>2, <2>1, <3>1, <3>2 DEF QueuesOK
  <2>5. AddressesOK'
    BY <1>2 DEF AddressesOK, FromLaunch
  <2>6. LaunchedOK'
    BY <1>2, <2>1, SameLaunched DEF Unlaunched, FromLaunch
  <2>7. /\ 0 \in Ports /\ 0 \in 0 .. NicQueues - 1 /\ 0 \in 0 .. MaxPorts
        /\ \A p \in InUse, q \in 0 .. NicQueues - 1 : <<p, q>> \in Ports \X (0 .. NicQueues - 1)
        /\ <<0, 0>> \in Ports \X (0 .. NicQueues - 1)
    BY <2>3, Sizes DEF Ports
  <2>8. rx' \in [Lcores -> [Ports -> Ports \X (0 .. NicQueues - 1)]]
    BY <1>2, <2>3, <2>7
  <2>9. tx' \in [Lcores -> [Ports -> 0 .. NicQueues - 1]]
    BY <1>2, <2>3, <2>7
  <2>10. nb_rx_ports' \in [Lcores -> 0 .. MaxPorts]
    BY <1>2, <2>3, <2>7
  <2>11. TypeOK'
    BY <1>2, <2>8, <2>9, <2>10 DEF Consistent, TypeOK
  <2> QED
    BY <2>1, <2>2, <2>4, <2>5, <2>6, <2>11 DEF Consistent
<1> QED
  BY <1>1, <1>2 DEF InitQueues, Step

LEMMA InitAddrTableKeeps == ASSUME Consistent, InitAddrTable PROVE Consistent'
<1>1. CASE Exit("addr")
  BY <1>1, ExitKeeps
<1>2. CASE
  /\ pc = "addr" /\ pc' = "launch"
  /\ local' = [l \in Lcores |-> [p \in Addresses |->
                 IF l \in Forwarding /\ p \in InUse THEN p + 1 ELSE 0]]
  /\ UNCHANGED <<config, pool, fib, configured, nb_rx_ports, rx, tx, next, running>>
  <2>1. ConfigOK' /\ enabled' = enabled /\ Forwarding' = Forwarding /\ InUse' = InUse
        /\ \A l : QueueId(l)' = QueueId(l)
    BY <1>2 DEF config, Consistent, ConfigOK, Forwarding, InUse, QueueId
  <2>2. TablesOK' /\ QueuesOK'
    BY <1>2, <2>1 DEF Consistent, TablesOK, QueuesOK, FromPorts, FromQueues, FromStart
  <2>3. AddressesOK'
    BY <1>2, <2>1, LcoreFacts DEF AddressesOK, Consistent
  <2>4. LaunchedOK'
    <3>1. running' = {} /\ next' = 1 /\ 1 <= Cardinality(enabled)
      BY <1>2 DEF Consistent, LaunchedOK, FromLaunch
    <3>2. {} = 1 .. next' - 1
      BY <3>1
    <3> QED
      BY <1>2, <2>1, <3>1, <3>2 DEF LaunchedOK
  <2>5. 0 \in 0 .. MaxPorts /\ \A p \in InUse : p + 1 \in 0 .. MaxPorts
    BY PortFacts, Sizes DEF Ports, Consistent
  <2>6. local' \in [Lcores -> [Addresses -> 0 .. MaxPorts]]
    BY <1>2, <2>5
  <2>7. TypeOK'
    BY <1>2, <2>6 DEF Consistent, TypeOK
  <2> QED
    BY <2>1, <2>2, <2>3, <2>4, <2>7 DEF Consistent
<1> QED
  BY <1>1, <1>2 DEF InitAddrTable, Step

LEMMA LaunchingKeeps ==
  ASSUME Consistent, Launch \/ LaunchFails \/ StartControlPlane
  PROVE  Consistent'
<1>1. CASE Exit("launch")
  BY <1>1, ExitKeeps
<1>2. CASE ~Exit("launch")
  <2>1. /\ pc = "launch" /\ pc' \in FromLaunch
        /\ UNCHANGED <<config, pool, fib, configured, nb_rx_ports, rx, tx, local>>
    BY <1>2 DEF Launch, LaunchFails, StartControlPlane, Step, FromLaunch, config
  <2>2. ConfigOK' /\ TablesOK' /\ QueuesOK' /\ AddressesOK'
    BY <2>1, SameTables DEF FromPorts, FromQueues, FromStart, FromLaunch
  <2>3. /\ enabled' = enabled /\ Forwarding' = Forwarding
        /\ Cardinality(enabled)' = Cardinality(enabled)
        /\ DenseLcores' <=> DenseLcores
    BY <2>1 DEF config, Forwarding, DenseLcores
  <2>4. PICK n \in 1 .. MaxLcores : n = Cardinality(enabled)
    BY LcoreFacts DEF Consistent
  <2>5. next \in Nat /\ next >= 1 /\ next <= n /\ running \subseteq Forwarding
        /\ (DenseLcores => running = 1 .. next - 1)
    BY <2>1, <2>4 DEF Consistent, TypeOK, LaunchedOK, FromLaunch
  <2>6. \A l \in Forwarding : l \in Lcores
    BY LcoreFacts DEF Consistent
  <2>7. CASE Launch
    <3>1. next < n /\ next \in Forwarding /\ next' = next + 1 /\ pc' = "launch"
          /\ running' = running \cup {next}
      BY <2>1, <2>4, <2>5, <2>7 DEF Launch, ToLaunch, Forwarding
    <3>2. DenseLcores => running' = 1 .. next' - 1
      BY <2>5, <3>1
    <3>3. next' <= n /\ next' \in 1 .. MaxLcores
      BY <2>4, <2>5, <3>1, Sizes
    <3>4. LaunchedOK'
      BY <2>3, <2>4, <2>5, <3>1, <3>2, <3>3 DEF LaunchedOK, FromLaunch
    <3>5. TypeOK'
      BY <2>1, <2>5, <2>6, <3>1, <3>3 DEF Consistent, TypeOK
    <3> QED
      BY <2>2, <3>4, <3>5 DEF Consistent
  <2>8. CASE LaunchFails
    <3>1. next < n /\ next' = next + 1 /\ pc' = "launch" /\ running' = running
          /\ next \notin enabled
      BY <1>2, <2>1, <2>4, <2>8 DEF LaunchFails, ToLaunch
    <3>2. ~DenseLcores
      BY <2>4, <2>5, <3>1 DEF DenseLcores
    <3>3. next' <= n /\ next' \in 1 .. MaxLcores
      BY <2>4, <2>5, <3>1, Sizes
    <3>4. LaunchedOK'
      BY <2>3, <2>4, <2>5, <3>1, <3>2, <3>3 DEF LaunchedOK, FromLaunch
    <3>5. TypeOK'
      BY <2>1, <3>1, <3>3 DEF Consistent, TypeOK
    <3> QED
      BY <2>2, <3>4, <3>5 DEF Consistent
  <2>9. CASE StartControlPlane
    <3>1. next = n /\ next' = next /\ pc' = "running" /\ running' = running
      BY <2>4, <2>5, <2>9 DEF StartControlPlane, Step, ToLaunch
    <3>2. LaunchedOK'
      BY <2>3, <2>4, <2>5, <3>1 DEF LaunchedOK, FromLaunch
    <3>3. TypeOK'
      BY <2>1, <3>1 DEF Consistent, TypeOK
    <3> QED
      BY <2>2, <3>2, <3>3 DEF Consistent
  <2> QED
    BY <2>7, <2>8, <2>9
<1> QED
  BY <1>1, <1>2

LEMMA InitConsistent == Init => Consistent
<1> SUFFICES ASSUME Init
             PROVE  Consistent
  OBVIOUS
<1>1. ConfigOK
  BY DEF Init, ConfigOK
<1>2. 0 \in Ports /\ 0 \in 0 .. NicQueues - 1 /\ 0 \in 0 .. MaxPorts
      /\ 0 \in 0 .. NicQueues /\ 1 \in 1 .. MaxLcores
  BY Sizes DEF Ports
<1>3. <<0, 0>> \in Ports \X (0 .. NicQueues - 1)
  BY <1>2
<1>4. rx \in [Lcores -> [Ports -> Ports \X (0 .. NicQueues - 1)]]
  BY <1>3 DEF Init
<1>5. TypeOK
  BY <1>2, <1>4 DEF Init, TypeOK
<1>6. TablesOK /\ QueuesOK /\ AddressesOK
  BY DEF Init, TablesOK, QueuesOK, AddressesOK, FromPorts, FromQueues, FromStart, FromLaunch
<1>7. LaunchedOK
  BY <1>1, LcoreFacts DEF Init, LaunchedOK, FromLaunch
<1> QED
  BY <1>1, <1>5, <1>6, <1>7 DEF Consistent

LEMMA StutterKeeps == ASSUME Consistent, UNCHANGED vars PROVE Consistent'
<1>1. ConfigOK' /\ TablesOK' /\ QueuesOK' /\ AddressesOK'
  BY SameTables DEF vars
<1>2. LaunchedOK'
  BY DEF vars, config, Consistent, LaunchedOK, Forwarding, DenseLcores
<1>3. TypeOK'
  BY DEF vars, config, Consistent, TypeOK
<1> QED
  BY <1>1, <1>2, <1>3 DEF Consistent

-----------------------------------------------------------------------------
(* The theorems.                                                           *)

\* The inductive invariant holds throughout.
THEOREM StartupConsistent == Spec => []Consistent
<1>1. Init => Consistent
  BY InitConsistent
<1>2. Consistent /\ [Next]_vars => Consistent'
  BY StutterKeeps, CheckLcoresKeeps, ParseArgsKeeps, InitMbufPoolsKeeps,
     InitFwdDataStructuresKeeps, InitPortsKeeps, InitQueuesKeeps, StartPortsKeeps,
     InitAddrTableKeeps, LaunchingKeeps DEF Next
<1> QED
  BY <1>1, <1>2, PTL DEF Spec

\* Each init function leaves its tables with entries of their types, whatever
\* the masks and the hardware.
THEOREM StartupTypeCorrect == Spec => []TypeOK
<1>1. Consistent => TypeOK
  BY DEF Consistent
<1> QED
  BY <1>1, StartupConsistent, PTL

\* Once the router has started, with a port mask without holes, an lcore polls
\* the queue of its number on every port in use, and nothing else.
LEMMA PollsFacts ==
  ASSUME Consistent, Started, DensePorts, NEW l \in Forwarding
  PROVE  Polls(l) = {<<p, QueueId(l)>> : p \in InUse}
<1>1. nb_rx_ports[l] = Cardinality(InUse) /\ \A p \in InUse : rx[l][p] = <<p, QueueId(l)>>
  BY DEF Consistent, QueuesOK, Started, FromStart, FromLaunch
<1>2. InUse = {j \in Ports : j < Cardinality(InUse)}
  BY PortFacts DEF Consistent
<1> QED
  BY <1>1, <1>2 DEF Polls

LEMMA StartedFacts ==
  ASSUME Consistent, Started
  PROVE  /\ \A l \in Forwarding : fib[l] \in {l, NULL} /\ \A p \in InUse : tx[l][p] = QueueId(l)
         /\ \A l \in running : l \in Forwarding
         /\ {QueueId(l) : l \in Forwarding} = 0 .. configured - 1
         /\ DenseLcores => running = Forwarding
<1>1. pc \in FromStart /\ pc \in FromPorts /\ pc \in FromLaunch /\ pc \in FromQueues
  BY DEF Started, FromPorts, FromQueues, FromStart, FromLaunch
<1>2. /\ \A l \in Forwarding : fib[l] \in {l, NULL} /\ \A p \in InUse : tx[l][p] = QueueId(l)
      /\ \A l \in Forwarding : QueueId(l) < configured
      /\ configured = Cardinality(enabled) - 1
      /\ \A l \in running : l \in Forwarding
  BY <1>1 DEF Consistent, TablesOK, QueuesOK, LaunchedOK
<1>3. configured \in Nat /\ configured <= Cardinality(Forwarding)
  BY <1>2, LcoreFacts DEF Consistent
<1>4. {QueueId(l) : l \in Forwarding} = 0 .. configured - 1
  BY <1>2, <1>3, EveryQueueTaken DEF Consistent
<1>5. ASSUME DenseLcores
      PROVE  running = Forwarding
  <2>1. PICK n \in Nat : n = Cardinality(enabled)
    BY LcoreFacts DEF Consistent
  <2>2. running = 1 .. n - 1 /\ enabled = 0 .. n - 1
    BY <1>1, <1>5, <2>1 DEF Consistent, LaunchedOK, Started, DenseLcores
  <2>3. 1 .. n - 1 = (0 .. n - 1) \ {0}
    OBVIOUS
  <2> QED
    BY <2>2, <2>3 DEF Forwarding
<1> QED
  BY <1>2, <1>4, <1>5

\* No two lcores that forward share a FIB or a queue, and the queues they have
\* are all those the ports were configured with (init.c:308-310).
THEOREM NothingEverShared == Spec => []NothingShared
<1>1. Consistent => NothingShared
  <2> SUFFICES ASSUME Consistent, Started
               PROVE  NothingShared
    BY DEF NothingShared
  <2> USE StartedFacts
  <2>1. \A l, m \in Forwarding : QueueId(l) = QueueId(m) => l = m
    BY QueueIdFacts DEF Consistent
  <2>2. \A l, m \in running :
          \/ fib[l] = fib[m] /\ fib[l] # NULL
          \/ \E p \in InUse : tx[l][p] = tx[m][p]
          => l = m
    BY <2>1
  <2>3. \A p \in InUse : {tx[l][p] : l \in Forwarding} = 0 .. configured - 1
    <3> TAKE p \in InUse
    <3>1. {tx[l][p] : l \in Forwarding} = {QueueId(l) : l \in Forwarding}
      OBVIOUS
    <3> QED
      BY <3>1
  <2>4. ASSUME DensePorts, NEW l \in running, NEW m \in running,
               Polls(l) \cap Polls(m) # {}
        PROVE  l = m
    <3>1. Polls(l) = {<<p, QueueId(l)>> : p \in InUse}
          /\ Polls(m) = {<<p, QueueId(m)>> : p \in InUse}
      BY <2>4, PollsFacts
    <3> QED
      BY <2>1, <2>4, <3>1
  <2> QED
    BY <2>2, <2>3, <2>4 DEF NothingShared
<1> QED
  BY <1>1, StartupConsistent, PTL

\* All queues of one number, on whatever port, are polled by one lcore: an
\* Interest and its Data meet the same PIT.
THEOREM NameAlwaysHasOneLcore == Spec => []NameHasOneLcore
<1>1. Consistent => NameHasOneLcore
  <2> SUFFICES ASSUME Consistent, Started, DensePorts,
                      NEW l \in running, NEW m \in running,
                      NEW p \in InUse, NEW r \in InUse, NEW q \in 0 .. configured - 1,
                      <<p, q>> \in Polls(l), <<r, q>> \in Polls(m)
               PROVE  l = m
    BY DEF NameHasOneLcore
  <2>1. l \in Forwarding /\ m \in Forwarding
    BY StartedFacts
  <2>2. q = QueueId(l) /\ q = QueueId(m)
    BY <2>1, PollsFacts
  <2> QED
    BY <2>1, <2>2, QueueIdFacts DEF Consistent
<1> QED
  BY <1>1, StartupConsistent, PTL

\* Without holes in the masks every queue of every port in use is polled.
THEOREM AlwaysServedWhenDense == Spec => []ServedWhenDense
<1>1. Consistent => ServedWhenDense
  <2> SUFFICES ASSUME Consistent, Started, DensePorts, DenseLcores,
                      NEW p \in InUse, NEW q \in 0 .. configured - 1
               PROVE  \E l \in running : <<p, q>> \in Polls(l)
    BY DEF ServedWhenDense, QueuesServed
  <2>1. running = Forwarding /\ q \in {QueueId(l) : l \in Forwarding}
    BY StartedFacts
  <2>2. PICK l \in Forwarding : q = QueueId(l)
    BY <2>1
  <2> QED
    BY <2>1, <2>2, PollsFacts
<1> QED
  BY <1>1, StartupConsistent, PTL

\* An lcore that forwards accepts a face exactly if it is a port in use, a number
\* behind the last port included.
THEOREM FacesAlwaysPorts == Spec => []FacesArePorts
<1>1. Consistent => FacesArePorts
  <2> SUFFICES ASSUME Consistent, Started, NEW l \in running
               PROVE  {f \in Addresses : FaceAccepted(l, f)} = InUse
    BY DEF FacesArePorts
  <2>1. \A f \in Addresses : local[l][f] = IF f \in InUse THEN f + 1 ELSE 0
    BY StartedFacts DEF Consistent, AddressesOK, Started, FromLaunch
  <2>2. /\ InUse \subseteq Addresses /\ \A f \in InUse : f \in Nat /\ f < devs
        /\ devs \in Nat
    BY PortFacts, Sizes DEF Consistent, ConfigOK, Ports, Addresses
  <2>3. \A f \in Addresses : FaceAccepted(l, f) <=> f \in InUse
    BY <2>1, <2>2 DEF FaceAccepted, Addresses
  <2> QED
    BY <2>2, <2>3
<1> QED
  BY <1>1, StartupConsistent, PTL
=============================================================================
