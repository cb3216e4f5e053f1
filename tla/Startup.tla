------------------------------- MODULE Startup -------------------------------
(***************************************************************************)
(* How the router starts (main/main.c, main/init.c): from the core mask    *)
(* and the port mask of the command line to loops running on lcores, each  *)
(* with tables and hardware queues of its own.  Every init function is an  *)
(* action; rte_exit leads to pc = "exit".  What the hardware has is chosen *)
(* at the start and never changes.                                         *)
(***************************************************************************)
EXTENDS Integers, FiniteSets

CONSTANTS
  MaxLcores,    \* APP_MAX_LCORES
  MaxSockets,   \* APP_MAX_SOCKETS
  MaxPorts,     \* APP_MAX_ETH_PORTS
  CoreMasks,    \* the sets of lcores -c may enable
  PortMasks,    \* the sets of ports -p may enable; without -p the mask is
                \* not initialized, and any of these
  NicQueues     \* hardware queues of a NIC

\* rte_eal_init wants an lcore.
ASSUME MasksAssumption ==
  /\ {MaxLcores, MaxSockets, MaxPorts, NicQueues} \subseteq Nat \ {0}
  /\ CoreMasks \subseteq (SUBSET (0 .. MaxLcores - 1)) \ {{}}
  /\ PortMasks \subseteq SUBSET (0 .. MaxPorts - 1)

Lcores == 0 .. MaxLcores - 1
Ports  == 0 .. MaxPorts - 1
NULL   == -1

\* port_addr has an element for each port.  Behind the last one lies padding,
\* the size of an element at least: app_lcore_config is packed, 878 bytes of
\* fields on a 64-bit machine, and aligned to 64.
Addresses == 0 .. MaxPorts

VARIABLES
  enabled, portmask,  \* the masks of the command line
  devs,               \* rte_eth_dev_count()
  socket,             \* rte_lcore_to_socket_id
  pc,                 \* the next step of MAIN
  pool,               \* pool[l]: the socket of lcore l's mbuf pool
  fib,                \* fib[l]: the FIB given to lcore l, by a number
  configured,         \* queues each enabled port was configured with
  nb_rx_ports,        \* nb_rx_ports[l]
  rx, tx,             \* rx[l][i] = <<port, queue>>, and tx[l][port]
  local,              \* local[l][port]: the port's own MAC address; 0: none;
                      \* MaxPorts is what lies behind the last
  next,               \* the lcore launched next
  running             \* the lcores that run pkt_fwd_loop

config == <<enabled, portmask, devs, socket>>
vars   == <<config, pc, pool, fib, configured, nb_rx_ports, rx, tx, local,
            next, running>>

-----------------------------------------------------------------------------

Master == CHOOSE l \in enabled : \A m \in enabled : l <= m

\* CONTROL_PLANE_LCORE is 0; the other lcores forward.
Forwarding == enabled \ {0}

\* get_nb_ports_available: the ports in use.
InUse == portmask \cap 0 .. devs - 1

\* queue_id of an lcore: how many forwarding lcores there are before it.
QueueId(l) == Cardinality({m \in Forwarding : m < l})

\* Global data is zeroed memory.  init_ports stops at the last array element
\* (init.c:286), the other functions do not: with more devices than elements
\* they leave their arrays, and nothing is said here of that.
Init ==
  /\ enabled \in CoreMasks /\ portmask = {}
  /\ devs \in 0 .. MaxPorts
  /\ socket \in [Lcores -> 0 .. MaxSockets]
  /\ pc = "eal"
  /\ pool = [l \in Lcores |-> NULL]
  /\ fib = [l \in Lcores |-> NULL]
  /\ configured = 0
  /\ nb_rx_ports = [l \in Lcores |-> 0]
  /\ rx = [l \in Lcores |-> [p \in Ports |-> <<0, 0>>]]
  /\ tx = [l \in Lcores |-> [p \in Ports |-> 0]]
  /\ local = [l \in Lcores |-> [p \in Addresses |-> 0]]
  /\ next = 1
  /\ running = {}

\* rte_exit, on a condition the code checks or on a call that failed.
Exit(step) ==
  /\ pc = step /\ pc' = "exit"
  /\ UNCHANGED <<config, pool, fib, configured, nb_rx_ports, rx, tx, local,
                 next, running>>

Step(from, to) == pc = from /\ pc' = to /\ UNCHANGED config

\* MAIN: at least two lcores.
CheckLcores ==
  \/ /\ Cardinality(enabled) >= 2
     /\ Step("eal", "args")
     /\ UNCHANGED <<pool, fib, configured, nb_rx_ports, rx, tx, local, next,
                    running>>
  \/ Cardinality(enabled) < 2 /\ Exit("eal")

\* parse_args: options that ask for help or make no sense end the program.
ParseArgs ==
  \/ /\ pc = "args" /\ pc' = "pools"
     /\ portmask' \in PortMasks
     /\ UNCHANGED <<enabled, devs, socket, pool, fib, configured, nb_rx_ports,
                    rx, tx, local, next, running>>
  \/ Exit("args")

\* init_mbuf_pools: one pool for each socket an lcore is on.
InitMbufPools ==
  \/ /\ \A l \in enabled : socket[l] < MaxSockets
     /\ Step("pools", "tables")
     /\ pool' = [l \in Lcores |-> IF l \in enabled THEN socket[l] ELSE NULL]
     /\ UNCHANGED <<fib, configured, nb_rx_ports, rx, tx, local, next, running>>
  \/ Exit("pools")

\* The FIB created for l.  fibs[socket_id] is read and never written, so each
\* lcore gets a FIB of its own, as it does a PIT and a CS.
FibOf(l) == l

\* Nobody looks whether memory was left: an lcore without FIB is launched with
\* the others, and so is one without PIT or CS.
InitFwdDataStructures ==
  /\ Step("tables", "ports")
  /\ \E created \in SUBSET Forwarding :
       fib' = [l \in Lcores |-> IF l \in created THEN FibOf(l) ELSE NULL]
  /\ UNCHANGED <<pool, configured, nb_rx_ports, rx, tx, local, next, running>>

\* init_ports: a queue on every port for each lcore but the control plane's.
InitPorts ==
  \/ /\ InUse # {}
     /\ Cardinality(enabled) - 1 <= NicQueues
     /\ Step("ports", "queues")
     /\ configured' = Cardinality(enabled) - 1
     /\ UNCHANGED <<pool, fib, nb_rx_ports, rx, tx, local, next, running>>
  \/ Exit("ports")

\* Faulty variant of InitQueues: the queue is numbered like the lcore.
InitQueuesByLcore ==
  /\ Step("queues", "start")
  /\ nb_rx_ports' = [l \in Lcores |->
                       IF l \in Forwarding THEN Cardinality(InUse) ELSE 0]
  /\ rx' = [l \in Lcores |-> [p \in Ports |->
              IF l \in Forwarding /\ p \in InUse THEN <<p, l>> ELSE <<0, 0>>]]
  /\ tx' = [l \in Lcores |-> [p \in Ports |->
              IF l \in Forwarding /\ p \in InUse THEN l ELSE 0]]
  /\ UNCHANGED <<pool, fib, configured, local, next, running>>

\* Faulty variant of InitQueues: the queues of each port start with another
\* lcore, to spread the load.
InitQueuesRotating ==
  /\ Step("queues", "start")
  /\ nb_rx_ports' = [l \in Lcores |->
                       IF l \in Forwarding THEN Cardinality(InUse) ELSE 0]
  /\ rx' = [l \in Lcores |-> [p \in Ports |->
              IF l \in Forwarding /\ p \in InUse
              THEN <<p, (QueueId(l) + p) % configured>> ELSE <<0, 0>>]]
  /\ tx' = [l \in Lcores |-> [p \in Ports |->
              IF l \in Forwarding /\ p \in InUse
              THEN (QueueId(l) + p) % configured ELSE 0]]
  /\ UNCHANGED <<pool, fib, configured, local, next, running>>

\* init_queues, entries of rx_queue and tx_queue_id by the port's number.
\* Setting up a queue fails if the port was not configured with so many.
InitQueues ==
  \/ /\ \A l \in Forwarding : QueueId(l) < configured
     /\ Step("queues", "start")
     /\ nb_rx_ports' = [l \in Lcores |->
                          IF l \in Forwarding THEN Cardinality(InUse) ELSE 0]
     /\ rx' = [l \in Lcores |-> [p \in Ports |->
                 IF l \in Forwarding /\ p \in InUse THEN <<p, QueueId(l)>>
                 ELSE <<0, 0>>]]
     /\ tx' = [l \in Lcores |-> [p \in Ports |->
                 IF l \in Forwarding /\ p \in InUse THEN QueueId(l) ELSE 0]]
     /\ UNCHANGED <<pool, fib, configured, local, next, running>>
  \/ Exit("queues")

\* start_ports waits for the links, 9 seconds at most, and nobody looks at
\* what it returns.
StartPorts ==
  \/ /\ Step("start", "addr")
     /\ UNCHANGED <<pool, fib, configured, nb_rx_ports, rx, tx, local, next,
                    running>>
  \/ Exit("start")

\* Faulty variant of InitAddrTable: ports out of use get their address, too.
InitAddrTableAll ==
  /\ Step("addr", "launch")
  /\ local' = [l \in Lcores |-> [p \in Addresses |->
                 IF l \in Forwarding /\ p < devs THEN p + 1 ELSE 0]]
  /\ UNCHANGED <<pool, fib, configured, nb_rx_ports, rx, tx, next, running>>

\* init_addr_table copies the local addresses only (port p's is p + 1 here),
\* and exits if one equals an element of port_addr that is, mostly, not yet
\* written: it may exit for any value found there.
InitAddrTable ==
  \/ /\ Step("addr", "launch")
     /\ local' = [l \in Lcores |-> [p \in Addresses |->
                    IF l \in Forwarding /\ p \in InUse THEN p + 1 ELSE 0]]
     /\ UNCHANGED <<pool, fib, configured, nb_rx_ports, rx, tx, next, running>>
  \/ Exit("addr")

\* Faulty variant of ToLaunch: the last one is forgotten.
ToLaunchButLast == next < Cardinality(enabled) - 1

\* MAIN launches lcores 1 to nb_lcore - 1, by number.
ToLaunch == next < Cardinality(enabled)

\* An lcore that is enabled and waits starts the loop.
Launch ==
  /\ pc = "launch" /\ ToLaunch
  /\ next \in enabled \ {Master}
  /\ running' = running \cup {next}
  /\ next' = next + 1
  /\ UNCHANGED <<config, pc, pool, fib, configured, nb_rx_ports, rx, tx, local>>

\* One that is not enabled does not, whatever the call returns; and the master
\* is busy.  Unless an error was returned, the loop goes on.
LaunchFails ==
  /\ pc = "launch" /\ ToLaunch
  /\ next \notin enabled \ {Master}
  /\ \/ Exit("launch")
     \/ /\ next # Master
        /\ next' = next + 1
        /\ UNCHANGED <<config, pc, pool, fib, configured, nb_rx_ports, rx, tx,
                       local, running>>

\* The control plane's loop starts on the master.
StartControlPlane ==
  /\ ~ToLaunch
  /\ Step("launch", "running")
  /\ UNCHANGED <<pool, fib, configured, nb_rx_ports, rx, tx, local, next, running>>

Next == \/ CheckLcores \/ ParseArgs \/ InitMbufPools \/ InitFwdDataStructures
        \/ InitPorts \/ InitQueues \/ StartPorts \/ InitAddrTable
        \/ Launch \/ LaunchFails \/ StartControlPlane

Spec == Init /\ [][Next]_vars

-----------------------------------------------------------------------------
(* Properties.                                                             *)

\* Type invariant.
TypeOK ==
  /\ pc \in {"eal", "args", "pools", "tables", "ports", "queues", "start", "addr",
             "launch", "running", "exit"}
  /\ pool \in [Lcores -> 0 .. MaxSockets - 1 \cup {NULL}]
  /\ fib \in [Lcores -> Lcores \cup {NULL}]
  /\ configured \in 0 .. NicQueues
  /\ nb_rx_ports \in [Lcores -> 0 .. MaxPorts]
  /\ rx \in [Lcores -> [Ports -> Ports \X (0 .. NicQueues - 1)]]
  /\ tx \in [Lcores -> [Ports -> 0 .. NicQueues - 1]]
  /\ local \in [Lcores -> [Addresses -> 0 .. MaxPorts]]
  /\ next \in 1 .. MaxLcores
  /\ running \subseteq Lcores

Started == pc = "running"

\* What pkt_fwd_loop polls on lcore l: the first nb_rx_ports elements of
\* rx_queue, which init_queues fills by port number.
Polls(l) == {rx[l][i] : i \in {j \in Ports : j < nb_rx_ports[l]}}

DensePorts  == portmask = 0 .. Cardinality(portmask) - 1
DenseLcores == enabled = 0 .. Cardinality(enabled) - 1

\* Forwarding takes no lock, because lcores share nothing: "I must have a
\* dedicated hardware RX and TX queue per logical core [...] These queues
\* cannot be shared by cores without using locks" (init.c:308-310).  No two
\* running lcores send on the same queue of a port or have the same FIB, the
\* queues in use are those the port was configured with, and for a port mask
\* without holes no two lcores poll the same queue.  With a FIB for two, the
\* control plane, which goes by lcores, would apply every command twice.
NothingShared ==
  Started =>
    /\ \A l, m \in running :
         \/ fib[l] = fib[m] /\ fib[l] # NULL
         \/ \E p \in InUse : tx[l][p] = tx[m][p]
         => l = m
    /\ \A p \in InUse :
         {tx[l][p] : l \in Forwarding} = 0 .. configured - 1
    /\ DensePorts =>
         \A l, m \in running : Polls(l) \cap Polls(m) # {} => l = m

\* An Interest and the Data that answers it meet the same PIT: the NIC puts a
\* packet into the queue that the CRC of its name selects, whatever the port
\* ("the CRC32 hash of the content name", defaults.h:97-101), so the queues of
\* one number must belong to one lcore.
NameHasOneLcore ==
  Started /\ DensePorts =>
    \A l, m \in running, p, r \in InUse, q \in 0 .. configured - 1 :
      <<p, q>> \in Polls(l) /\ <<r, q>> \in Polls(m) => l = m

\* With masks without holes, every queue that a NIC spreads packets over is
\* polled: none of them fills up unread.  With holes in the core mask it is not
\* so, although init_queues reckons with them (init.c:194-197): MAIN launches
\* lcores 1, 2, ..., by number (main.c:285).
QueuesServed ==
  \A p \in InUse, q \in 0 .. configured - 1 :
    \E l \in running : <<p, q>> \in Polls(l)
ServedWhenDense == Started /\ DensePorts /\ DenseLcores => QueuesServed

\* The faces the control plane accepts for an lcore (control_plane.c:122) are
\* the ports in use, whatever number a command names.  A face equal to nb_ports,
\* or a port the mask disables, passes the first test and fails by its empty
\* address; with a device for each element, nb_ports is behind the last.
FaceAccepted(l, f) == f <= devs /\ local[l][f] # 0
FacesArePorts ==
  Started => \A l \in running : {f \in Addresses : FaceAccepted(l, f)} = InUse
=============================================================================
