------------------------------- MODULE Control -------------------------------
(***************************************************************************)
(* The way of a command: the tool fib-ctrl (util/fib_control.c) sends it   *)
(* in one datagram to the socket of the router (main/init.c), ctrl_loop    *)
(* (main/control_plane.c) takes it apart and applies it to the FIB of one  *)
(* forwarding lcore after the other.  The tool never learns what became of *)
(* it: datagrams are lost when the router is down, listens nowhere or has  *)
(* its queue full, and whoever uses the tool sends again.  The router may  *)
(* end at any moment, and with it the socket and all FIBs.                 *)
(*                                                                         *)
(* An update of one FIB is one step here; FibRace has its stores.          *)
(***************************************************************************)
EXTENDS Integers, Sequences, FiniteSets

CONSTANTS
  MaxLcores,    \* APP_MAX_LCORES, the elements of lcore_conf
  MaxPorts,     \* APP_MAX_ETH_PORTS, the elements of port_addr
  Forwarding,   \* lcores with a FIB
  Prefixes,     \* name prefixes routes may be for
  NoPrefix,     \* the empty one
  Faces,        \* numbers of faces a command may name
  PortMasks,    \* the sets of ports -p may enable
  Messages,     \* what users tell the tool to send
  None,         \* no command
  Hash, Ways, Capacity,  \* of each FIB, as in module RouteTable
  QueueSize     \* datagrams the socket keeps

Lcores == 0 .. MaxLcores - 1

\* What a text asks for.  "CLR" stands for any other command; a "short" text
\* has less than three bytes, an "undelimited" one no second ':', and an
\* "overlong" one more than the four bytes behind it that sface has room for.
Ops == {"ADD", "DEL", "CLR", "short", "undelimited", "overlong"}

ASSUME LcoresAssumption ==
  MaxLcores \in Nat /\ Forwarding \subseteq Lcores /\ Forwarding # {}
ASSUME MessagesAssumption ==
  /\ Messages \subseteq [op : Ops, prefix : Prefixes \cup {NoPrefix}, face : Faces]
  /\ None \notin Messages /\ NoPrefix \notin Prefixes
ASSUME MasksAssumption ==
  /\ MaxPorts \in Nat \ {0} /\ Faces \subseteq Nat
  /\ \A M \in PortMasks : M \subseteq 0 .. MaxPorts - 1
ASSUME SizesAssumption == {Ways, Capacity, QueueSize} \subseteq Nat \ {0}

VARIABLES
  portmask, devs,  \* enabled ports; rte_eth_dev_count(), fixed at the start
  addr,      \* the elements of port_addr with an address other than zero, on
             \* every lcore
  proc,      \* the router: "down", "starting", "listening", "running"
  sock,      \* sockfd: "none" (-1), "unbound" or "bound"
  queue,     \* datagrams the socket keeps
  terminated,  \* whether a zero byte lies behind the three of command
  cmd,       \* the command ctrl_loop is applying, or None
  at,        \* the lcore it has come to
  fib        \* fib[l]: the routes of lcore l, how often each, and how many
             \* were ever added

config == <<portmask, devs, addr>>
vars   == <<config, proc, sock, queue, terminated, cmd, at, fib>>

Empty == [routes |-> [r \in Prefixes \X Faces |-> 0], added |-> 0]
Table(l) == INSTANCE RouteTable
              WITH routes <- fib[l].routes, added <- fib[l].added,
                   ret <- 0, call <- <<>>, Names <- {}, Path <- <<>>

\* get_nb_ports_available: the ports in use.
InUse == {p \in portmask : p < devs}

NoFibs == [l \in Forwarding |-> Empty]

Init ==
  /\ portmask = {} /\ devs = 0 /\ addr = {}
  /\ proc = "down" /\ sock = "none"
  /\ queue = <<>>
  /\ terminated \in BOOLEAN
  /\ cmd = None /\ at = 0
  /\ fib = NoFibs

-----------------------------------------------------------------------------
(* The router's process.                                                   *)

\* Up to init_fib_update_process, with the port mask and the devices of this
\* start.  init_addr_table gives an address to the ports in use.  With a device
\* for each element the face MaxPorts is behind the last one, in the padding
\* of the structure, which is zero (Startup!InitAddrTable).
Boot ==
  /\ proc = "down"
  /\ proc' = "starting"
  /\ portmask' \in PortMasks /\ devs' \in 1 .. MaxPorts
  /\ InUse' # {} /\ addr' = InUse'
  /\ UNCHANGED <<sock, queue, terminated, cmd, at, fib>>

\* init_fib_update_process: whether socket and bind succeed or not, start-up
\* goes on.  From here on datagrams are kept.
InitFibUpdateProcess ==
  /\ proc = "starting"
  /\ proc' = "listening"
  /\ sock' \in {"none", "unbound", "bound"}
  /\ UNCHANGED <<config, queue, terminated, cmd, at, fib>>

\* MAIN enters ctrl_loop.
StartLoop ==
  /\ proc = "listening"
  /\ proc' = "running"
  /\ UNCHANGED <<config, sock, queue, terminated, cmd, at, fib>>

Stop ==
  /\ portmask' = {} /\ devs' = 0 /\ addr' = {}
  /\ proc' = "down" /\ sock' = "none" /\ queue' = <<>>
  /\ cmd' = None /\ at' = 0 /\ fib' = NoFibs
  /\ UNCHANGED terminated

\* The end of the process, by rte_exit, a signal or a fault of an lcore.
Exit == proc # "down" /\ Stop

-----------------------------------------------------------------------------
(* The tool and the socket.                                                *)

\* A packet with a header and a name; the tool copies the header before it
\* sets pkt_len, and adds no offsets of name components.
Packet(m) == [pkt_len |-> 0, name |-> m]

\* fib-ctrl sends m.  The tool's own errors leave all as it was.
Send(m) ==
  /\ sock = "bound" /\ Len(queue) < QueueSize
  /\ queue' = Append(queue, Packet(m))
  /\ UNCHANGED <<config, proc, sock, terminated, cmd, at, fib>>

-----------------------------------------------------------------------------
(* ctrl_loop.                                                              *)

\* parse_packet: the name is set, and the result is an error unless there is
\* something behind the name.
Parsed(d) == [name |-> d.name, error |-> d.pkt_len = 0]

\* Faulty variant of Understood: the result of parse_packet is obeyed.
UnderstoodIfParsed(d) == ~Parsed(d).error

\* What the loop asks of a packet: nothing, it ignores the result.
Understood(d) == TRUE

\* ADD and DEL are compared with three bytes that have no terminator: whether
\* the loop knows them is up to the byte that lies behind.
Known(d) == /\ Understood(d) /\ terminated
            /\ Parsed(d).name.op \in {"ADD", "DEL"}

Waiting == proc = "running" /\ cmd = None

\* recvfrom without a socket, or an error of it, ends the router.
ReceiveFails == Waiting /\ sock = "none" /\ Stop

\* recvfrom takes the datagram out of the socket, whatever comes of it.  What
\* the loop leaves on the stack is anything.
Received == Head(queue)
Receive ==
  /\ Waiting /\ queue # <<>>
  /\ queue' = Tail(queue)
  /\ terminated' \in BOOLEAN
  /\ UNCHANGED <<config, proc, sock, fib>>

\* No command the loop knows.
Discard == Receive /\ ~Known(Received) /\ UNCHANGED <<cmd, at>>

TakeCommand ==
  /\ Receive /\ Known(Received)
  /\ cmd' = Parsed(Received).name /\ at' = 0

Commands == {m \in Messages : m.op \in {"ADD", "DEL"} /\ m.prefix # NoPrefix}

\* An overlong face is copied into sface and beyond.  Behind an undelimited
\* text strchr may find a ':' that an older datagram has left in the buffer:
\* the length of the face is then below zero, and up to 64 KB are copied.
Overruns == Received.name.op \in {"undelimited", "overlong"}

\* Whatever is overwritten, the loop goes on with any command, or with none
\* (Discard) ...
TakeGarbled ==
  /\ Receive /\ Overruns
  /\ cmd' \in Commands /\ at' = 0

\* ... or the router ends.
Fault == Waiting /\ queue # <<>> /\ Overruns /\ Stop

\* Faulty variants of ToNextLcore: the loop is left after the first FIB; it
\* goes on for one lcore too many.
LoopEndsEarly ==
  IF at \notin Forwarding /\ at + 1 \in Lcores
  THEN at' = at + 1 /\ UNCHANGED cmd
  ELSE at' = 0 /\ cmd' = None
LoopEndsLate ==
  IF at \in Lcores THEN at' = at + 1 /\ UNCHANGED cmd
                   ELSE at' = 0 /\ cmd' = None

\* The next lcore, or the next datagram.
ToNextLcore ==
  IF at + 1 \in Lcores THEN at' = at + 1 /\ UNCHANGED cmd
                       ELSE at' = 0 /\ cmd' = None

\* Faulty variant of Accepts: only the number is looked at.
AcceptsByNumber(f) == f <= devs

\* A face passes if it is not above the number of ports and its address is not
\* zero.
Accepts(f) == f <= devs /\ f \in addr

Applying == proc = "running" /\ cmd # None

Unaffected == UNCHANGED <<config, proc, sock, queue, terminated>>

\* No FIB, as on the lcore of the control plane, a face that is no port, or
\* the empty prefix.
SkipLcore ==
  /\ Applying
  /\ at \notin Forwarding \/ ~Accepts(cmd.face) \/ cmd.prefix = NoPrefix
  /\ ToNextLcore
  /\ Unaffected /\ UNCHANGED fib

Applies(op) == /\ Applying /\ cmd.op = op
               /\ at \in Forwarding /\ Accepts(cmd.face) /\ cmd.prefix # NoPrefix

AddRoute ==
  /\ Applies("ADD") /\ ~Table(at)!Exhausted(cmd.prefix)
  /\ fib' = [fib EXCEPT ![at].routes[<<cmd.prefix, cmd.face>>] = @ + 1,
                        ![at].added = @ + 1]
  /\ ToNextLcore
  /\ Unaffected

AddRefused ==
  /\ Applies("ADD") /\ Table(at)!Exhausted(cmd.prefix)
  /\ ToNextLcore
  /\ Unaffected /\ UNCHANGED fib

DeleteRoute ==
  /\ Applies("DEL") /\ fib[at].routes[<<cmd.prefix, cmd.face>>] > 0
  /\ fib' = [fib EXCEPT ![at].routes[<<cmd.prefix, cmd.face>>] = @ - 1]
  /\ ToNextLcore
  /\ Unaffected

DeleteMissing ==
  /\ Applies("DEL") /\ fib[at].routes[<<cmd.prefix, cmd.face>>] = 0
  /\ ToNextLcore
  /\ Unaffected /\ UNCHANGED fib

CtrlLoop == \/ ReceiveFails \/ Discard \/ TakeCommand \/ TakeGarbled \/ Fault
            \/ SkipLcore \/ AddRoute \/ AddRefused
            \/ DeleteRoute \/ DeleteMissing

Next == \/ Boot \/ InitFibUpdateProcess \/ StartLoop \/ Exit
        \/ \E m \in Messages : Send(m)
        \/ CtrlLoop

Spec == Init /\ [][Next]_vars

\* The master lcore goes on: it ends the start-up, and its loop never sleeps
\* but for want of a datagram.
Fairness == WF_vars(StartLoop) /\ WF_vars(CtrlLoop)

FairSpec == Spec /\ Fairness

-----------------------------------------------------------------------------
(* Properties.                                                             *)

\* Type invariant.
TypeOK ==
  /\ portmask \subseteq 0 .. MaxPorts - 1 /\ devs \in 0 .. MaxPorts
  /\ addr \subseteq 0 .. MaxPorts
  /\ proc \in {"down", "starting", "listening", "running"}
  /\ sock \in {"none", "unbound", "bound"}
  /\ queue \in Seq([pkt_len : {0}, name : Messages]) /\ Len(queue) <= QueueSize
  /\ terminated \in BOOLEAN
  /\ cmd \in Messages \cup {None}
  /\ at \in Lcores
  /\ fib \in [Forwarding -> [routes : [Prefixes \X Faces -> 0 .. Capacity],
                             added : 0 .. Capacity]]

\* A route is for a port in use since this start of the router, whatever
\* numbers commands name and whatever an earlier start had enabled: the number
\* of ports, which passes the first test of control_plane.c:122, and ports the
\* mask disables are refused by their address, and no route outlives the masks
\* it was made under.  The data plane has no transmit queue for other faces.
RoutesLeadToPorts ==
  \A l \in Forwarding, p \in Prefixes, f \in Faces :
    fib[l].routes[<<p, f>>] > 0 => f \in InUse

\* The table that the lcores follow: that of the last lcore, after the
\* command that is being applied, if it has not come there yet.
Last     == CHOOSE l \in Forwarding : \A m \in Forwarding : m <= l
R(t)     == INSTANCE ReplicatedTable WITH table <- t, copy <- fib
ToCome   == cmd # None /\ cmd.prefix # NoPrefix /\ Accepts(cmd.face) /\ at <= Last
Meant    == IF ToCome THEN R(Empty)!After(fib[Last], cmd) ELSE fib[Last]
Replicas == INSTANCE ReplicatedTable WITH table <- Meant, copy <- fib

\* For those who send commands there is one table of which each lcore has a
\* copy: datagrams lost, repeated, refused or of no sense included, no lcore
\* misses a command another lcore has followed, none gets a command twice,
\* and none is ahead by more than the command being applied.  A router that
\* starts again begins with an empty table on every lcore.
ImplementsReplicatedTable == Replicas!Spec

\* The socket keeps command m.
Kept(m) == \E i \in DOMAIN queue : queue[i].name = m

\* The control plane never gets stuck in a command; and an ADD or DEL that the
\* socket keeps is taken and applied, although the loop finds an error in every
\* packet of the tool (parse_packet, control_plane.c:83) and whatever comes
\* before it in the queue: unless the router ends, which some texts bring
\* about, and as long as a zero byte follows the three of command
\* (control_plane.c:116).
CommandsTaken ==
  /\ []<>(cmd = None)
  /\ []terminated => \A m \in Commands : Kept(m) ~> cmd = m \/ proc = "down"
=============================================================================
