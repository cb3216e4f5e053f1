-------------------------------- MODULE Stats --------------------------------
(***************************************************************************)
(* The counters of the forwarding lcores, and the signal handler of main.c *)
(* that prints (SIGUSR1) and resets (SIGUSR2) them beside the loops:       *)
(* "there is no concurrent access control on them, not even atomic         *)
(* read/write operations" (README.md:111-114).  So an increment is a load  *)
(* and a store, and the handlers read and write one counter at a time.     *)
(*                                                                         *)
(* The kernel runs a handler on any thread of the process, possibly inside *)
(* the loop, and one signal may interrupt the handler of the other: every  *)
(* such execution is among the interleavings here.  A signal is blocked    *)
(* while its own handler runs, so there is one handler of each kind.       *)
(***************************************************************************)
EXTENDS Integers, Sequences, FiniteSets, FiniteSetsExt

CONSTANTS
  CoreMasks,   \* the sets of lcores -c may enable
  Counters,    \* fields of struct stats, in the order the handlers visit them
  Width,       \* counters are taken modulo this; 2^32 in the code
  None,        \* no value loaded
  MaxPackets,  \* bound: packets handled
  MaxResets    \* bound: SIGUSR2 signals

ASSUME MasksAssumption ==
  \A E \in CoreMasks : IsFiniteSet(E) /\ E \subseteq Nat /\ 0 \in E
\* The fields of a struct have different names.
ASSUME CountersAssumption ==
  /\ Counters \in Seq(STRING) \ {<<>>}
  /\ \A j, k \in DOMAIN Counters : Counters[j] = Counters[k] => j = k
ASSUME WidthAssumption == Width \in Nat \ {0} /\ None \notin Nat
ASSUME BoundsAssumption == MaxPackets \in Nat /\ MaxResets \in Nat

\* What icn_fwd and send_burst increment for a packet, in order; a counter
\* that goes up by more is as if there were more packets.
IcnFwdPaths ==
  {<<"int_recv", c>> : c \in {"sw_pkt_drop", "int_pit_hit", "int_no_route",
                              "int_fib_loop", "int_fib_hit"}}
    \cup {<<"malformed">>, <<"int_recv", "int_cs_hit", "data_sent">>,
          <<"data_recv", "data_pit_miss">>, <<"data_recv", "data_sent">>,
          <<"nic_pkt_drop">>}

Fields == {Counters[k] : k \in DOMAIN Counters}

\* The same, as far as the counters of this instance go.
Paths == (Seq(Fields) \ {<<>>})
           \cap {SelectSeq(p, LAMBDA c : c \in Fields) : p \in IcnFwdPaths}

VARIABLES
  enabled,   \* the lcores of the command line
  mem,       \* mem[l][c]: lcore_conf[l].stats.c
  todo,      \* todo[l]: the counters lcore l has yet to increment
  reg,       \* reg[l]: the value it has loaded and not stored back
  print,     \* where print_stats is, what it has printed, and its sums
  reset,     \* where reset_stats is
  total,     \* history: increments made, by lcore and counter
  marks,     \* history: the totals at which a reset stored zero
  base,      \* history: the last of them
  clean,     \* history: no reset since the last complete one met any traffic
  packets, resets  \* how much of the bounds is used up

traffic == <<todo, reg, total, packets>>
history == <<marks, base, clean>>
vars    == <<enabled, mem, print, reset, resets, traffic, history>>

Lcores == UNION CoreMasks

\* get_nb_lcores_available: both handlers visit the ids below this number.
NbLcores == Cardinality(enabled)

\* The lcores that MAIN launches the loop on.
Forwarding == {l \in enabled : 1 <= l /\ l < NbLcores}

Zero == [c \in Fields |-> 0]
Idle == [on |-> FALSE, lcore |-> 0, k |-> 1, quiet |-> FALSE]
NotPrinting == [pos |-> Idle, part |-> "line", line |-> [l \in Lcores |-> Zero],
                sum |-> Zero]

\* MAIN resets the counters before it launches the loops.
Init ==
  /\ enabled \in CoreMasks
  /\ mem = [l \in Lcores |-> Zero]
  /\ todo = [l \in Lcores |-> <<>>]
  /\ reg = [l \in Lcores |-> None]
  /\ print = NotPrinting
  /\ reset = Idle
  /\ total = [l \in Lcores |-> Zero]
  /\ marks = [l \in Lcores |-> [c \in Fields |-> {0}]]
  /\ base = [l \in Lcores |-> Zero]
  /\ clean = TRUE
  /\ packets = 0 /\ resets = 0

-----------------------------------------------------------------------------
(* A forwarding lcore.                                                     *)

NoTraffic == \A l \in Forwarding : todo[l] = <<>>

Disturb(pos) == [pos EXCEPT !.quiet = FALSE]

\* Faulty variant of StatsOf: one struct for all lcores.
StatsOfAll(l) == 1

\* conf->stats of the loop on lcore l.
StatsOf(l) == l

\* A packet arrives; the handlers that are on its way are not quiet.
Receive(l) ==
  /\ todo[l] = <<>> /\ packets < MaxPackets
  /\ \E p \in Paths : todo' = [todo EXCEPT ![l] = p]
  /\ packets' = packets + 1
  /\ print' = [print EXCEPT !.pos = Disturb(@)]
  /\ reset' = Disturb(reset)
  /\ UNCHANGED <<enabled, mem, reg, total, resets, history>>

Load(l) ==
  /\ todo[l] # <<>> /\ reg[l] = None
  /\ reg' = [reg EXCEPT ![l] = mem[StatsOf(l)][Head(todo[l])]]
  /\ UNCHANGED <<enabled, mem, todo, print, reset, total, packets, resets, history>>

Store(l) ==
  /\ reg[l] # None
  /\ mem' = [mem EXCEPT ![StatsOf(l)][Head(todo[l])] = (reg[l] + 1) % Width]
  /\ total' = [total EXCEPT ![l][Head(todo[l])] = @ + 1]
  /\ todo' = [todo EXCEPT ![l] = Tail(@)]
  /\ reg' = [reg EXCEPT ![l] = None]
  /\ UNCHANGED <<enabled, print, reset, packets, resets, history>>

-----------------------------------------------------------------------------
(* reset_stats.                                                            *)

\* The next counter: all of an lcore, then the next lcore.
Advance(pos) == IF pos.k < Len(Counters) THEN [pos EXCEPT !.k = @ + 1]
                ELSE [pos EXCEPT !.k = 1, !.lcore = @ + 1]

\* Faulty variants of AtEnd: the last lcore is left out; one too many.
AtEndEarly(pos) == pos.lcore = NbLcores - 1
AtEndLate(pos)  == pos.lcore = NbLcores + 1

AtEnd(pos) == pos.lcore = NbLcores

\* A reset that meets traffic leaves the counters in an uncertain state.
BeginReset ==
  /\ ~reset.on /\ resets < MaxResets
  /\ reset' = [Idle EXCEPT !.on = TRUE, !.quiet = NoTraffic]
  /\ print' = [print EXCEPT !.pos = Disturb(@)]
  /\ resets' = resets + 1
  /\ clean' = FALSE
  /\ UNCHANGED <<enabled, mem, traffic, marks, base>>

ResetCounter ==
  LET l == reset.lcore
      c == Counters[reset.k]
  IN /\ reset.on /\ ~AtEnd(reset)
     /\ mem' = [mem EXCEPT ![l][c] = 0]
     /\ marks' = [marks EXCEPT ![l][c] = @ \cup {total[l][c]}]
     /\ base' = [base EXCEPT ![l][c] = total[l][c]]
     /\ reset' = Advance(reset)
     /\ UNCHANGED <<enabled, print, clean, resets, traffic>>

EndReset ==
  /\ reset.on /\ AtEnd(reset)
  /\ clean' = reset.quiet
  /\ reset' = Idle
  /\ UNCHANGED <<enabled, mem, print, marks, base, resets, traffic>>

-----------------------------------------------------------------------------
(* print_stats: for each lcore a line per counter, and then a second look  *)
(* at each counter for the cumulative statistics.                          *)

BeginPrint ==
  /\ ~print.pos.on
  /\ print' = [NotPrinting EXCEPT !.pos.on = TRUE,
                                  !.pos.quiet = NoTraffic /\ ~reset.on]
  /\ UNCHANGED <<enabled, mem, reset, resets, traffic, history>>

\* At the end of an lcore's lines come its additions, and after these the
\* next lcore.
AdvancePrint ==
  LET last == print.pos.k = Len(Counters)
  IN CASE ~last -> [print EXCEPT !.pos.k = @ + 1]
       [] last /\ print.part = "line" -> [print EXCEPT !.pos.k = 1, !.part = "add"]
       [] OTHER -> [print EXCEPT !.pos = Advance(@), !.part = "line"]

Printing(part) == print.pos.on /\ ~AtEnd(print.pos) /\ print.part = part

SkipDisabled ==
  /\ Printing("line") /\ print.pos.lcore \notin enabled
  /\ print' = [print EXCEPT !.pos.lcore = @ + 1]
  /\ UNCHANGED <<enabled, mem, reset, resets, traffic, history>>

PrintLine ==
  LET l == print.pos.lcore
      c == Counters[print.pos.k]
  IN /\ Printing("line") /\ l \in enabled
     /\ print' = [AdvancePrint EXCEPT !.line[l][c] = mem[l][c]]
     /\ UNCHANGED <<enabled, mem, reset, resets, traffic, history>>

AddToSum ==
  LET l == print.pos.lcore
      c == Counters[print.pos.k]
  IN /\ Printing("add")
     /\ print' = [AdvancePrint EXCEPT !.sum[c] = (@ + mem[l][c]) % Width]
     /\ UNCHANGED <<enabled, mem, reset, resets, traffic, history>>

EndPrint ==
  /\ print.pos.on /\ AtEnd(print.pos)
  /\ print' = NotPrinting
  /\ UNCHANGED <<enabled, mem, reset, resets, traffic, history>>

-----------------------------------------------------------------------------

Loop(l) == Receive(l) \/ Load(l) \/ Store(l)

Next == \/ \E l \in Forwarding : Loop(l)
        \/ BeginReset \/ ResetCounter \/ EndReset
        \/ BeginPrint \/ SkipDisabled \/ PrintLine \/ AddToSum \/ EndPrint

Spec == Init /\ [][Next]_vars

-----------------------------------------------------------------------------
(* Properties.                                                             *)

Values    == 0 .. Width - 1
Positions == [on : BOOLEAN, lcore : 0 .. NbLcores, k : DOMAIN Counters,
              quiet : BOOLEAN]

\* Type invariant.
TypeOK ==
  /\ enabled \in CoreMasks
  /\ mem \in [Lcores -> [Fields -> Values]]
  /\ todo \in [Lcores -> Seq(Fields)]
  /\ reg \in [Lcores -> Values \cup {None}]
  /\ print \in [pos : Positions, part : {"line", "add"},
                line : [Lcores -> [Fields -> Values]], sum : [Fields -> Values]]
  /\ reset \in Positions
  /\ total \in [Lcores -> [Fields -> Nat]]
  /\ base \in [Lcores -> [Fields -> Nat]]
  /\ marks \in [Lcores -> [Fields -> SUBSET Nat]]
  /\ \A l \in Lcores, c \in Fields : base[l][c] \in marks[l][c]
  /\ clean \in BOOLEAN
  /\ packets \in 0 .. MaxPackets /\ resets \in 0 .. MaxResets

\* Whatever the traffic, a counter is never nonsense: it shows all events
\* since the start or since some reset.  A reset that comes between the load
\* and the store of an increment (data_plane.c:257) is undone as a whole.
CountsSinceAReset ==
  \A l \in Forwarding, c \in Fields :
    \E m \in marks[l][c] : mem[l][c] = (total[l][c] - m) % Width

\* "Statistics can be printed or reset when there is no traffic being handled"
\* (README.md:114-115): a report printed so, after resets made so, gives for
\* each lcore the events since the last reset, and their sums.  One reset
\* without traffic makes up for earlier ones with it.
ReportIsTrue ==
  print.pos.on /\ AtEnd(print.pos) /\ print.pos.quiet /\ clean =>
    \A c \in Fields :
      /\ \A l \in Forwarding :
           print.line[l][c] = (total[l][c] - base[l][c]) % Width
      /\ print.sum[c] =
           MapThenSumSet(LAMBDA l : total[l][c] - base[l][c], Forwarding) % Width
=============================================================================
