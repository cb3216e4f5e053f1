---------------------------- MODULE ContentStore ----------------------------
(***************************************************************************)
(* What a Content Store promises (lib/cs/cs.h): a queue of named packets.  *)
(* A new packet goes to the back; when the store is full the packet at the *)
(* front is released to make room.  A packet is refused only when as many  *)
(* packets as a bucket has slots hash to its bucket already.  A name may be*)
(* stored more than once, and a lookup returns any packet of that name.    *)
(* Module Cs implements this specification with a hash table and a ring.   *)
(***************************************************************************)
EXTENDS Integers, Sequences, FiniteSets

CONSTANTS
  Names,     \* content names
  Mbufs,     \* packet buffers
  NoMbuf,    \* NULL
  Hash,      \* the bucket each name belongs to
  Ways,      \* slots per bucket
  Capacity   \* packets the store holds

\* errno.h
ENOSPC == 28

VARIABLES
  store,     \* the packets stored, oldest first
  ret,       \* what the last call returned, and the buffer it freed
  call       \* the call that was made last, with its arguments

vars == <<store, ret, call>>

Packet == [name : Names, mbuf : Mbufs]

Answer(c, hit, freed) == [code |-> c, mbuf |-> hit, freed |-> freed]

Stored == {store[k] : k \in DOMAIN store}

\* The stored packets that share n's bucket, and those of name n.
SameBucket(n) == {k \in DOMAIN store : Hash[store[k].name] = Hash[n]}
Copies(n)     == {p \in Stored : p.name = n}

Init ==
  /\ store = <<>>
  /\ ret = Answer(0, NoMbuf, NoMbuf)
  /\ call = <<>>

\* The caller hands over a buffer the store does not hold yet.
Store(n, m) ==
  /\ \A p \in Stored : p.mbuf # m
  /\ Cardinality(SameBucket(n)) < Ways
  /\ IF Len(store) = Capacity
     THEN /\ store' = Append(Tail(store), [name |-> n, mbuf |-> m])
          /\ ret' = Answer(0, NoMbuf, Head(store).mbuf)
     ELSE /\ store' = Append(store, [name |-> n, mbuf |-> m])
          /\ ret' = Answer(0, NoMbuf, NoMbuf)

Refuse(n) ==
  /\ Cardinality(SameBucket(n)) = Ways
  /\ ret' = Answer(-ENOSPC, NoMbuf, NoMbuf)
  /\ UNCHANGED store

Find(n) ==
  /\ IF Copies(n) = {}
     THEN ret' = Answer(0, NoMbuf, NoMbuf)
     ELSE \E p \in Copies(n) : ret' = Answer(0, p.mbuf, NoMbuf)
  /\ UNCHANGED store

Next ==
  \E n \in Names :
    \/ \E m \in Mbufs : /\ Store(n, m) \/ Refuse(n)
                       /\ call' = <<"insert", n, m>>
    \/ Find(n) /\ call' = <<"lookup", n>>

Spec == Init /\ [][Next]_vars
=============================================================================
