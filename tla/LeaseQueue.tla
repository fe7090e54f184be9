----------------------------- MODULE LeaseQueue -----------------------------
(***************************************************************************)
(* What a queue of the message broker promises, without connections,       *)
(* handler threads or handshakes: a message is stored once, at the end of  *)
(* the line; it is leased to one taker at a time, oldest first; a lease    *)
(* ends by settling the message, which is then gone for good, or by        *)
(* releasing it, which puts it back in its old place.                      *)
(***************************************************************************)
EXTENDS Integers

CONSTANTS
  Makers,  \* identities under which a message is stored
  Takers   \* identities under which a message is leased

Message   == [index : Nat, job : Makers]
Agreement == [taker : Takers, entry : Message]

VARIABLES
  waiting,  \* messages ready to be leased
  leases,   \* messages held, each by the taker it was leased to
  settled,  \* messages taken for good, each by its taker
  count     \* number of messages ever stored

vars == <<waiting, leases, settled, count>>

Init == waiting = {} /\ leases = {} /\ settled = {} /\ count = 0

\* A maker stores its message behind all others.
Store(m) ==
  /\ waiting' = waiting \cup {[index |-> count, job |-> m]}
  /\ count' = count + 1
  /\ UNCHANGED <<leases, settled>>

\* The oldest waiting message goes to a taker that never held one.
Lease(t) ==
  /\ \A l \in leases \cup settled : l.taker # t
  /\ \E e \in waiting :
       /\ \A f \in waiting : e.index <= f.index
       /\ waiting' = waiting \ {e}
       /\ leases' = leases \cup {[taker |-> t, entry |-> e]}
  /\ UNCHANGED <<settled, count>>

\* The taker settles its lease.
Settle(l) ==
  /\ leases' = leases \ {l}
  /\ settled' = settled \cup {l}
  /\ UNCHANGED <<waiting, count>>

\* The lease ends without being settled.
Release(l) ==
  /\ leases' = leases \ {l}
  /\ waiting' = waiting \cup {l.entry}
  /\ UNCHANGED <<settled, count>>

Next ==
  \/ \E m \in Makers : Store(m)
  \/ \E t \in Takers : Lease(t)
  \/ \E l \in leases : Settle(l) \/ Release(l)

Spec == Init /\ [][Next]_vars

-----------------------------------------------------------------------------
EntriesOf(S) == {l.entry : l \in S}
Messages == waiting \cup EntriesOf(leases) \cup EntriesOf(settled)

TypeOK ==
  /\ waiting \subseteq Message
  /\ leases \subseteq Agreement /\ settled \subseteq Agreement
  /\ count \in Nat

\* Every message ever stored is in exactly one place: waiting, in one lease,
\* or settled once.
OnePlace ==
  /\ \A i \in 0..(count - 1) : \E e \in Messages : e.index = i
  /\ \A e, f \in Messages : e.index = f.index => e = f
  /\ \A e \in waiting : e \notin EntriesOf(leases) \cup EntriesOf(settled)
  /\ \A l, m \in leases \cup settled : l.entry = m.entry => l = m
  /\ leases \cap settled = {}
=============================================================================
