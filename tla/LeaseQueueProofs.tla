-------------------------- MODULE LeaseQueueProofs --------------------------
(* Proofs about LeaseQueue, for any makers and takers.                     *)
EXTENDS LeaseQueue, TLAPS

\* Indices are handed out in order, so the next one is new.
Fresh == \A e \in Messages : e.index < count

Inv == TypeOK /\ Fresh /\ OnePlace

LEMMA InitInv == Init => Inv
  BY DEF Init, Inv, TypeOK, Fresh, OnePlace, Messages, EntriesOf

\* A stored message takes the next index, which no other message has.
LEMMA StoreInv ==
  ASSUME Inv, NEW m \in Makers, Store(m)
  PROVE  Inv'
<1> DEFINE new == [index |-> count, job |-> m]
<1>1. Messages' = Messages \cup {new}
  BY DEF Store, Messages, EntriesOf
<1>2. new \in Message /\ new.index = count /\ count \in Nat
  BY DEF Inv, TypeOK, Message
<1>3. TypeOK'
  BY <1>2 DEF Inv, TypeOK, Store
<1>4. \A e \in Messages : e.index \in Nat /\ e.index < count
  BY DEF Inv, TypeOK, Fresh, Messages, EntriesOf, Message, Agreement
<1>5. Fresh'
  BY <1>1, <1>2, <1>4 DEF Fresh, Store
<1>6. new \notin Messages
  BY <1>2, <1>4
<1>7. OnePlace'
  <2>1. \A i \in 0..(count' - 1) : \E e \in Messages' : e.index = i
    <3> SUFFICES ASSUME NEW i \in 0..(count' - 1)
                 PROVE  \E e \in Messages' : e.index = i
      OBVIOUS
    <3>1. CASE i = count
      BY <3>1, <1>1, <1>2
    <3>2. CASE i # count
      <4>1. i \in 0..(count - 1)
        BY <3>2, <1>2 DEF Store
      <4> QED
        BY <4>1, <1>1 DEF Inv, OnePlace
    <3> QED
      BY <3>1, <3>2
  <2>2. \A e, f \in Messages' : e.index = f.index => e = f
    BY <1>1, <1>2, <1>4 DEF Inv, OnePlace
  <2>3. \A e \in waiting' : e \notin (EntriesOf(leases) \cup EntriesOf(settled))'
    BY <1>6 DEF Inv, OnePlace, Store, Messages, EntriesOf
  <2>4. \A l, n \in (leases \cup settled)' : l.entry = n.entry => l = n
    BY DEF Inv, OnePlace, Store
  <2>5. (leases \cap settled)' = {}
    BY DEF Inv, OnePlace, Store
  <2> QED
    BY <2>1, <2>2, <2>3, <2>4, <2>5 DEF OnePlace
<1> QED
  BY <1>3, <1>5, <1>7 DEF Inv

\* The other steps move messages, so the messages and their indices stay.
LEMMA MoveInv ==
  ASSUME Inv, TypeOK', Messages' = Messages, count' = count,
         \A e \in waiting' : e \notin (EntriesOf(leases) \cup EntriesOf(settled))',
         \A l, n \in (leases \cup settled)' : l.entry = n.entry => l = n,
         (leases \cap settled)' = {}
  PROVE  Inv'
  BY DEF Inv, Fresh, OnePlace

LEMMA LeaseInv ==
  ASSUME Inv, NEW t \in Takers, Lease(t)
  PROVE  Inv'
<1> PICK e \in waiting :
      /\ waiting' = waiting \ {e}
      /\ leases' = leases \cup {[taker |-> t, entry |-> e]}
  BY DEF Lease
<1> DEFINE new == [taker |-> t, entry |-> e]
<1>1. UNCHANGED <<settled, count>>
  BY DEF Lease
<1>2. new \in Agreement /\ new.entry = e
  BY DEF Inv, TypeOK, Agreement
<1>3. TypeOK'
  BY <1>1, <1>2 DEF Inv, TypeOK
<1>4. EntriesOf(leases)' = EntriesOf(leases) \cup {e}
  BY <1>2 DEF EntriesOf
<1>5. Messages' = Messages
  BY <1>1, <1>4 DEF Messages, EntriesOf
<1>6. \A f \in waiting' : f \notin (EntriesOf(leases) \cup EntriesOf(settled))'
  BY <1>1, <1>4 DEF Inv, OnePlace, EntriesOf
<1>7. \A l \in leases \cup settled : l.entry # e
  BY DEF Inv, OnePlace, EntriesOf
<1>8. \A l, n \in (leases \cup settled)' : l.entry = n.entry => l = n
  BY <1>1, <1>2, <1>7 DEF Inv, OnePlace
<1>9. (leases \cap settled)' = {}
  BY <1>1, <1>2, <1>7 DEF Inv, OnePlace
<1> QED
  BY <1>1, <1>3, <1>5, <1>6, <1>8, <1>9, MoveInv

LEMMA SettleInv ==
  ASSUME Inv, NEW l \in leases, Settle(l)
  PROVE  Inv'
<1>1. TypeOK'
  BY DEF Inv, TypeOK, Settle
<1>2. (leases \cup settled)' = leases \cup settled
  BY DEF Settle
<1>3. (EntriesOf(leases) \cup EntriesOf(settled))' = EntriesOf(leases) \cup EntriesOf(settled)
  BY DEF Settle, EntriesOf
<1>4. Messages' = Messages
  BY <1>3 DEF Messages, Settle
<1> QED
  BY <1>1, <1>2, <1>3, <1>4, MoveInv DEF Inv, OnePlace, Settle

LEMMA ReleaseInv ==
  ASSUME Inv, NEW l \in leases, Release(l)
  PROVE  Inv'
<1>1. TypeOK'
  BY DEF Inv, TypeOK, Release, Agreement
<1>2. \A m \in leases \cup settled : m # l => m.entry # l.entry
  BY DEF Inv, OnePlace
<1>3. Messages' = Messages
  BY DEF Messages, Release, EntriesOf
<1>4. \A e \in waiting' : e \notin (EntriesOf(leases) \cup EntriesOf(settled))'
  <2>1. l \notin settled
    BY DEF Inv, OnePlace
  <2> QED
    BY <1>2, <2>1 DEF Inv, OnePlace, Release, EntriesOf
<1>5. \A m, n \in (leases \cup settled)' : m.entry = n.entry => m = n
  BY DEF Inv, OnePlace, Release
<1>6. (leases \cap settled)' = {}
  BY DEF Inv, OnePlace, Release
<1> QED
  BY <1>1, <1>3, <1>4, <1>5, <1>6, MoveInv DEF Release

LEMMA NextInv == Inv /\ [Next]_vars => Inv'
<1> SUFFICES ASSUME Inv, [Next]_vars PROVE Inv'
  OBVIOUS
<1>1. CASE \E m \in Makers : Store(m)
  BY <1>1, StoreInv
<1>2. CASE \E t \in Takers : Lease(t)
  BY <1>2, LeaseInv
<1>3. CASE \E l \in leases : Settle(l) \/ Release(l)
  BY <1>3, SettleInv, ReleaseInv
<1>4. CASE UNCHANGED vars
  BY <1>4 DEF vars, Inv, TypeOK, Fresh, OnePlace, Messages, EntriesOf
<1> QED
  BY <1>1, <1>2, <1>3, <1>4 DEF Next

\* Every message ever stored stays in exactly one place.
THEOREM OnePlaceAlways == Spec => []OnePlace
<1>1. Spec => []Inv
  BY InitInv, NextInv, PTL DEF Spec
<1>2. Inv => OnePlace
  BY DEF Inv
<1> QED
  BY <1>1, <1>2, PTL
=============================================================================
