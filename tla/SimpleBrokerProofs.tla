------------------------- MODULE SimpleBrokerProofs -------------------------
(***************************************************************************)
(* Proofs about SimpleBroker for any calls, queue size and number of       *)
(* attempts: its type invariant, that it implements LeaseQueue, so that    *)
(* every stored message is always in exactly one place, and what its calls *)
(* return: a push is told the truth, a message is delivered once, and it is *)
(* lost only with its connection.                                          *)
(***************************************************************************)
EXTENDS SimpleBroker, TLAPS

QueueProofs == INSTANCE LeaseQueueProofs WITH
  Makers <- PushConn, Takers <- PopConn,
  waiting <- queue, leases <- in_flight, settled <- Settled, count <- next_index

-----------------------------------------------------------------------------
(* The control state: what a handler's position says about the responses   *)
(* it has sent, and a call's position about its connections.               *)

\* A call waits on a connection of its own; those after it are not used yet.
CallControl ==
  /\ \A k \in Calls : call[k] \in {"wait_initial", "wait_final"} => attempt[k] >= 1
  /\ \A k \in Calls : \A n \in 1..Attempts[k] :
       n > attempt[k] => handler[<<k, n>>] = "absent"

\* Where a handler that popped a message still has it.
Holding == {"sending", "waiting", "raised"}
\* Its transaction was given a message, which is being sent or has been.
Offered(c) == handler[c] = "sending" \/ reply[c] = "offer"

\* The responses a handler has sent, by where it is.
HandlerControl ==
  \A c \in Conn :
    /\ handler[c] \in {"absent", "serving", "sending"} => reply[c] = "none" /\ final[c] = "none"
    /\ handler[c] \in {"waiting", "raised"} => reply[c] = "offer" /\ final[c] = "none"
    /\ handler[c] = "finished" => (reply[c] = "offer" <=> final[c] # "none")

\* Each transaction is offered one message, and holds it until it finishes.
LeaseControl ==
  /\ \A l \in offers : Offered(l.taker)
  /\ \A l, m \in offers : l.taker = m.taker => l = m
  /\ in_flight = {l \in offers : handler[l.taker] \in Holding}

\* TypeOK needs CallControl to be inductive: an attempt is given back only by
\* a call that has one.
TypeInv == TypeOK /\ CallControl
IInv == TypeInv /\ HandlerControl /\ LeaseControl

-----------------------------------------------------------------------------
(* Facts about connections.                                                *)

LEMMA ConnFact ==
  /\ \A k \in Calls : \A n \in 1..Attempts[k] : <<k, n>> \in Conn
  /\ \A c \in Conn : \E k \in Calls : \E n \in 1..Attempts[k] : c = <<k, n>>
  BY DEF Conn, PushConn, PopConn, ConnOf, Calls

LEMMA KindsDisjoint == PushConn \cap PopConn = {}
<1> SUFFICES ASSUME NEW c \in PushConn, c \in PopConn PROVE FALSE
  OBVIOUS
<1>1. PICK p \in Pushes : \E n \in 1..Attempts[p] : c = <<p, n>>
  BY DEF PushConn, ConnOf
<1>2. PICK k \in Pops : \E n \in 1..Attempts[k] : c = <<k, n>>
  BY DEF PopConn, ConnOf
<1> QED
  BY <1>1, <1>2, BrokerAssumption

\* The arithmetic of attempts.
LEMMA AttemptFact ==
  ASSUME TypeInv
  PROVE  /\ attempt \in [Calls -> Nat]
         /\ \A k \in Calls : /\ attempt[k] \in Nat /\ attempt[k] <= Attempts[k]
                             /\ Attempts[k] \in Nat /\ Attempts[k] >= 1
  BY BrokerAssumption DEF TypeInv, TypeOK

\* The connection a waiting call is on.
LEMMA CurrentFact ==
  ASSUME TypeInv, NEW k \in Calls, call[k] \in {"wait_initial", "wait_final"}
  PROVE  Current(k) \in Conn /\ attempt[k] \in 1..Attempts[k]
<1>1. attempt[k] >= 1
  BY DEF TypeInv, CallControl
<1>2. attempt[k] \in 1..Attempts[k]
  BY <1>1, AttemptFact
<1> QED
  BY <1>2, ConnFact DEF Current

-----------------------------------------------------------------------------
(* The type invariant.                                                     *)

LEMMA InitInv == Init => IInv
<1> SUFFICES ASSUME Init PROVE IInv
  OBVIOUS
<1>1. TypeOK
  BY BrokerAssumption DEF Init, TypeOK
<1>2. CallControl
  BY ConnFact DEF Init, CallControl
<1>3. HandlerControl
  BY DEF Init, HandlerControl
<1>4. LeaseControl
  BY DEF Init, LeaseControl
<1> QED
  BY <1>1, <1>2, <1>3, <1>4 DEF IInv, TypeInv

\* Requests are served only on connections that were opened, so no step of a
\* handler touches an unused one.
LEMMA HandleTypeInv ==
  ASSUME TypeInv, NEW c \in Conn, Handle(c)
  PROVE  TypeInv'
<1> USE DEF TypeOK, Goto, Answer, Finish, clientVars, queueVars
<1>1. TypeOK
  BY DEF TypeInv
<1>2. TypeOK'
  <2>1. CASE c \in PushConn /\ HandlePush(c)
    BY <1>1, <2>1 DEF HandlePush
  <2>2. CASE c \in PushConn /\ FinishPush(c)
    BY <1>1, <2>2 DEF FinishPush, push, Entry
  <2>3. CASE c \in PopConn /\ HandlePop(c)
    BY <1>1, <2>3 DEF HandlePop, pop, Lease
  <2>4. CASE c \in PopConn /\ FinishPop(c)
    BY <1>1, <2>4 DEF FinishPop, acknowledge, return_message, LeasesOf, Lease
  <2>5. CASE DropRequest(c)
    BY <1>1, <2>5 DEF DropRequest
  <2>6. CASE WaitRaises(c)
    BY <1>1, <2>6 DEF WaitRaises
  <2>7. CASE c \in PopConn /\ SendMessage(c)
    BY <1>1, <2>7 DEF SendMessage
  <2> QED
    BY <2>1, <2>2, <2>3, <2>4, <2>5, <2>6, <2>7 DEF Handle, Serve
<1>3. handler[c] # "absent" /\ UNCHANGED <<call, attempt>>
  BY DEF Handle, Serve, HandlePush, FinishPush, HandlePop, SendMessage, FinishPop,
         DropRequest, WaitRaises
<1>4. \A d \in Conn : d # c => handler'[d] = handler[d]
  BY <1>1 DEF Handle, Serve, HandlePush, FinishPush, HandlePop, SendMessage, FinishPop,
              DropRequest, WaitRaises
<1>5. CallControl'
  BY <1>3, <1>4, ConnFact DEF TypeInv, CallControl
<1> QED
  BY <1>2, <1>5 DEF TypeInv

LEMMA ClientTypeInv ==
  ASSUME TypeInv, NEW k \in Calls, Client(k)
  PROVE  TypeInv'
<1> USE DEF TypeInv, TypeOK, CallControl, Goto, Answer, Step, Hang, Return,
            clientVars, queueVars, handlerVars
<1> attempt \in [Calls -> Nat]
  BY AttemptFact
<1> \A j \in Calls : /\ attempt[j] \in Nat /\ attempt[j] <= Attempts[j]
                     /\ Attempts[j] \in Nat /\ Attempts[j] >= 1
  BY AttemptFact
<1>1. CASE Connect(k)
  <2> DEFINE c == <<k, attempt[k] + 1>>
  <2>1. attempt[k] + 1 \in 1..Attempts[k]
    BY <1>1 DEF Connect
  <2>2. c \in Conn
    BY <2>1, ConnFact
  <2>3. TypeOK'
    BY <1>1, <2>1, <2>2 DEF Connect
  <2>4. \A j \in Calls : call'[j] \in {"wait_initial", "wait_final"} => attempt'[j] >= 1
    BY <1>1, <2>1 DEF Connect
  <2>5. \A j \in Calls : \A n \in 1..Attempts[j] :
          n > attempt'[j] => handler'[<<j, n>>] = "absent"
    <3> SUFFICES ASSUME NEW j \in Calls, NEW n \in 1..Attempts[j], n > attempt'[j]
                 PROVE  handler'[<<j, n>>] = "absent"
      OBVIOUS
    <3>1. <<j, n>> # c /\ n > attempt[j]
      BY <1>1, <2>1 DEF Connect
    <3>2. handler'[<<j, n>>] = handler[<<j, n>>]
      BY <1>1, <2>2, <3>1, ConnFact DEF Connect
    <3> QED
      BY <3>1, <3>2
  <2> QED
    BY <2>3, <2>4, <2>5
<1>2. CASE TimeOut(k)
  BY <1>2 DEF TimeOut
<1>3. CASE Rejected(k)
  <2>1. Current(k) \in Conn /\ attempt[k] \in 1..Attempts[k]
    BY <1>3, CurrentFact DEF Rejected
  <2>2. /\ attempt' = [attempt EXCEPT ![k] = @ - 1]
        /\ call' = [call EXCEPT ![k] = "loop"]
        /\ handler' = [handler EXCEPT ![Current(k)] = "absent"]
        /\ link' = [link EXCEPT ![Current(k)] = "unused"]
        /\ reply' = [reply EXCEPT ![Current(k)] = "none"]
        /\ UNCHANGED <<queueVars, offers, final, acked, result>>
    BY <1>3 DEF Rejected
  <2>3. attempt' \in [Calls -> Nat] /\ \A j \in Calls : attempt'[j] <= Attempts[j]
    BY <2>1, <2>2
  <2>4. TypeOK'
    BY <2>1, <2>2, <2>3
  <2>5. \A j \in Calls : call'[j] \in {"wait_initial", "wait_final"} => attempt'[j] >= 1
    BY <2>1, <2>2
  <2>6. \A j \in Calls : \A n \in 1..Attempts[j] :
          n > attempt'[j] => handler'[<<j, n>>] = "absent"
    <3> SUFFICES ASSUME NEW j \in Calls, NEW n \in 1..Attempts[j], n > attempt'[j]
                 PROVE  handler'[<<j, n>>] = "absent"
      OBVIOUS
    <3>1. CASE <<j, n>> = Current(k)
      BY <2>1, <2>2, <3>1
    <3>2. CASE <<j, n>> # Current(k)
      <4>1. n > attempt[j]
        <5>1. CASE j = k
          <6>1. attempt'[k] = attempt[k] - 1
            BY <2>2
          <6>2. n # attempt[k] /\ n \in Nat
            BY <3>2, <5>1 DEF Current
          <6> QED
            BY <5>1, <6>1, <6>2
        <5>2. CASE j # k
          BY <2>2, <5>2
        <5> QED
          BY <5>1, <5>2
      <4>2. handler'[<<j, n>>] = handler[<<j, n>>]
        BY <2>1, <2>2, <3>2, ConnFact
      <4> QED
        BY <4>1, <4>2
    <3> QED
      BY <3>1, <3>2
  <2> QED
    BY <2>4, <2>5, <2>6
<1>4. CASE SendAck(k)
  BY <1>4, CurrentFact DEF SendAck
<1>5. CASE ReadFinal(k)
  BY <1>5, CurrentFact DEF ReadFinal
<1>6. CASE Retry(k)
  BY <1>6, CurrentFact DEF Retry
<1> QED
  BY <1>1, <1>2, <1>3, <1>4, <1>5, <1>6 DEF Client

LEMMA NextTypeInv == TypeInv /\ [Next]_vars => TypeInv'
<1> SUFFICES ASSUME TypeInv, [Next]_vars PROVE TypeInv'
  OBVIOUS
<1>1. CASE \E c \in Conn : Handle(c)
  BY <1>1, HandleTypeInv
<1>2. CASE \E k \in Calls : Client(k)
  BY <1>2, ClientTypeInv
<1>3. CASE UNCHANGED vars
  BY <1>3 DEF vars, queueVars, handlerVars, clientVars, TypeInv, TypeOK, CallControl
<1> QED
  BY <1>1, <1>2, <1>3 DEF Next

\* Every variable keeps its type, whatever the calls, attempts and failures.
THEOREM TypeCorrect == Spec => []TypeOK
<1>1. Init => TypeInv
  BY InitInv DEF IInv
<1>2. TypeInv => TypeOK
  BY DEF TypeInv
<1> QED
  BY <1>1, <1>2, NextTypeInv, PTL DEF Spec

-----------------------------------------------------------------------------
(* The control and lease invariants, and the abstract step of each step.   *)

LEMMA IInvFacts ==
  ASSUME IInv
  PROVE  /\ handler \in [Conn -> {"absent", "serving", "sending", "waiting", "raised", "finished"}]
         /\ reply \in [Conn -> {"none", "offer", "full", "empty"}]
         /\ final \in [Conn -> {"none", "ok", "nack"}]
         /\ queue \subseteq Entry /\ in_flight \subseteq Lease
         /\ offers \subseteq Lease /\ next_index \in Nat
         /\ \A l \in offers : l.taker \in PopConn /\ l.taker \in Conn /\ l.entry \in Entry
  BY DEF IInv, TypeInv, TypeOK, Lease, Conn

\* Steps that leave the queue, the offers and the final responses alone, and
\* change the handler and reply of one connection only, which holds no lease.
LEMMA QuietStep ==
  ASSUME IInv, TypeInv', UNCHANGED <<queueVars, offers, final>>,
         \A l \in offers :
           /\ (handler'[l.taker] \in Holding) <=> (handler[l.taker] \in Holding)
           /\ Offered(l.taker)',
         HandlerControl'
  PROVE  IInv' /\ UNCHANGED Abstract!vars
<1>1. LeaseControl'
  BY DEF IInv, LeaseControl, queueVars
<1>2. UNCHANGED Abstract!vars
  BY DEF Abstract!vars, Settled, queueVars
<1> QED
  BY <1>1, <1>2 DEF IInv

\* A connection without a transaction holds no lease.
LEMMA NoLease ==
  ASSUME IInv, NEW c \in Conn,
         \/ handler[c] \in {"absent", "serving"}
         \/ handler[c] # "sending" /\ reply[c] # "offer"
  PROVE  \A l \in offers : l.taker # c
  BY DEF IInv, HandlerControl, LeaseControl, Offered

\* What one step leaves as it is on the connections that were given a message.
LEMMA StillOffered ==
  ASSUME IInv, NEW c \in Conn, \A l \in offers : l.taker # c,
         \A d \in Conn : d # c => handler'[d] = handler[d] /\ reply'[d] = reply[d]
  PROVE  \A l \in offers :
           /\ (handler'[l.taker] \in Holding) <=> (handler[l.taker] \in Holding)
           /\ Offered(l.taker)'
<1> SUFFICES ASSUME NEW l \in offers
             PROVE  /\ (handler'[l.taker] \in Holding) <=> (handler[l.taker] \in Holding)
                    /\ Offered(l.taker)'
  OBVIOUS
<1>1. handler'[l.taker] = handler[l.taker] /\ reply'[l.taker] = reply[l.taker]
  BY IInvFacts
<1>2. Offered(l.taker)
  BY DEF IInv, LeaseControl
<1> QED
  BY <1>1, <1>2 DEF Offered

LEMMA HandlePushStep ==
  ASSUME IInv, TypeInv', NEW c \in PushConn, HandlePush(c)
  PROVE  IInv' /\ UNCHANGED Abstract!vars
<1>1. c \in Conn /\ handler[c] = "serving"
  BY DEF HandlePush, Conn
<1>2. \A l \in offers : l.taker # c
  BY <1>1, NoLease
<1>3. \A d \in Conn : d # c => handler'[d] = handler[d] /\ reply'[d] = reply[d]
  BY IInvFacts DEF HandlePush, Goto, Answer
<1>4. UNCHANGED <<queueVars, offers, final>>
  BY DEF HandlePush
<1>5. HandlerControl'
  BY <1>1, <1>3, <1>4, IInvFacts DEF HandlePush, Goto, Answer, IInv, HandlerControl
<1> QED
  BY <1>1, <1>2, <1>3, <1>4, <1>5, StillOffered, QuietStep

LEMMA DropRequestStep ==
  ASSUME IInv, TypeInv', NEW c \in Conn, DropRequest(c)
  PROVE  IInv' /\ UNCHANGED Abstract!vars
<1>1. handler[c] = "serving"
  BY DEF DropRequest
<1>2. \A l \in offers : l.taker # c
  BY <1>1, NoLease
<1>3. \A d \in Conn : d # c => handler'[d] = handler[d]
  BY IInvFacts DEF DropRequest, Goto
<1>4. UNCHANGED <<queueVars, offers, reply, final>>
  BY DEF DropRequest
<1>5. HandlerControl'
  BY <1>1, <1>3, <1>4, IInvFacts DEF DropRequest, Goto, IInv, HandlerControl
<1> QED
  BY <1>1, <1>2, <1>3, <1>4, <1>5, StillOffered, QuietStep

LEMMA WaitRaisesStep ==
  ASSUME IInv, TypeInv', NEW c \in Conn, WaitRaises(c)
  PROVE  IInv' /\ UNCHANGED Abstract!vars
<1>1. handler[c] = "waiting" /\ handler'[c] = "raised"
  BY IInvFacts DEF WaitRaises, Goto
<1>2. \A d \in Conn : d # c => handler'[d] = handler[d]
  BY IInvFacts DEF WaitRaises, Goto
<1>3. UNCHANGED <<queueVars, offers, reply, final>>
  BY DEF WaitRaises
<1>4. HandlerControl'
  BY <1>1, <1>2, <1>3 DEF IInv, HandlerControl
<1>5. \A l \in offers :
        /\ (handler'[l.taker] \in Holding) <=> (handler[l.taker] \in Holding)
        /\ Offered(l.taker)'
  BY <1>1, <1>2, <1>3, IInvFacts DEF IInv, LeaseControl, Offered, Holding
<1> QED
  BY <1>3, <1>4, <1>5, QuietStep

LEMMA SendMessageStep ==
  ASSUME IInv, TypeInv', NEW c \in PopConn, SendMessage(c)
  PROVE  IInv' /\ UNCHANGED Abstract!vars
<1>1. c \in Conn /\ handler[c] = "sending" /\ handler'[c] = "waiting" /\ reply'[c] = "offer"
  BY IInvFacts DEF SendMessage, Goto, Answer, Conn
<1>2. \A d \in Conn : d # c => handler'[d] = handler[d] /\ reply'[d] = reply[d]
  BY IInvFacts DEF SendMessage, Goto, Answer
<1>3. UNCHANGED <<queueVars, offers, final>>
  BY DEF SendMessage
<1>4. HandlerControl'
  BY <1>1, <1>2, <1>3 DEF IInv, HandlerControl
<1>5. \A l \in offers :
        /\ (handler'[l.taker] \in Holding) <=> (handler[l.taker] \in Holding)
        /\ Offered(l.taker)'
  BY <1>1, <1>2, IInvFacts DEF IInv, LeaseControl, Offered, Holding
<1> QED
  BY <1>3, <1>4, <1>5, QuietStep

LEMMA FinishPushStep ==
  ASSUME IInv, TypeInv', NEW c \in PushConn, FinishPush(c)
  PROVE  IInv' /\ [Abstract!Next]_(Abstract!vars)
<1>1. c \in Conn /\ handler[c] = "waiting" /\ handler'[c] = "finished"
  BY IInvFacts DEF FinishPush, Finish, Goto, Conn
<1>2. \A d \in Conn : d # c => handler'[d] = handler[d] /\ final'[d] = final[d]
  BY IInvFacts DEF FinishPush, Finish, Goto
<1>3. UNCHANGED <<offers, reply>> /\ final'[c] # "none"
  BY <1>1, IInvFacts DEF FinishPush, Finish
<1>4. \A l \in offers : l.taker # c
  BY IInvFacts, KindsDisjoint
<1>5. UNCHANGED <<in_flight, Settled>>
  BY <1>2, <1>3, <1>4, IInvFacts DEF FinishPush, push, queueVars, Settled
<1>6. HandlerControl'
  BY <1>1, <1>2, <1>3 DEF IInv, HandlerControl
<1>7. LeaseControl'
  <2>1. \A l \in offers : /\ handler'[l.taker] = handler[l.taker]
                           /\ Offered(l.taker)' <=> Offered(l.taker)
    BY <1>2, <1>3, <1>4, IInvFacts DEF Offered
  <2> QED
    BY <1>3, <1>5, <2>1 DEF IInv, LeaseControl
<1>8. Abstract!Store(c) \/ UNCHANGED Abstract!vars
  BY <1>5 DEF FinishPush, push, queueVars, Abstract!Store, Abstract!vars
<1> QED
  BY <1>6, <1>7, <1>8 DEF IInv, Abstract!Next

LEMMA HandlePopStep ==
  ASSUME IInv, TypeInv', NEW c \in PopConn, HandlePop(c)
  PROVE  IInv' /\ [Abstract!Next]_(Abstract!vars)
<1>1. c \in Conn /\ handler[c] = "serving" /\ reply[c] = "none" /\ final[c] = "none"
  BY DEF HandlePop, Conn, IInv, HandlerControl
<1>2. \A l \in offers : l.taker # c
  BY <1>1, NoLease
<1>3. /\ \A d \in Conn : d # c => handler'[d] = handler[d] /\ reply'[d] = reply[d]
      /\ UNCHANGED final
  BY IInvFacts DEF HandlePop, Goto, Answer
<1>4. CASE empty /\ Goto(c, "finished") /\ Answer(c, "empty") /\ UNCHANGED <<queueVars, offers>>
  <2>1. HandlerControl'
    BY <1>1, <1>3, <1>4, IInvFacts DEF Goto, Answer, IInv, HandlerControl
  <2> QED
    BY <1>1, <1>2, <1>3, <1>4, <2>1, StillOffered, QuietStep
<1>5. CASE ~empty /\ pop(c) /\ Goto(c, "sending") /\ UNCHANGED reply
  <2>1. handler'[c] = "sending" /\ reply'[c] = "none"
    BY <1>1, <1>5, IInvFacts DEF Goto
  <2>2. HandlerControl'
    BY <1>1, <1>3, <2>1 DEF IInv, HandlerControl
  <2> PICK e \in queue :
        /\ \A f \in queue : e.index <= f.index
        /\ queue' = queue \ {e}
        /\ in_flight' = in_flight \cup {[taker |-> c, entry |-> e]}
        /\ offers' = offers \cup {[taker |-> c, entry |-> e]}
        /\ UNCHANGED next_index
    BY <1>5 DEF pop
  <2> DEFINE new == [taker |-> c, entry |-> e]
  <2>3. in_flight' = {l \in offers' : handler'[l.taker] \in Holding}
    <3>1. \A l \in offers : handler'[l.taker] = handler[l.taker]
      BY <1>2, <1>3, IInvFacts
    <3>2. new.taker = c
      OBVIOUS
    <3> QED
      BY <2>1, <3>1, <3>2 DEF IInv, LeaseControl, Holding
  <2>4. /\ \A l \in offers' : Offered(l.taker)'
        /\ \A l, m \in offers' : l.taker = m.taker => l = m
    <3>1. \A l \in offers : Offered(l.taker)'
      BY <1>1, <1>2, <1>3, StillOffered
    <3>2. Offered(new.taker)'
      BY <2>1 DEF Offered
    <3> QED
      BY <1>2, <3>1, <3>2 DEF IInv, LeaseControl
  <2>5. UNCHANGED Settled
    BY <1>1, <1>3 DEF Settled
  <2>6. \A l \in in_flight \cup Settled : l.taker # c
    BY <1>2 DEF IInv, LeaseControl, Settled
  <2>7. Abstract!Lease(c)
    BY <2>5, <2>6 DEF Abstract!Lease
  <2> QED
    BY <2>2, <2>3, <2>4, <2>7 DEF IInv, LeaseControl, Abstract!Next
<1> QED
  BY <1>4, <1>5 DEF HandlePop

LEMMA FinishPopStep ==
  ASSUME IInv, TypeInv', NEW c \in PopConn, FinishPop(c)
  PROVE  IInv' /\ [Abstract!Next]_(Abstract!vars)
<1>1. /\ c \in Conn /\ handler[c] = "waiting" /\ handler'[c] = "finished"
      /\ reply[c] = "offer" /\ final[c] = "none"
  BY IInvFacts DEF FinishPop, Finish, Goto, Conn, IInv, HandlerControl
<1>2. /\ \A d \in Conn : d # c => handler'[d] = handler[d] /\ final'[d] = final[d]
      /\ final'[c] # "none"
      /\ UNCHANGED <<offers, reply, next_index>>
  BY <1>1, IInvFacts DEF FinishPop, Finish, Goto, acknowledge, return_message
<1>3. in_flight' = in_flight \ LeasesOf(c)
  BY DEF FinishPop, acknowledge, return_message
<1>4. HandlerControl'
  BY <1>1, <1>2 DEF IInv, HandlerControl
<1>5. in_flight' = {l \in offers' : handler'[l.taker] \in Holding}
  BY <1>1, <1>2, <1>3, IInvFacts DEF IInv, LeaseControl, LeasesOf, Holding
<1>6. LeaseControl'
  <2>1. \A l \in offers : Offered(l.taker)'
    BY <1>1, <1>2, IInvFacts DEF IInv, LeaseControl, Offered
  <2> QED
    BY <1>2, <1>5, <2>1 DEF IInv, LeaseControl
<1>7. CASE LeasesOf(c) = {}
  <2>1. \A l \in offers : l.taker # c
    BY <1>1, <1>7 DEF IInv, LeaseControl, LeasesOf, Holding
  <2>2. UNCHANGED <<queue, in_flight, Settled>>
    BY <1>2, <1>3, <1>7, <2>1, IInvFacts
       DEF FinishPop, acknowledge, return_message, Settled
  <2> QED
    BY <1>2, <1>4, <1>6, <2>2 DEF IInv, Abstract!vars
<1>8. CASE LeasesOf(c) # {}
  <2> PICK l \in in_flight : l.taker = c
    BY <1>8 DEF LeasesOf
  <2>1. LeasesOf(c) = {l} /\ l \in offers
    BY DEF IInv, LeaseControl, LeasesOf
  <2>2. \A m \in offers : m.taker = c => m = l
    BY <2>1 DEF IInv, LeaseControl
  <2>3. CASE acknowledge(c) /\ Finish(c, "ok")
    <3>1. final'[c] = "ok"
      BY <1>1, <2>3, IInvFacts DEF Finish
    <3>2. Settled' = Settled \cup {l}
      BY <1>2, <2>1, <2>2, <3>1, IInvFacts DEF Settled
    <3>3. Abstract!Settle(l)
      BY <1>2, <1>3, <2>1, <2>3, <3>2 DEF Abstract!Settle, acknowledge
    <3> QED
      BY <1>4, <1>6, <3>3 DEF IInv, Abstract!Next
  <2>4. CASE return_message(c) /\ Finish(c, "nack")
    <3>1. final'[c] = "nack"
      BY <1>1, <2>4, IInvFacts DEF Finish
    <3>2. Settled' = Settled
      BY <1>1, <1>2, <3>1, IInvFacts DEF Settled
    <3>3. queue' = queue \cup {l.entry}
      BY <2>1, <2>4 DEF return_message
    <3>4. Abstract!Release(l)
      BY <1>2, <1>3, <2>1, <3>2, <3>3 DEF Abstract!Release
    <3> QED
      BY <1>4, <1>6, <3>4 DEF IInv, Abstract!Next
  <2> QED
    BY <2>3, <2>4 DEF FinishPop
<1> QED
  BY <1>7, <1>8

LEMMA ClientStep ==
  ASSUME IInv, TypeInv', NEW k \in Calls, Client(k)
  PROVE  IInv' /\ UNCHANGED Abstract!vars
<1>1. CASE Connect(k)
  <2> DEFINE c == <<k, attempt[k] + 1>>
  <2>1. c \in Conn /\ handler[c] = "absent"
    <3>1. attempt[k] + 1 \in 1..Attempts[k] /\ attempt[k] + 1 > attempt[k]
      BY <1>1, AttemptFact DEF Connect, IInv
    <3> QED
      BY <3>1, ConnFact DEF IInv, TypeInv, CallControl
  <2>2. \A l \in offers : l.taker # c
    BY <2>1, NoLease
  <2>3. /\ \A d \in Conn : d # c => handler'[d] = handler[d]
        /\ handler'[c] = "serving"
        /\ UNCHANGED <<queueVars, offers, reply, final>>
    BY <1>1, <2>1, IInvFacts DEF Connect, Goto
  <2>4. HandlerControl'
    BY <2>1, <2>3 DEF IInv, HandlerControl
  <2> QED
    BY <2>1, <2>2, <2>3, <2>4, StillOffered, QuietStep
<1>2. CASE Rejected(k)
  <2> DEFINE c == Current(k)
  <2>1. c \in Conn /\ reply[c] # "offer" /\ reply[c] # "none"
    BY <1>2, CurrentFact DEF Rejected, IInv
  <2>3. handler[c] = "finished" /\ final[c] = "none"
    BY <2>1, IInvFacts DEF IInv, HandlerControl
  <2>2. \A l \in offers : l.taker # c
    BY <2>1, <2>3, NoLease
  <2>4. /\ \A d \in Conn : d # c => handler'[d] = handler[d] /\ reply'[d] = reply[d]
        /\ handler'[c] = "absent" /\ reply'[c] = "none"
        /\ UNCHANGED <<queueVars, offers, final>>
    BY <1>2, <2>1, IInvFacts DEF Rejected, Goto, Answer
  <2>5. HandlerControl'
    BY <2>1, <2>3, <2>4 DEF IInv, HandlerControl
  <2> QED
    BY <2>1, <2>2, <2>4, <2>5, StillOffered, QuietStep
<1>3. CASE TimeOut(k) \/ SendAck(k) \/ ReadFinal(k) \/ Retry(k)
  <2>1. UNCHANGED <<queueVars, handlerVars>>
    BY <1>3 DEF TimeOut, SendAck, ReadFinal, Retry
  <2>2. HandlerControl'
    BY <2>1 DEF IInv, HandlerControl, handlerVars
  <2>3. \A l \in offers : Offered(l.taker)'
    BY <2>1 DEF handlerVars, Offered, IInv, LeaseControl
  <2> QED
    BY <2>1, <2>2, <2>3, QuietStep DEF handlerVars
<1> QED
  BY <1>1, <1>2, <1>3 DEF Client

LEMMA NextStep == IInv /\ [Next]_vars => IInv' /\ [Abstract!Next]_(Abstract!vars)
<1> SUFFICES ASSUME IInv, [Next]_vars PROVE IInv' /\ [Abstract!Next]_(Abstract!vars)
  OBVIOUS
<1>1. TypeInv'
  BY NextTypeInv DEF IInv
<1>2. CASE \E c \in Conn : Handle(c)
  <2> PICK c \in Conn : Handle(c)
    BY <1>2
  <2> QED
    BY <1>1, HandlePushStep, FinishPushStep, HandlePopStep, FinishPopStep,
       SendMessageStep, DropRequestStep, WaitRaisesStep DEF Handle, Serve
<1>3. CASE \E k \in Calls : Client(k)
  BY <1>1, <1>3, ClientStep
<1>4. CASE UNCHANGED vars
  <2>1. UNCHANGED <<queueVars, handlerVars>>
    BY <1>4 DEF vars
  <2>2. HandlerControl'
    BY <2>1 DEF IInv, HandlerControl, handlerVars
  <2>3. \A l \in offers : Offered(l.taker)'
    BY <2>1 DEF handlerVars, Offered, IInv, LeaseControl
  <2> QED
    BY <1>1, <2>1, <2>2, <2>3, QuietStep DEF handlerVars
<1> QED
  BY <1>2, <1>3, <1>4 DEF Next

\* The broker implements the abstract queue.
THEOREM ImplementsLeaseQueue == Spec => AbstractSpec
<1>1. Init => Abstract!Init
  BY DEF Init, Abstract!Init, Settled
<1> QED
  BY <1>1, InitInv, NextStep, PTL DEF Spec, AbstractSpec, Abstract!Spec

\* A stored message is always in exactly one place.
THEOREM NothingLostOrDoubled == Spec => []ExactlyOnePlace
<1>1. Abstract!Init => QueueProofs!Init
  BY DEF Abstract!Init, QueueProofs!Init
<1>2. [Abstract!Next]_(Abstract!vars) => [QueueProofs!Next]_(QueueProofs!vars)
  BY DEF Abstract!Next, QueueProofs!Next, Abstract!vars, QueueProofs!vars,
         Abstract!Store, QueueProofs!Store, Abstract!Lease, QueueProofs!Lease,
         Abstract!Settle, QueueProofs!Settle, Abstract!Release, QueueProofs!Release
<1>3. QueueProofs!OnePlace => ExactlyOnePlace
  BY DEF ExactlyOnePlace, Abstract!OnePlace, QueueProofs!OnePlace,
         Abstract!Messages, QueueProofs!Messages,
         Abstract!EntriesOf, QueueProofs!EntriesOf
<1> QED
  BY <1>1, <1>2, <1>3, ImplementsLeaseQueue, QueueProofs!OnePlaceAlways, PTL
     DEF AbstractSpec, Abstract!Spec, QueueProofs!Spec

-----------------------------------------------------------------------------
(* What the calls return.                                                  *)

\* A final response follows the ACK; a pop's offer carries a message the broker
\* had stored; and a push has stored its message once when it says so, else not.
Truth ==
  /\ \A c \in Conn : final[c] = "ok" => acked[c]
  /\ \A c \in PopConn : Offered(c) => \E l \in offers : l.taker = c
  /\ \A l \in offers : l.entry \in Stored
  /\ \A c \in PushConn : final[c] = "ok" <=> \E e \in Stored : e.job = c
  /\ \A e, f \in Stored : e.job = f.job => e = f

\* A call's earlier connections have failed, its later ones carried nothing, and
\* where it is, and what it returned, says what its current one has carried.
Told(k) ==
  /\ \A n \in 1..Attempts[k] : /\ n < attempt[k] => link[<<k, n>>] = "failed"
                               /\ n > attempt[k] => ~acked[<<k, n>>]
  /\ call[k] = "loop" /\ attempt[k] >= 1 => link[Current(k)] = "failed"
  /\ call[k] = "wait_initial" => ~acked[Current(k)]
  /\ call[k] = "wait_final" => reply[Current(k)] = "offer"
  /\ call[k] # "returned" <=> result[k] = "none"
  /\ result[k] = "timeout" /\ attempt[k] >= 1 => link[Current(k)] = "failed"
  /\ result[k] = "ok" => attempt[k] >= 1 /\ final[Current(k)] = "ok"
  /\ result[k] = "error" => attempt[k] >= 1 /\ final[Current(k)] = "nack"

Calling == \A k \in Calls : Told(k)

-----------------------------------------------------------------------------
(* The handlers.                                                           *)

\* A handler takes nothing back, and leaves the clients alone.
LEMMA HandleKeeps ==
  ASSUME IInv, NEW c \in Conn, Handle(c)
  PROVE  /\ UNCHANGED <<link, acked, call, attempt, result>>
         /\ \A d \in Conn : /\ reply[d] = "offer" => reply'[d] = "offer"
                            /\ final[d] # "none" => final'[d] = final[d]
<1> USE IInvFacts DEF Goto, Answer, Finish, clientVars
<1>1. handler[c] = "serving" => reply[c] = "none"
  BY DEF IInv, HandlerControl
<1>2. handler[c] = "waiting" => final[c] = "none"
  BY DEF IInv, HandlerControl
<1>3. CASE HandlePush(c) \/ HandlePop(c)
  BY <1>1, <1>3 DEF HandlePush, HandlePop
<1>4. CASE FinishPush(c) \/ FinishPop(c)
  BY <1>2, <1>4 DEF FinishPush, FinishPop
<1>5. CASE DropRequest(c) \/ WaitRaises(c) \/ SendMessage(c)
  BY <1>5 DEF DropRequest, WaitRaises, SendMessage
<1> QED
  BY <1>3, <1>4, <1>5 DEF Handle, Serve

\* A call that has made an attempt is on a connection.
LEMMA OnConnection ==
  ASSUME IInv, NEW k \in Calls, attempt[k] >= 1
  PROVE  Current(k) \in Conn /\ attempt[k] \in 1..Attempts[k]
<1>1. attempt[k] \in 1..Attempts[k]
  BY AttemptFact DEF IInv
<1> QED
  BY <1>1, ConnFact DEF Current

LEMMA HandleCalling ==
  ASSUME IInv, Calling, NEW c \in Conn, Handle(c)
  PROVE  Calling'
<1>1. UNCHANGED <<link, acked, call, attempt, result>>
  BY HandleKeeps
<1>2. \A k \in Calls : /\ call[k] = "wait_final" => reply'[Current(k)] = "offer"
                       /\ result[k] = "ok" => final'[Current(k)] = "ok"
                       /\ result[k] = "error" => final'[Current(k)] = "nack"
  <2> SUFFICES ASSUME NEW k \in Calls
               PROVE  /\ call[k] = "wait_final" => reply'[Current(k)] = "offer"
                      /\ result[k] = "ok" => final'[Current(k)] = "ok"
                      /\ result[k] = "error" => final'[Current(k)] = "nack"
    OBVIOUS
  <2>1. call[k] = "wait_final" => Current(k) \in Conn
    BY CurrentFact DEF IInv
  <2> QED
    BY <2>1, OnConnection, HandleKeeps DEF Calling, Told
<1> QED
  BY <1>1, <1>2 DEF Calling, Told, Current

-----------------------------------------------------------------------------
(* Truth: what a handler does to it.                                       *)

\* Steps that leave the queue and the offers alone keep what is true of them.
LEMMA QuietTruth ==
  ASSUME IInv, Truth, UNCHANGED <<Abstract!vars, offers, final>>,
         \A c \in PopConn : Offered(c)' => Offered(c),
         \A c \in Conn : acked[c] => acked'[c]
  PROVE  Truth'
<1>1. UNCHANGED Stored
  BY DEF Stored, EntriesOf, Abstract!vars
<1> QED
  BY <1>1 DEF Truth

LEMMA FinishPushTruth ==
  ASSUME IInv, Truth, NEW c \in PushConn, FinishPush(c)
  PROVE  Truth'
<1>1. /\ c \in Conn /\ handler[c] = "waiting" /\ final[c] = "none"
      /\ UNCHANGED <<offers, reply, acked>>
      /\ \A d \in Conn : d # c => final'[d] = final[d]
      /\ \A d \in PopConn : Offered(d)' => Offered(d)
  BY IInvFacts, KindsDisjoint DEF FinishPush, Finish, Goto, Conn, IInv, HandlerControl, Offered
<1>2. UNCHANGED <<in_flight, Settled>>
  <2>1. \A l \in offers : l.taker \in Conn /\ l.taker # c
    BY IInvFacts, KindsDisjoint
  <2> QED
    BY <1>1, <2>1 DEF Settled, FinishPush, push, queueVars
<1>3. \A e \in Stored : e.job # c
  BY <1>1 DEF Truth
<1>4. CASE acked[c] /\ push(c) /\ Finish(c, "ok")
  <2> DEFINE new == [index |-> next_index, job |-> c]
  <2>1. Stored' = Stored \cup {new}
    BY <1>2, <1>4 DEF Stored, EntriesOf, push
  <2>2. final'[c] = "ok"
    BY <1>1, <1>4, IInvFacts DEF Finish
  <2>3. \A d \in Conn : final'[d] = "ok" => acked'[d]
    BY <1>1, <1>4 DEF Truth
  <2>4. \A d \in PushConn : final'[d] = "ok" <=> \E e \in Stored' : e.job = d
    <3> SUFFICES ASSUME NEW d \in PushConn, d # c
                 PROVE  final'[d] = "ok" <=> \E e \in Stored' : e.job = d
      BY <2>1, <2>2
    <3>1. final'[d] = final[d] /\ new.job # d
      BY <1>1 DEF Conn
    <3> QED
      BY <2>1, <3>1 DEF Truth
  <2>5. \A e, f \in Stored' : e.job = f.job => e = f
    BY <1>3, <2>1 DEF Truth
  <2> QED
    BY <1>1, <2>1, <2>3, <2>4, <2>5 DEF Truth
<1>5. CASE Finish(c, "nack") /\ UNCHANGED queueVars
  <2>1. Stored' = Stored
    BY <1>2, <1>5 DEF Stored, EntriesOf, queueVars
  <2>2. final'[c] = "nack"
    BY <1>1, <1>5, IInvFacts DEF Finish
  <2> QED
    BY <1>1, <1>3, <2>1, <2>2 DEF Truth, Conn
<1> QED
  BY <1>4, <1>5 DEF FinishPush

LEMMA HandlePopTruth ==
  ASSUME IInv, Truth, NEW c \in PopConn, HandlePop(c)
  PROVE  Truth'
<1>1. /\ c \in Conn /\ handler[c] = "serving" /\ final[c] = "none"
      /\ UNCHANGED <<final, acked>>
      /\ \A d \in Conn : d # c => reply'[d] = reply[d] /\ handler'[d] = handler[d]
  BY IInvFacts DEF HandlePop, Goto, Answer, Conn, IInv, HandlerControl
<1>2. CASE empty /\ Goto(c, "finished") /\ Answer(c, "empty") /\ UNCHANGED <<queueVars, offers>>
  <2>1. reply'[c] = "empty" /\ handler'[c] = "finished"
    BY <1>1, <1>2, IInvFacts DEF Goto, Answer
  <2>2. UNCHANGED Abstract!vars
    BY <1>1, <1>2 DEF Abstract!vars, Settled, queueVars
  <2> QED
    BY <1>1, <1>2, <2>1, <2>2, QuietTruth DEF Conn, Offered
<1>3. CASE ~empty /\ pop(c)
  <2> PICK e \in queue :
        /\ queue' = queue \ {e}
        /\ in_flight' = in_flight \cup {[taker |-> c, entry |-> e]}
        /\ offers' = offers \cup {[taker |-> c, entry |-> e]}
    BY <1>3 DEF pop
  <2> DEFINE new == [taker |-> c, entry |-> e]
  <2>a. new \in offers' /\ new.taker = c /\ new.entry = e
    OBVIOUS
  <2>1. Settled' = Settled
    <3>1. \A l \in offers' : l \in offers \/ l = new
      OBVIOUS
    <3> QED
      BY <1>1, <2>a, <3>1 DEF Settled
  <2>2. EntriesOf(in_flight)' = EntriesOf(in_flight) \cup {e}
    BY <2>a DEF EntriesOf
  <2>3. Stored' = Stored
    BY <2>1, <2>2 DEF Stored, EntriesOf
  <2>4. \A l \in offers' : l.entry \in Stored'
    <3>1. \A l \in offers' : l \in offers \/ l = new
      OBVIOUS
    <3>2. e \in Stored
      BY DEF Stored
    <3> QED
      BY <2>3, <2>a, <3>1, <3>2 DEF Truth
  <2>5. \A d \in PopConn : Offered(d)' => \E l \in offers' : l.taker = d
    <3> SUFFICES ASSUME NEW d \in PopConn, Offered(d)'
                 PROVE  \E l \in offers' : l.taker = d
      OBVIOUS
    <3>1. CASE d = c
      BY <2>a, <3>1
    <3>2. CASE d # c
      BY <1>1, <3>2 DEF Truth, Conn, Offered
    <3> QED
      BY <3>1, <3>2
  <2> QED
    BY <1>1, <2>3, <2>4, <2>5 DEF Truth
<1> QED
  BY <1>2, <1>3 DEF HandlePop

LEMMA FinishPopTruth ==
  ASSUME IInv, Truth, NEW c \in PopConn, FinishPop(c)
  PROVE  Truth'
<1>1. /\ c \in Conn /\ handler[c] = "waiting" /\ final[c] = "none"
      /\ UNCHANGED <<offers, reply, acked>>
      /\ \A d \in Conn : d # c => final'[d] = final[d]
      /\ final'[c] \in {"ok", "nack"} /\ (final'[c] = "ok" => acked[c])
      /\ \A d \in PopConn : Offered(d)' => Offered(d)
  BY IInvFacts DEF FinishPop, Finish, Goto, Conn, IInv, HandlerControl, Offered
<1>2. LeasesOf(c) = {l \in offers : l.taker = c}
  BY <1>1 DEF LeasesOf, IInv, LeaseControl, Holding
<1>3. CASE acknowledge(c) /\ Finish(c, "ok")
  <2>1. final'[c] = "ok"
    BY <1>1, <1>3, IInvFacts DEF Finish
  <2>2. Settled' = Settled \cup LeasesOf(c)
    BY <1>1, <1>2, <2>1, IInvFacts DEF Settled
  <2>3. queue' = queue /\ in_flight' = in_flight \ LeasesOf(c) /\ LeasesOf(c) \subseteq in_flight
    BY <1>3 DEF acknowledge, LeasesOf
  <2> QED
    BY <2>2, <2>3, <1>1, KindsDisjoint DEF Truth, Stored, EntriesOf, Conn
<1>4. CASE return_message(c) /\ Finish(c, "nack")
  <2>1. final'[c] = "nack"
    BY <1>1, <1>4, IInvFacts DEF Finish
  <2>2. Settled' = Settled
    BY <1>1, <2>1, IInvFacts DEF Settled
  <2>3. /\ queue' = queue \cup EntriesOf(LeasesOf(c))
        /\ in_flight' = in_flight \ LeasesOf(c) /\ LeasesOf(c) \subseteq in_flight
    BY <1>4 DEF return_message, LeasesOf, EntriesOf
  <2> QED
    BY <2>2, <2>3, <1>1, KindsDisjoint DEF Truth, Stored, EntriesOf, Conn
<1> QED
  BY <1>3, <1>4 DEF FinishPop

LEMMA HandleTruth ==
  ASSUME IInv, TypeInv', Truth, NEW c \in Conn, Handle(c)
  PROVE  Truth'
<1>1. CASE c \in PushConn /\ HandlePush(c)
  <2>1. c \notin PopConn /\ \A d \in PopConn : Offered(d)' => Offered(d)
    BY <1>1, IInvFacts, KindsDisjoint DEF HandlePush, Goto, Answer, Conn, Offered
  <2> QED
    BY <1>1, <2>1, HandlePushStep, QuietTruth DEF HandlePush
<1>2. CASE DropRequest(c) \/ WaitRaises(c)
  <2>1. \A d \in PopConn : Offered(d)' => Offered(d)
    BY <1>2, IInvFacts DEF DropRequest, WaitRaises, Goto, Conn, Offered
  <2> QED
    BY <1>2, <2>1, DropRequestStep, WaitRaisesStep, QuietTruth DEF DropRequest, WaitRaises
<1>3. CASE c \in PopConn /\ SendMessage(c)
  <2>1. \A d \in PopConn : Offered(d)' => Offered(d)
    BY <1>3, IInvFacts DEF SendMessage, Goto, Answer, Conn, Offered
  <2> QED
    BY <1>3, <2>1, SendMessageStep, QuietTruth DEF SendMessage
<1> QED
  BY <1>1, <1>2, <1>3, FinishPushTruth, HandlePopTruth, FinishPopTruth DEF Handle, Serve

-----------------------------------------------------------------------------
(* The clients.                                                            *)

LEMMA ClientTruth ==
  ASSUME IInv, TypeInv', Truth, NEW k \in Calls, Client(k)
  PROVE  Truth'
<1>1. UNCHANGED Abstract!vars
  BY ClientStep
<1>2. UNCHANGED <<offers, final>>
  BY DEF Client, Connect, TimeOut, Rejected, SendAck, ReadFinal, Retry, handlerVars
<1>3. \A c \in PopConn : Offered(c)' => Offered(c)
  BY IInvFacts DEF Client, Connect, TimeOut, Rejected, SendAck, ReadFinal, Retry, handlerVars,
                   Goto, Answer, Conn, Offered
<1>4. \A c \in Conn : acked[c] => acked'[c]
  BY DEF IInv, TypeInv, TypeOK, Client, Connect, TimeOut, Rejected, SendAck, ReadFinal, Retry
<1> QED
  BY <1>1, <1>2, <1>3, <1>4, QuietTruth

\* A step of one call leaves the connections of the others alone.
LEMMA OtherCalls ==
  ASSUME IInv, Calling, NEW k \in Calls, Client(k), NEW j \in Calls, j # k
  PROVE  Told(j)'
<1> USE AttemptFact DEF IInv
<1>1. /\ attempt'[j] = attempt[j] /\ call'[j] = call[j] /\ result'[j] = result[j]
      /\ Current(j)' = Current(j) /\ final' = final
  BY DEF Client, Connect, TimeOut, Rejected, SendAck, ReadFinal, Retry, TypeInv, TypeOK,
         Step, Return, Current, handlerVars
<1>2. \A c \in Conn : c[1] = j => link'[c] = link[c] /\ acked'[c] = acked[c] /\ reply'[c] = reply[c]
  <2> SUFFICES ASSUME NEW c \in Conn, c[1] = j
               PROVE  link'[c] = link[c] /\ acked'[c] = acked[c] /\ reply'[c] = reply[c]
    OBVIOUS
  <2>1. c # Current(k) /\ c # <<k, attempt[k] + 1>>
    BY DEF Current
  <2> QED
    BY <2>1 DEF Client, Connect, TimeOut, Rejected, SendAck, ReadFinal, Retry, TypeInv, TypeOK,
                Hang, Answer, handlerVars
<1>3. \A n \in 1..Attempts[j] : /\ link'[<<j, n>>] = link[<<j, n>>]
                                /\ acked'[<<j, n>>] = acked[<<j, n>>]
  BY <1>2, ConnFact
<1>4. attempt[j] >= 1 => /\ link'[Current(j)] = link[Current(j)]
                         /\ acked'[Current(j)] = acked[Current(j)]
                         /\ reply'[Current(j)] = reply[Current(j)]
  BY <1>2, OnConnection DEF Current
<1>5. call[j] \in {"wait_initial", "wait_final"} => attempt[j] >= 1
  BY DEF TypeInv, CallControl
<1> QED
  BY <1>1, <1>3, <1>4, <1>5 DEF Calling, Told

\* Where a call is, it has not returned.
LEMMA ConnectTold ==
  ASSUME IInv, Calling, NEW k \in Calls, Connect(k)
  PROVE  Told(k)'
<1> DEFINE c == <<k, attempt[k] + 1>>
<1> USE AttemptFact DEF IInv
<1>1. attempt[k] + 1 \in 1..Attempts[k] /\ attempt'[k] = attempt[k] + 1
  BY DEF Connect
<1>2. c \in Conn /\ Current(k)' = c
  BY <1>1, ConnFact DEF Current
<1>3. call'[k] = "wait_initial" /\ UNCHANGED <<result, acked>>
  BY DEF Connect, Step, TypeInv, TypeOK
<1>4. \A d \in Conn : d # c => link'[d] = link[d]
  BY DEF Connect, TypeInv, TypeOK
<1>5. \A n \in 1..Attempts[k] : n < attempt'[k] => link'[<<k, n>>] = "failed"
  <2> SUFFICES ASSUME NEW n \in 1..Attempts[k], n < attempt[k] + 1
               PROVE  link'[<<k, n>>] = "failed"
    BY <1>1
  <2>1. <<k, n>> \in Conn /\ <<k, n>> # c
    BY ConnFact
  <2>2. CASE n = attempt[k]
    <3>1. <<k, n>> = Current(k) /\ attempt[k] >= 1 /\ call[k] = "loop"
      BY <2>2 DEF Current, Connect
    <3> QED
      BY <1>4, <2>1, <3>1 DEF Calling, Told
  <2>3. CASE n # attempt[k]
    <3>1. n < attempt[k]
      BY <2>3
    <3> QED
      BY <1>4, <2>1, <3>1 DEF Calling, Told
  <2> QED
    BY <2>2, <2>3
<1>6. \A n \in 1..Attempts[k] : n > attempt'[k] => ~acked'[<<k, n>>]
  BY <1>1, <1>3 DEF Calling, Told
<1>7. ~acked'[c]
  BY <1>1, <1>3 DEF Calling, Told
<1>8. result'[k] = "none"
  BY <1>3 DEF Connect, Calling, Told
<1> QED
  BY <1>2, <1>3, <1>5, <1>6, <1>7, <1>8 DEF Told

LEMMA TimeOutTold ==
  ASSUME IInv, Calling, NEW k \in Calls, TimeOut(k)
  PROVE  Told(k)'
<1>1. /\ call'[k] = "returned" /\ result'[k] = "timeout" /\ call[k] = "loop"
      /\ UNCHANGED <<handlerVars, link, acked, attempt>> /\ Current(k)' = Current(k)
  BY DEF IInv, TypeInv, TypeOK, TimeOut, Return, Step, Current
<1> QED
  BY <1>1 DEF Calling, Told, handlerVars

LEMMA RejectedTold ==
  ASSUME IInv, Calling, NEW k \in Calls, Rejected(k)
  PROVE  Told(k)'
<1> USE AttemptFact DEF IInv
<1>1. /\ call[k] = "wait_initial" /\ Current(k) \in Conn /\ attempt[k] \in 1..Attempts[k]
      /\ attempt'[k] = attempt[k] - 1
  BY CurrentFact DEF Rejected
<1>2. call'[k] = "loop" /\ UNCHANGED <<result, acked>> /\ result[k] = "none"
  BY DEF Rejected, Step, TypeInv, TypeOK, Calling, Told
<1>3. \A d \in Conn : d # Current(k) => link'[d] = link[d]
  BY DEF Rejected, Hang, TypeInv, TypeOK
<1>4. \A n \in 1..Attempts[k] : n < attempt[k] => link'[<<k, n>>] = "failed"
  <2> SUFFICES ASSUME NEW n \in 1..Attempts[k], n < attempt[k]
               PROVE  link'[<<k, n>>] = "failed"
    OBVIOUS
  <2>1. <<k, n>> \in Conn /\ <<k, n>> # Current(k)
    BY ConnFact DEF Current
  <2> QED
    BY <1>3, <2>1 DEF Calling, Told
<1>5. attempt'[k] >= 1 => link'[Current(k)'] = "failed"
  <2> SUFFICES ASSUME attempt'[k] >= 1 PROVE link'[Current(k)'] = "failed"
    OBVIOUS
  <2>1. attempt[k] - 1 \in 1..Attempts[k] /\ Current(k)' = <<k, attempt[k] - 1>>
    BY <1>1 DEF Current
  <2> QED
    BY <1>4, <2>1
<1>6. \A n \in 1..Attempts[k] : n > attempt'[k] => ~acked'[<<k, n>>]
  <2> SUFFICES ASSUME NEW n \in 1..Attempts[k], n > attempt[k] - 1
               PROVE  ~acked[<<k, n>>]
    BY <1>1, <1>2
  <2>1. CASE n = attempt[k]
    BY <1>1, <2>1 DEF Calling, Told, Current
  <2>2. CASE n # attempt[k]
    <3>1. n > attempt[k]
      BY <2>2
    <3> QED
      BY <3>1 DEF Calling, Told
  <2> QED
    BY <2>1, <2>2
<1>7. \A n \in 1..Attempts[k] : n < attempt'[k] => link'[<<k, n>>] = "failed"
  BY <1>1, <1>4
<1> QED
  BY <1>2, <1>5, <1>6, <1>7 DEF Told

\* Steps on the current connection of a call that waits.
LEMMA WaitingTold ==
  ASSUME IInv, Calling, NEW k \in Calls, SendAck(k) \/ ReadFinal(k) \/ Retry(k)
  PROVE  Told(k)'
<1> USE AttemptFact DEF IInv
<1>1. /\ call[k] \in {"wait_initial", "wait_final"} /\ Current(k) \in Conn
      /\ attempt[k] \in 1..Attempts[k] /\ result[k] = "none"
      /\ UNCHANGED <<handlerVars, attempt>> /\ Current(k)' = Current(k)
  BY CurrentFact DEF SendAck, ReadFinal, Retry, Calling, Told, Current
<1>2. \A n \in 1..Attempts[k] :
        n # attempt[k] => link'[<<k, n>>] = link[<<k, n>>] /\ acked'[<<k, n>>] = acked[<<k, n>>]
  <2> SUFFICES ASSUME NEW n \in 1..Attempts[k], n # attempt[k]
               PROVE  link'[<<k, n>>] = link[<<k, n>>] /\ acked'[<<k, n>>] = acked[<<k, n>>]
    OBVIOUS
  <2>1. <<k, n>> \in Conn /\ <<k, n>> # Current(k)
    BY ConnFact DEF Current
  <2> QED
    BY <2>1 DEF SendAck, ReadFinal, Retry, Hang, TypeInv, TypeOK
<1>3. \A n \in 1..Attempts[k] : /\ n < attempt'[k] => link'[<<k, n>>] = "failed"
                                /\ n > attempt'[k] => ~acked'[<<k, n>>]
  BY <1>1, <1>2 DEF Calling, Told
<1>4. CASE SendAck(k)
  <2>1. call'[k] = "wait_final" /\ result' = result /\ reply'[Current(k)] = "offer"
    BY <1>1, <1>4 DEF SendAck, Step, TypeInv, TypeOK, handlerVars
  <2> QED
    BY <1>1, <1>3, <2>1 DEF Told
<1>5. CASE ReadFinal(k)
  <2>1. final[Current(k)] \in {"ok", "nack"}
    BY <1>1, <1>5, IInvFacts DEF ReadFinal
  <2>2. /\ call'[k] = "returned" /\ final' = final
        /\ result'[k] = IF final[Current(k)] = "ok" THEN "ok" ELSE "error"
    BY <1>1, <1>5 DEF ReadFinal, Return, Step, TypeInv, TypeOK, handlerVars
  <2> QED
    BY <1>1, <1>3, <2>1, <2>2 DEF Told
<1>6. CASE Retry(k)
  <2>1. call'[k] = "loop" /\ result' = result /\ link'[Current(k)] = "failed"
    BY <1>1, <1>6 DEF Retry, Step, Hang, TypeInv, TypeOK
  <2> QED
    BY <1>1, <1>3, <2>1 DEF Told
<1> QED
  BY <1>4, <1>5, <1>6

LEMMA ClientCalling ==
  ASSUME IInv, Calling, NEW k \in Calls, Client(k)
  PROVE  Calling'
<1>1. Told(k)'
  BY ConnectTold, TimeOutTold, RejectedTold, WaitingTold DEF Client
<1>2. \A j \in Calls : j # k => Told(j)'
  BY OtherCalls
<1> QED
  BY <1>1, <1>2 DEF Calling

-----------------------------------------------------------------------------
\* Both are kept by every step.
LEMMA NextTruth ==
  ASSUME IInv, IInv', Truth, Calling, [Next]_vars
  PROVE  Truth' /\ Calling'
<1>1. TypeInv'
  BY DEF IInv
<1>2. CASE \E c \in Conn : Handle(c)
  BY <1>1, <1>2, HandleTruth, HandleCalling
<1>3. CASE \E k \in Calls : Client(k)
  BY <1>1, <1>3, ClientTruth, ClientCalling
<1>4. CASE UNCHANGED vars
  <2>1. UNCHANGED <<Stored, offers, final, reply, acked, link, call, attempt, result>>
    BY <1>4 DEF vars, queueVars, handlerVars, clientVars, Stored, Settled, EntriesOf
  <2>2. \A c \in PopConn : Offered(c)' <=> Offered(c)
    BY <1>4 DEF vars, handlerVars, Offered
  <2> QED
    BY <2>1, <2>2 DEF Truth, Calling, Told, Current
<1> QED
  BY <1>2, <1>3, <1>4 DEF Next

LEMMA InitTruth == Init => Truth /\ Calling
<1> SUFFICES ASSUME Init PROVE Truth /\ Calling
  OBVIOUS
<1>1. Stored = {}
  BY DEF Init, Stored, Settled, EntriesOf
<1>2. Truth
  BY <1>1 DEF Init, Truth, Conn, Offered
<1>3. Calling
  BY ConnFact, BrokerAssumption DEF Init, Calling, Told, Current
<1> QED
  BY <1>2, <1>3

LEMMA Always == Spec => [](IInv /\ Truth /\ Calling)
<1>1. Init => IInv /\ Truth /\ Calling
  BY InitInv, InitTruth
<1>2. IInv /\ Truth /\ Calling /\ [Next]_vars => (IInv /\ Truth /\ Calling)'
  BY NextStep, NextTruth
<1> QED
  BY <1>1, <1>2, PTL DEF Spec

-----------------------------------------------------------------------------
(* What follows for the calls.                                             *)

\* A transaction with a final response has finished, on a connection in use.
LEMMA Finished ==
  ASSUME IInv, NEW k \in Calls, NEW n \in 1..Attempts[k], final[<<k, n>>] # "none"
  PROVE  handler[<<k, n>>] = "finished" /\ reply[<<k, n>>] = "offer" /\ n <= attempt[k]
<1>1. <<k, n>> \in Conn
  BY ConnFact
<1>2. handler[<<k, n>>] = "finished" /\ reply[<<k, n>>] = "offer"
  BY <1>1, IInvFacts DEF IInv, HandlerControl
<1>3. ~(n > attempt[k])
  BY <1>2 DEF IInv, TypeInv, CallControl
<1> QED
  BY <1>2, <1>3, AttemptFact DEF IInv

\* What a push returns is true, and it stores twice only after a failure.
LEMMA TruePush == IInv /\ Truth /\ Calling => PushAnswerIsTrue
<1> SUFFICES ASSUME IInv, Truth, Calling PROVE PushAnswerIsTrue
  OBVIOUS
<1>1. \A p \in Pushes : attempt[p] >= 1 => Current(p) \in PushConn
  BY OnConnection DEF Calls, PushConn, ConnOf, Current
<1>2. \A p \in Pushes :
        /\ result[p] = "ok" => \E e \in Stored : e.job = Current(p)
        /\ result[p] = "error" => \A e \in Stored : e.job # Current(p)
  BY <1>1 DEF Truth, Calling, Told, Calls
<1>3. NothingWithoutAck
  BY DEF Truth, NothingWithoutAck
<1>4. \A e \in Stored : e.job \in PushConn
  BY IInvFacts DEF Stored, EntriesOf, Settled, Entry, Lease
<1>5. StoredTwiceOnlyAfterFailure
  <2> SUFFICES ASSUME NEW e \in Stored, NEW f \in Stored, e # f, e.job[1] = f.job[1]
               PROVE  \E c \in {e.job, f.job} : acked[c] /\ link[c] = "failed"
    BY DEF StoredTwiceOnlyAfterFailure
  <2> PICK p \in Pushes : \E n \in 1..Attempts[p] : e.job = <<p, n>>
    BY <1>4 DEF PushConn, ConnOf
  <2>1. PICK n \in 1..Attempts[p] : e.job = <<p, n>>
    OBVIOUS
  <2> PICK q \in Pushes : \E m \in 1..Attempts[q] : f.job = <<q, m>>
    BY <1>4 DEF PushConn, ConnOf
  <2>2. PICK m \in 1..Attempts[q] : f.job = <<q, m>>
    OBVIOUS
  <2>3. p = q /\ n # m /\ p \in Calls
    BY <2>1, <2>2 DEF Truth, Calls
  <2>4. final[e.job] = "ok" /\ final[f.job] = "ok" /\ e.job \in Conn /\ f.job \in Conn
    BY <1>4 DEF Truth, Conn
  <2>5. acked[e.job] /\ acked[f.job]
    BY <2>4 DEF Truth
  <2>6. n <= attempt[p] /\ m <= attempt[p]
    BY <2>1, <2>2, <2>3, <2>4, Finished
  <2>7. attempt[p] \in Nat
    BY <2>3, AttemptFact DEF IInv
  <2>8. CASE n < attempt[p]
    BY <2>1, <2>3, <2>5, <2>8 DEF Calling, Told
  <2>9. CASE ~(n < attempt[p])
    <3>1. m < attempt[p]
      BY <2>3, <2>6, <2>7, <2>9
    <3> QED
      BY <2>2, <2>3, <2>5, <3>1 DEF Calling, Told
  <2> QED
    BY <2>8, <2>9
<1> QED
  BY <1>2, <1>3, <1>5 DEF PushAnswerIsTrue

\* A fetch that returned a message settled a transaction of its own for it.
LEMMA Fetched ==
  ASSUME IInv, Truth, Calling, NEW k \in Pops, result[k] = "ok"
  PROVE  \E l \in Settled : l.taker = Current(k)
<1>1. attempt[k] >= 1 /\ final[Current(k)] = "ok" /\ k \in Calls
  BY DEF Calling, Told, Calls
<1>2. attempt[k] \in 1..Attempts[k] /\ Current(k) \in Conn
  BY <1>1, OnConnection
<1>3. Current(k) \in PopConn
  BY <1>2 DEF PopConn, ConnOf, Current
<1>4. reply[Current(k)] = "offer"
  BY <1>1, <1>2, Finished DEF Current
<1>5. PICK l \in offers : l.taker = Current(k)
  BY <1>3, <1>4 DEF Truth, Offered
<1> QED
  BY <1>1, <1>5 DEF Settled

LEMMA OnceDelivered == IInv /\ ExactlyOnePlace /\ Truth /\ Calling => DeliveredOnce
<1> SUFFICES ASSUME IInv, ExactlyOnePlace, Truth, Calling,
                    NEW k \in Pops, result[k] = "ok"
             PROVE  \E l \in Settled :
                      /\ l.taker = Current(k)
                      /\ \A m \in Pops \ {k}, n \in offers :
                           result[m] = "ok" /\ n.taker = Current(m) => n.entry # l.entry
  BY DEF DeliveredOnce
<1>1. PICK l \in Settled : l.taker = Current(k)
  BY Fetched
<1>2. ASSUME NEW m \in Pops \ {k}, NEW n \in offers, result[m] = "ok", n.taker = Current(m)
      PROVE  n.entry # l.entry
  <2>1. n \in Settled
    BY <1>2 DEF Settled, Calling, Told, Calls
  <2>2. n # l
    BY <1>1, <1>2 DEF Current
  <2> QED
    BY <2>1, <2>2 DEF ExactlyOnePlace, Abstract!OnePlace
<1> QED
  BY <1>1, <1>2

\* A message that was refused, or that is settled, is where it should be.
LEMMA LostOnly == IInv /\ ExactlyOnePlace /\ Truth /\ Calling => LostOnlyWithItsConnection
<1> SUFFICES ASSUME IInv, ExactlyOnePlace, Truth, Calling PROVE LostOnlyWithItsConnection
  OBVIOUS
<1>1. ASSUME NEW l \in Settled
      PROVE  \/ /\ l.taker = Current(l.taker[1])
                /\ result[l.taker[1]] = "ok" \/ call[l.taker[1]] = "wait_final"
             \/ link[l.taker] = "failed"
  <2>1. l.taker \in PopConn /\ final[l.taker] = "ok" /\ acked[l.taker]
    BY IInvFacts DEF Settled, Truth
  <2> PICK k \in Pops : \E n \in 1..Attempts[k] : l.taker = <<k, n>>
    BY <2>1 DEF PopConn, ConnOf
  <2>2. PICK n \in 1..Attempts[k] : l.taker = <<k, n>>
    OBVIOUS
  <2>3. k \in Calls /\ n <= attempt[k] /\ attempt[k] \in Nat /\ n >= 1
    BY <2>1, <2>2, Finished, AttemptFact DEF IInv, Calls
  <2>4. CASE n < attempt[k]
    BY <2>2, <2>3, <2>4 DEF Calling, Told
  <2>5. CASE n = attempt[k]
    <3>1. l.taker = Current(k) /\ attempt[k] >= 1
      BY <2>2, <2>3, <2>5 DEF Current
    <3>2. call[k] # "wait_initial" /\ result[k] # "error"
      BY <2>1, <2>3, <3>1 DEF Calling, Told
    <3>3. call[k] = "loop" \/ result[k] = "timeout" => link[l.taker] = "failed"
      BY <2>3, <3>1 DEF Calling, Told
    <3>4. call[k] = "returned" => result[k] \in {"ok", "timeout"}
      BY <2>3, <3>2 DEF Calling, Told, IInv, TypeInv, TypeOK
    <3>5. call[k] \in {"loop", "wait_initial", "wait_final", "returned"}
      BY <2>3 DEF IInv, TypeInv, TypeOK
    <3> QED
      BY <2>2, <3>1, <3>2, <3>3, <3>4, <3>5
  <2> QED
    BY <2>3, <2>4, <2>5
<1>2. RefusedFetchKeepsMessage
  <2> SUFFICES ASSUME NEW k \in Pops, NEW l \in offers, result[k] = "error", l.taker = Current(k)
               PROVE  \/ l.entry \in queue
                      \/ \E m \in in_flight \cup Settled : m.entry = l.entry /\ m.taker # l.taker
    BY DEF RefusedFetchKeepsMessage
  <2>1. attempt[k] >= 1 /\ final[l.taker] = "nack" /\ k \in Calls
    BY DEF Calling, Told, Calls
  <2>2. l \notin Settled /\ l \notin in_flight
    <3>1. handler[l.taker] = "finished"
      BY <2>1, OnConnection, Finished DEF Current
    <3> QED
      BY <2>1, <3>1 DEF Settled, IInv, LeaseControl, Holding
  <2>3. l.entry \in Stored
    BY DEF Truth
  <2>4. CASE l.entry \in queue
    BY <2>4
  <2>5. CASE l.entry \notin queue
    <3>1. PICK m \in in_flight \cup Settled : m.entry = l.entry
      BY <2>3, <2>5 DEF Stored, EntriesOf
    <3>2. m \in offers /\ m # l
      BY <2>2 DEF IInv, LeaseControl, Settled
    <3> QED
      BY <3>1, <3>2 DEF IInv, LeaseControl
  <2> QED
    BY <2>4, <2>5
<1> QED
  BY <1>1, <1>2 DEF LostOnlyWithItsConnection

\* What a push returns is true of the transaction it returns, and one push
\* stores its message twice only after a connection it had acknowledged on failed.
THEOREM PushesAreToldTheTruth == Spec => []PushAnswerIsTrue
  BY Always, TruePush, PTL

\* A message is returned by at most one fetch, whatever attempts are retried and
\* whatever acknowledgements come late.
THEOREM MessagesAreDeliveredOnce == Spec => []DeliveredOnce
  BY Always, NothingLostOrDoubled, OnceDelivered, PTL

\* A message the broker has forgotten reached its caller, or is about to, or its
\* connection failed after the ACK; one that was refused is not lost.
THEOREM NothingElseIsLost == Spec => []LostOnlyWithItsConnection
  BY Always, NothingLostOrDoubled, LostOnly, PTL

=============================================================================
