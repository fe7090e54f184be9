---------------------------- MODULE SimpleBroker ----------------------------
(***************************************************************************)
(* One queue of SimpleMessageBroker together with the SimpleClient calls   *)
(* that use it: OrderedMessageQueue, the per-connection handler threads of *)
(* the broker, and the client's _handle_push and _handle_pop loops, which  *)
(* exchange a three-way handshake (request / transaction / ACK / final     *)
(* response) over connections that may fail at any point.                  *)
(*                                                                         *)
(* Every attempt of a call opens a connection of its own, so a connection  *)
(* is <<call, attempt>>; the broker gives each connection one transaction  *)
(* id, so a connection also stands for its transaction (and, for           *)
(* PUSH_FOR_NV_INGEST, for the job_id written into the message).           *)
(***************************************************************************)
EXTENDS Integers, FiniteSets

CONSTANTS
  Pushes,       \* submit_message calls, one message each
  Pops,         \* fetch_message calls
  MaxSize,      \* maxsize of the queue, 0 for unbounded
  Attempts,     \* bound: connections of each call, rejected ones not counted
  Timed         \* the calls made with a timeout (None means retry forever)

Calls == Pushes \cup Pops

ASSUME BrokerAssumption ==
  /\ Pushes \cap Pops = {}
  /\ MaxSize \in Nat
  /\ Attempts \in [Calls -> Nat \ {0}]
  /\ Timed \subseteq Calls

ConnOf(S) == UNION {{k} \X (1..Attempts[k]) : k \in S}
PushConn == ConnOf(Pushes)
PopConn  == ConnOf(Pops)
Conn     == PushConn \cup PopConn

\* A stored (index, message) pair; the message is named by its transaction.
Entry == [index : Nat, job : PushConn]
\* A message handed to a transaction: in_flight's items, and initial replies.
Lease == [taker : PopConn, entry : Entry]

VARIABLES
  queue,       \* OrderedMessageQueue.queue, a heap ordered by index
  in_flight,   \* OrderedMessageQueue.in_flight, as a set of leases
  next_index,  \* OrderedMessageQueue.next_index
  handler,     \* where the broker thread of each connection is
  offers,      \* the message carried by each POP's initial response
  reply,       \* initial response sent on each connection
  final,       \* final response sent on each connection
  link,        \* state of each connection, as its client end sees it
  acked,       \* whether the client has sent the ACK on the connection
  call,        \* where each client call is
  attempt,     \* the number of the call's current connection
  result       \* what each call has returned

queueVars   == <<queue, in_flight, next_index>>
handlerVars == <<handler, offers, reply, final>>
clientVars  == <<call, attempt, result>>
vars == <<queueVars, handlerVars, link, acked, clientVars>>

Current(k) == <<k, attempt[k]>>

-----------------------------------------------------------------------------
(* OrderedMessageQueue: each operation runs under the queue's lock.        *)

full  == MaxSize > 0 /\ Cardinality(queue) + Cardinality(in_flight) >= MaxSize
empty == queue = {}

push(job) ==
  /\ queue' = queue \cup {[index |-> next_index, job |-> job]}
  /\ next_index' = next_index + 1
  /\ UNCHANGED in_flight

pop(c) ==
  \E e \in queue :
    /\ \A f \in queue : e.index <= f.index
    /\ queue' = queue \ {e}
    /\ in_flight' = in_flight \cup {[taker |-> c, entry |-> e]}
    /\ offers' = offers \cup {[taker |-> c, entry |-> e]}
    /\ UNCHANGED next_index

LeasesOf(c) == {l \in in_flight : l.taker = c}

acknowledge(c) ==
  /\ in_flight' = in_flight \ LeasesOf(c)
  /\ UNCHANGED <<queue, next_index>>

\* Mutant: in_flight is read instead of popped.
return_message_keeping_lease(c) ==
  /\ queue' = queue \cup {l.entry : l \in LeasesOf(c)}
  /\ UNCHANGED <<in_flight, next_index>>

\* Mutant: the message goes back as if it were pushed again.
return_message_at_end(c) ==
  /\ queue' = queue \cup {[index |-> next_index, job |-> l.entry.job] : l \in LeasesOf(c)}
  /\ in_flight' = in_flight \ LeasesOf(c)
  /\ next_index' = next_index + Cardinality(LeasesOf(c))

return_message(c) ==
  /\ queue' = queue \cup {l.entry : l \in LeasesOf(c)}
  /\ in_flight' = in_flight \ LeasesOf(c)
  /\ UNCHANGED next_index

-----------------------------------------------------------------------------
(* The broker: one handler thread per connection.                          *)

Goto(c, there) == handler' = [handler EXCEPT ![c] = there]
Answer(c, r)   == reply' = [reply EXCEPT ![c] = r]
Finish(c, r)   == Goto(c, "finished") /\ final' = [final EXCEPT ![c] = r]

\* Mutant: the test for room is off by one.
HandlePush_short_of_one(c) ==
  LET short == Cardinality(queue) + Cardinality(in_flight) + 1 >= MaxSize IN
    /\ handler[c] = "serving"
    /\ \/ short  /\ Goto(c, "finished") /\ Answer(c, "full")
       \/ ~short /\ Goto(c, "waiting")  /\ Answer(c, "offer")
    /\ UNCHANGED <<queueVars, offers, final, link, acked, clientVars>>

\* _handle_push and _handle_push_for_nv_ingest up to the wait for the ACK:
\* the test for room, in a critical section that ends before the push.
HandlePush(c) ==
  /\ handler[c] = "serving"
  /\ \/ full  /\ Goto(c, "finished") /\ Answer(c, "full")
     \/ ~full /\ Goto(c, "waiting")  /\ Answer(c, "offer")
  /\ UNCHANGED <<queueVars, offers, final, link, acked, clientVars>>

\* _handle_pop, its first critical section: test and pop.
HandlePop(c) ==
  /\ handler[c] = "serving"
  /\ \/ /\ empty
        /\ Goto(c, "finished") /\ Answer(c, "empty")
        /\ UNCHANGED <<queueVars, offers>>
     \/ /\ ~empty
        /\ pop(c)
        /\ Goto(c, "sending") /\ UNCHANGED reply
  /\ UNCHANGED <<final, link, acked, clientVars>>

\* The initial response with the message: sendall on a socket that has no timeout
\* yet. _send_response swallows its exceptions, so that the wait comes next.
SendMessage(c) ==
  /\ handler[c] = "sending"
  /\ Goto(c, "waiting") /\ Answer(c, "offer")
  /\ UNCHANGED <<queueVars, offers, final, link, acked, clientVars>>

\* handle() when the request never arrives: the thread ends, nothing is done.
DropRequest(c) ==
  /\ handler[c] = "serving" /\ link[c] = "failed"
  /\ Goto(c, "finished")
  /\ UNCHANGED <<queueVars, offers, reply, final, link, acked, clientVars>>

\* _wait_for_ack raises: recv fails with another OSError, which only handle()
\* catches; the rest of the operation is skipped.
WaitRaises(c) ==
  /\ handler[c] = "waiting" /\ link[c] = "failed"
  /\ Goto(c, "raised")
  /\ UNCHANGED <<queueVars, offers, reply, final, link, acked, clientVars>>

(* The wait for the ACK and what follows it. _wait_for_ack returns True     *)
(* once the ACK is read, False on a timeout, on end of stream, on a reset   *)
(* or with the ACK still under way; it touches the connection only, so it   *)
(* is one step with the critical section and the final response after it.  *)

\* Mutant: the client is told "Data stored." in both cases.
FinishPush_always_ok(c) ==
  /\ handler[c] = "waiting" /\ Finish(c, "ok")
  /\ (acked[c] /\ push(c)) \/ UNCHANGED queueVars
  /\ UNCHANGED <<offers, reply, link, acked, clientVars>>

FinishPush(c) ==
  /\ handler[c] = "waiting"
  /\ \/ acked[c] /\ push(c) /\ Finish(c, "ok")
     \/ Finish(c, "nack") /\ UNCHANGED queueVars
  /\ UNCHANGED <<offers, reply, link, acked, clientVars>>

\* Mutant: an acknowledged message is returned to the queue.
FinishPop_returning(c) ==
  /\ handler[c] = "waiting" /\ return_message(c)
  /\ (acked[c] /\ Finish(c, "ok")) \/ Finish(c, "nack")
  /\ UNCHANGED <<offers, reply, link, acked, clientVars>>

\* Mutant: the wait has no timeout, only a broken connection ends it.
FinishPop_no_timeout(c) ==
  /\ handler[c] = "waiting"
  /\ \/ acked[c] /\ acknowledge(c) /\ Finish(c, "ok")
     \/ link[c] = "failed" /\ return_message(c) /\ Finish(c, "nack")
  /\ UNCHANGED <<offers, reply, link, acked, clientVars>>

FinishPop(c) ==
  /\ handler[c] = "waiting"
  /\ \/ acked[c] /\ acknowledge(c) /\ Finish(c, "ok")
     \/ return_message(c) /\ Finish(c, "nack")
  /\ UNCHANGED <<offers, reply, link, acked, clientVars>>

-----------------------------------------------------------------------------
(* The client: the retry loops of _handle_push and _handle_pop, which take *)
(* the same steps and differ in the command they send.                     *)

Hang(k, how) == link' = [link EXCEPT ![Current(k)] = how]
Step(k, there) == call' = [call EXCEPT ![k] = there]
Return(k, r) == Step(k, "returned") /\ result' = [result EXCEPT ![k] = r]

\* Top of the loop: a new connection, on which the command is sent.
Connect(k) ==
  /\ call[k] = "loop" /\ attempt[k] < Attempts[k]
  /\ LET c == <<k, attempt[k] + 1>> IN
       /\ attempt' = [attempt EXCEPT ![k] = @ + 1]
       /\ link' = [link EXCEPT ![c] = "open"]
       /\ Goto(c, "serving")
  /\ Step(k, "wait_initial")
  /\ UNCHANGED <<queueVars, offers, reply, final, acked, result>>

\* Mutant: the deadline also interrupts the wait for the final response.
TimeOut_anywhere(k) ==
  /\ call[k] \in {"loop", "wait_final"} /\ k \in Timed
  /\ Return(k, "timeout")
  /\ UNCHANGED <<queueVars, handlerVars, link, acked, attempt>>

\* Top of the loop, the remaining time used up.
TimeOut(k) ==
  /\ call[k] = "loop" /\ k \in Timed
  /\ Return(k, "timeout")
  /\ UNCHANGED <<queueVars, handlerVars, link, acked, attempt>>

\* "Queue is full" or "Queue is empty": sleep and try again. A rejected
\* connection leaves nothing behind, so its place is used again.
Rejected(k) ==
  /\ call[k] = "wait_initial" /\ link[Current(k)] = "open"
  /\ reply[Current(k)] \in {"full", "empty"}
  /\ Step(k, "loop") /\ Hang(k, "unused")
  /\ Goto(Current(k), "absent") /\ Answer(Current(k), "none")
  /\ attempt' = [attempt EXCEPT ![k] = @ - 1]
  /\ UNCHANGED <<queueVars, offers, final, acked, result>>

\* The initial response names a transaction: send the ACK.
SendAck(k) ==
  /\ call[k] = "wait_initial" /\ link[Current(k)] = "open"
  /\ reply[Current(k)] = "offer"
  /\ acked' = [acked EXCEPT ![Current(k)] = TRUE]
  /\ Step(k, "wait_final")
  /\ UNCHANGED <<queueVars, handlerVars, link, attempt, result>>

\* The final response is what the call returns (with the message, for a pop).
ReadFinal(k) ==
  /\ call[k] = "wait_final" /\ link[Current(k)] = "open"
  /\ final[Current(k)] # "none"
  /\ Return(k, IF final[Current(k)] = "ok" THEN "ok" ELSE "error")
  /\ Hang(k, "done")
  /\ UNCHANGED <<queueVars, handlerVars, acked, attempt>>

\* The connection breaks, or recv gives up after its own timeout: either is a
\* ConnectionError to the loop, which goes back to its top. What was under way
\* in either direction may or may not have arrived.
Retry(k) ==
  /\ call[k] \in {"wait_initial", "wait_final"}
  /\ Step(k, "loop") /\ Hang(k, "failed")
  /\ UNCHANGED <<queueVars, handlerVars, acked, attempt, result>>

-----------------------------------------------------------------------------
Init ==
  /\ queue = {} /\ in_flight = {} /\ next_index = 0
  /\ handler = [c \in Conn |-> "absent"]
  /\ offers = {}
  /\ reply = [c \in Conn |-> "none"]
  /\ final = [c \in Conn |-> "none"]
  /\ link = [c \in Conn |-> "unused"]
  /\ acked = [c \in Conn |-> FALSE]
  /\ call = [k \in Calls |-> "loop"]
  /\ attempt = [k \in Calls |-> 0]
  /\ result = [k \in Calls |-> "none"]

\* The steps of a handler that cannot block.
Serve(c) ==
  \/ c \in PushConn /\ (HandlePush(c) \/ FinishPush(c))
  \/ c \in PopConn /\ (HandlePop(c) \/ FinishPop(c))
  \/ DropRequest(c) \/ WaitRaises(c)

Handle(c) == Serve(c) \/ (c \in PopConn /\ SendMessage(c))

Client(k) ==
  \/ Connect(k) \/ TimeOut(k) \/ Rejected(k)
  \/ SendAck(k) \/ ReadFinal(k) \/ Retry(k)

Next ==
  \/ \E c \in Conn : Handle(c)
  \/ \E k \in Calls : Client(k)

\* A broker thread stops at nothing but a message its client does not read: the
\* wait for the ACK has a finite timeout (100 seconds unless the request says
\* otherwise), the critical sections do not block, and all other responses are
\* of a few dozen bytes. Clients may stall or die at any point.
Fairness == \A c \in Conn : WF_vars(Serve(c))

Spec == Init /\ [][Next]_vars /\ Fairness

-----------------------------------------------------------------------------
(* Properties.                                                             *)

\* Leases whose message acknowledge() has removed for good.
Settled == {l \in offers : final[l.taker] = "ok"}

Abstract == INSTANCE LeaseQueue WITH
  Makers <- PushConn, Takers <- PopConn,
  waiting <- queue, leases <- in_flight, settled <- Settled, count <- next_index

EntriesOf(S) == {l.entry : l \in S}
Stored == queue \cup EntriesOf(in_flight) \cup EntriesOf(Settled)

\* The type of every variable.
TypeOK ==
  /\ queue \subseteq Entry /\ in_flight \subseteq Lease /\ next_index \in Nat
  /\ offers \subseteq Lease
  /\ handler \in [Conn -> {"absent", "serving", "sending", "waiting", "raised", "finished"}]
  /\ reply \in [Conn -> {"none", "offer", "full", "empty"}]
  /\ final \in [Conn -> {"none", "ok", "nack"}]
  /\ link \in [Conn -> {"unused", "open", "done", "failed"}]
  /\ acked \in [Conn -> BOOLEAN]
  /\ call \in [Calls -> {"loop", "wait_initial", "wait_final", "returned"}]
  /\ attempt \in [Calls -> Nat] /\ \A k \in Calls : attempt[k] <= Attempts[k]
  /\ result \in [Calls -> {"none", "ok", "error", "timeout"}]

\* The broker with its threads, timeouts and failing connections implements the
\* abstract queue: each of its steps is a Store, Lease, Settle or Release, or
\* leaves the queue alone.
AbstractSpec == Abstract!Spec

\* A message the broker has stored is never lost or doubled inside it: each
\* index handed out is in the queue, or held by one transaction, or was
\* acknowledged by one, however pushes, pops, timeouts and returns interleave.
ExactlyOnePlace == Abstract!OnePlace

\* The broker stores a message, or forgets one, only on a connection whose
\* client has read the initial response and answered it.
NothingWithoutAck == \A c \in Conn : final[c] = "ok" => acked[c]

\* A push stores its message twice only after a connection it had
\* acknowledged on failed before the final response.
StoredTwiceOnlyAfterFailure ==
  \A e, f \in Stored : e # f /\ e.job[1] = f.job[1] =>
    \E c \in {e.job, f.job} : acked[c] /\ link[c] = "failed"

\* What a push returns is true of the transaction it returns: "Data stored."
\* names a job that was stored, after the three-way handshake of _handle_push,
\* "ACK not received." one that was not; and one push stores two jobs only when
\* the answer about the first got lost.
PushAnswerIsTrue ==
  /\ \A p \in Pushes : call[p] = "returned" =>
       /\ result[p] = "ok" => \E e \in Stored : e.job = Current(p)
       /\ result[p] = "error" => \A e \in Stored : e.job # Current(p)
  /\ NothingWithoutAck /\ StoredTwiceOnlyAfterFailure

\* A message is returned by at most one fetch call, and once a call has
\* returned it the broker will not hand it out again.
DeliveredOnce ==
  \A k \in Pops : result[k] = "ok" =>
    \E l \in Settled :
      /\ l.taker = Current(k)
      /\ \A m \in Pops \ {k}, n \in offers :
           result[m] = "ok" /\ n.taker = Current(m) => n.entry # l.entry

\* A fetch that returns an error has left its message for others to fetch:
\* in the queue again, or already with another transaction.
RefusedFetchKeepsMessage ==
  \A k \in Pops, l \in offers :
    result[k] = "error" /\ l.taker = Current(k) =>
      \/ l.entry \in queue
      \/ \E m \in in_flight \cup Settled : m.entry = l.entry /\ m.taker # l.taker

\* A message the broker has forgotten reached its caller, or is about to, or
\* the connection failed after the ACK: that gap is the only way to lose one,
\* and a fetch that was refused does not.
LostOnlyWithItsConnection ==
  /\ \A l \in Settled : LET k == l.taker[1] IN
       \/ l.taker = Current(k) /\ (result[k] = "ok" \/ call[k] = "wait_final")
       \/ link[l.taker] = "failed"
  /\ RefusedFetchKeepsMessage

\* Whatever its client does once it has read the message, a transaction gives
\* the message up: one that holds it for ever is still sending it, to a client
\* that does not read, or its wait for the ACK has ended in an exception.
LeaseEnds ==
  \A c \in PopConn :
    <>[](LeasesOf(c) # {}) => <>[](handler[c] \in {"sending", "raised"})

OutOfAttempts(k) == call[k] = "loop" /\ attempt[k] = Attempts[k]

\* Client threads that are scheduled run their loops to the end, and what they
\* do not read they do not keep open: every message gets sent, or its connection
\* is seen to be broken.
ClientsRun ==
  /\ \A k \in Calls : WF_vars(Client(k))
  /\ \A c \in PopConn : WF_vars(SendMessage(c))

\* Calls that keep retrying are not kept waiting by anything but the queue: a
\* push with room for good, and a fetch with a message there for good, returns
\* or all its connections failed.
CallsWaitOnlyForQueue == ClientsRun =>
  /\ \A p \in Pushes : <>[] ~full => <>(call[p] = "returned" \/ OutOfAttempts(p))
  /\ \A k \in Pops : <>[] ~empty => <>(call[k] = "returned" \/ OutOfAttempts(k))
=============================================================================
