------------------------------- MODULE MPStage -------------------------------
(***************************************************************************)
(* One stage of the pipeline: MultiProcessingBaseStage, the base of the    *)
(* extractors, filters and NIM stages, and ProcessWorkerPoolSingleton, on  *)
(* which it runs its process_fn.                                           *)
(*                                                                         *)
(* Each progress engine of the stage runs observable_fn: a receiver that   *)
(* is called with the messages of the upstream edge, an input queue of one *)
(* place, a child thread that has the work done in the pool, a response    *)
(* queue of one place, and a handler thread that passes the results on.    *)
(* The stage's engines share the ledger, the pass-through queue and the    *)
(* pool. A message is received once and gets a fresh cm_id, so the message *)
(* stands for its cm_id, its work package and its pipe.                    *)
(***************************************************************************)
EXTENDS Naturals, FiniteSets

CONSTANTS
  Messages,    \* IngestControlMessages that reach the stage
  Engines,     \* progress engines of the stage (pe_count)
  Workers,     \* processes of the pool
  BufferSize,  \* edge_buffer_size, capacity of the pass-through queue
  Mortal,      \* workers that may be killed while they run a task
  Erring,      \* engines whose upstream may end in an error
  MayStop      \* whether join() may be called before the stage is done

ASSUME StageAssumption ==
  /\ BufferSize \in Nat \ {0}
  /\ IsFiniteSet(Workers) /\ Mortal \subseteq Workers /\ Erring \subseteq Engines
  /\ MayStop \in BOOLEAN

\* Events of the input and response queues. A package carries its message; the
\* event made of an upstream error carries none.
Work(m)   == [type |-> "on_next", cm |-> m]
Failed(m) == [type |-> "on_error", cm |-> m]
UpstreamFailed == [type |-> "on_error"]
Completed == [type |-> "on_completed"]
PackagesOf(m) == {Work(m), Failed(m)}
Packages == UNION {PackagesOf(m) : m \in Messages}
Events == Packages \cup {UpstreamFailed, Completed}

VARIABLES
  upstream,   \* messages the upstream edge has still to deliver
  tasks,      \* whether each message carries this stage's task
  cm_failed,  \* metadata "cm_failed" of each message
  came,       \* tasks and cm_failed as the messages arrived (a history variable)
  receiver,   \* where each engine is in its on_next, on_error, on_completed
  sending,    \* the event it is putting in the input queue
  forwarding, \* the message it is putting in the pass-through queue
  input,      \* work_package_input_queue of each engine
  child,      \* where the child thread (work_package_input_handler) is
  holding,    \* the event the child thread has in hand
  response,   \* work_package_response_queue of each engine
  handler,    \* where the handler thread (work_package_response_handler) is
  passed_on,  \* packages given to the subscriber, on their way to reconstruct_fn
  ledger,     \* _ctrl_msg_ledger
  pass_thru,  \* _pass_thru_recv_queue
  emitted,    \* how often the merge node has emitted each message
  node,       \* whether the reconstruction node runs, or its function raised
  task_queue, \* _task_queue of the pool
  running,    \* the task each worker is running
  alive,      \* workers that have not died
  pipe,       \* what the worker has sent on each task's pipe
  cancelled   \* _cancellation_token

messageVars  == <<upstream, tasks, cm_failed, came>>
receiverVars == <<receiver, sending, forwarding, ledger>>
childVars    == <<child, holding>>
outputVars   == <<passed_on, emitted, node>>
poolVars     == <<task_queue, running, alive, pipe>>
vars == <<messageVars, receiverVars, input, childVars, response, handler,
          pass_thru, outputVars, poolVars, cancelled>>

Put(q, e, ev) == q[e] = {} /\ q' = [q EXCEPT ![e] = {ev}]
Take(q, e, ev) == ev \in q[e] /\ q' = [q EXCEPT ![e] = {}]
ReceiverTo(e, there) == receiver' = [receiver EXCEPT ![e] = there]
ChildTo(e, there) == child' = [child EXCEPT ![e] = there]
HandlerTo(e, there) == handler' = [handler EXCEPT ![e] = there]

-----------------------------------------------------------------------------
(* The receiver: what observable_fn subscribes to the upstream edge.       *)

Skipped(m) == ~tasks[m] \/ cm_failed[m]

\* on_next of a message with the stage's task that has not failed: the task is
\* taken off, the message goes in the ledger and its package to the child.
Accept(e, m) ==
  /\ receiver[e] = "listening" /\ m \in upstream /\ ~Skipped(m)
  /\ upstream' = upstream \ {m}
  /\ tasks' = [tasks EXCEPT ![m] = FALSE]
  /\ ledger' = ledger \cup {m}
  /\ sending' = [sending EXCEPT ![e] = {Work(m)}]
  /\ ReceiverTo(e, "sending")
  /\ UNCHANGED <<cm_failed, came, forwarding, input, childVars, response, handler,
                 pass_thru, outputVars, poolVars, cancelled>>

\* on_next of any other message: filter_by_task, or the wrapper that finds it
\* failed, calls forward_fn.
Forward(e, m) ==
  /\ receiver[e] = "listening" /\ m \in upstream /\ Skipped(m)
  /\ upstream' = upstream \ {m}
  /\ forwarding' = [forwarding EXCEPT ![e] = {m}]
  /\ ReceiverTo(e, "forwarding")
  /\ UNCHANGED <<tasks, cm_failed, came, sending, ledger, input, childVars, response,
                 handler, pass_thru, outputVars, poolVars, cancelled>>

\* Mutant: the end of the upstream is not passed to the child thread.
End_silently(e) ==
  /\ receiver[e] = "listening" /\ upstream = {}
  /\ ReceiverTo(e, "joining")
  /\ UNCHANGED <<messageVars, sending, forwarding, ledger, input, childVars,
                 response, handler, pass_thru, outputVars, poolVars, cancelled>>

\* on_completed and on_error, after which the upstream calls nothing more.
End(e) ==
  /\ receiver[e] = "listening"
  /\ \/ upstream = {} /\ sending' = [sending EXCEPT ![e] = {Completed}]
     \/ e \in Erring /\ sending' = [sending EXCEPT ![e] = {UpstreamFailed}]
  /\ ReceiverTo(e, "sending")
  /\ UNCHANGED <<messageVars, forwarding, ledger, input, childVars, response,
                 handler, pass_thru, outputVars, poolVars, cancelled>>

\* The blocking put in the input queue. After the upstream's end, observable_fn
\* goes on to join the handler thread.
Send(e) ==
  /\ receiver[e] = "sending"
  /\ \E ev \in sending[e] :
       /\ Put(input, e, ev)
       /\ ReceiverTo(e, IF ev \in Packages THEN "listening" ELSE "joining")
  /\ sending' = [sending EXCEPT ![e] = {}]
  /\ UNCHANGED <<messageVars, forwarding, ledger, childVars, response, handler,
                 pass_thru, outputVars, poolVars, cancelled>>

\* Mutant: the loop goes on after a put that succeeded.
put_in_queue_no_break(e) ==
  /\ receiver[e] = "forwarding"
  /\ Cardinality(pass_thru) < BufferSize
  /\ pass_thru' = pass_thru \cup forwarding[e]
  /\ UNCHANGED <<messageVars, receiverVars, input, childVars, response,
                 handler, outputVars, poolVars, cancelled>>

\* put_in_queue: tries until the pass-through queue has room.
put_in_queue(e) ==
  /\ receiver[e] = "forwarding"
  /\ Cardinality(pass_thru) < BufferSize
  /\ pass_thru' = pass_thru \cup forwarding[e]
  /\ forwarding' = [forwarding EXCEPT ![e] = {}]
  /\ ReceiverTo(e, "listening")
  /\ UNCHANGED <<messageVars, sending, ledger, input, childVars, response,
                 handler, outputVars, poolVars, cancelled>>

\* observable_fn returns when the handler thread has ended.
Return(e) ==
  /\ receiver[e] = "joining" /\ handler[e] = "ended"
  /\ ReceiverTo(e, "returned")
  /\ UNCHANGED <<messageVars, sending, forwarding, ledger, input, childVars,
                 response, handler, pass_thru, outputVars, poolVars, cancelled>>

-----------------------------------------------------------------------------
(* The child thread.                                                       *)

\* A package is worked on; any other event is put in the response queue. The
\* token may have been set since the thread looked at it.
ChildGet(e) ==
  /\ child[e] = "get"
  /\ \E ev \in input[e] :
       /\ Take(input, e, ev)
       /\ holding' = [holding EXCEPT ![e] = {ev}]
       /\ ChildTo(e, IF ev \in Packages THEN "submit" ELSE "respond")
  /\ UNCHANGED <<messageVars, receiverVars, response, handler, pass_thru,
                 outputVars, poolVars, cancelled>>

\* submit_task: blocks while the task queue is full.
submit_task(e) ==
  /\ child[e] = "submit"
  /\ Cardinality(task_queue) < 2 * Cardinality(Workers)
  /\ \E m \in Messages :
       /\ Work(m) \in holding[e]
       /\ task_queue' = task_queue \cup {m}
  /\ ChildTo(e, "wait")
  /\ UNCHANGED <<messageVars, receiverVars, input, holding, response, handler,
                 pass_thru, outputVars, running, alive, pipe, cancelled>>

\* Mutant: outcomes come back on one queue for all tasks.
Result_of_any(e) ==
  /\ child[e] = "wait"
  /\ \E m, n \in Messages :
       /\ Work(m) \in holding[e] /\ pipe[n] # "empty"
       /\ holding' = [holding EXCEPT ![e] =
                        {IF pipe[n] = "value" THEN Work(m) ELSE Failed(m)}]
  /\ ChildTo(e, "respond")
  /\ UNCHANGED <<messageVars, receiverVars, input, response, handler,
                 pass_thru, outputVars, poolVars, cancelled>>

\* future.result(): blocks until the pipe has the outcome, which an exception
\* turns into an error package.
Result(e) ==
  /\ child[e] = "wait"
  /\ \E m \in Messages :
       /\ Work(m) \in holding[e] /\ pipe[m] # "empty"
       /\ holding' = [holding EXCEPT ![e] =
                        {IF pipe[m] = "value" THEN Work(m) ELSE Failed(m)}]
  /\ ChildTo(e, "respond")
  /\ UNCHANGED <<messageVars, receiverVars, input, response, handler,
                 pass_thru, outputVars, poolVars, cancelled>>

\* Mutant: the response queue has no maximum size.
Respond_unbounded(e) ==
  /\ child[e] = "respond"
  /\ \E ev \in holding[e] :
       /\ response' = [response EXCEPT ![e] = @ \cup {ev}]
       /\ ChildTo(e, IF ev = Completed \/ cancelled THEN "closing" ELSE "get")
  /\ holding' = [holding EXCEPT ![e] = {}]
  /\ UNCHANGED <<messageVars, receiverVars, input, handler, pass_thru,
                 outputVars, poolVars, cancelled>>

\* The blocking put in the response queue, and the top of the loop.
Respond(e) ==
  /\ child[e] = "respond"
  /\ \E ev \in holding[e] :
       /\ Put(response, e, ev)
       /\ ChildTo(e, IF ev = Completed \/ cancelled THEN "closing" ELSE "get")
  /\ holding' = [holding EXCEPT ![e] = {}]
  /\ UNCHANGED <<messageVars, receiverVars, input, handler, pass_thru,
                 outputVars, poolVars, cancelled>>

\* The loop sees the token.
ChildStop(e) ==
  /\ child[e] = "get" /\ cancelled
  /\ ChildTo(e, "closing")
  /\ UNCHANGED <<messageVars, receiverVars, input, holding, response, handler,
                 pass_thru, outputVars, poolVars, cancelled>>

\* The completion event after the loop, another blocking put.
Close(e) ==
  /\ child[e] = "closing"
  /\ Put(response, e, Completed)
  /\ ChildTo(e, "ended")
  /\ UNCHANGED <<messageVars, receiverVars, input, holding, handler, pass_thru,
                 outputVars, poolVars, cancelled>>

-----------------------------------------------------------------------------
(* The handler thread and the nodes after it.                              *)

\* Any package goes to the subscriber, so does the event of an upstream error.
HandlerGet(e) ==
  /\ handler[e] = "get"
  /\ \E ev \in response[e] :
       /\ Take(response, e, ev)
       /\ passed_on' = IF ev = Completed THEN passed_on ELSE passed_on \cup {ev}
       /\ HandlerTo(e, IF ev = Completed \/ cancelled THEN "ended" ELSE "get")
  /\ UNCHANGED <<messageVars, receiverVars, input, childVars, pass_thru,
                 emitted, node, poolVars, cancelled>>

\* The loop sees the token; sub.on_completed() follows in any case.
HandlerStop(e) ==
  /\ handler[e] = "get" /\ cancelled
  /\ HandlerTo(e, "ended")
  /\ UNCHANGED <<messageVars, receiverVars, input, childVars, response,
                 pass_thru, outputVars, poolVars, cancelled>>

\* merge_fn emits the message.
Emit(m) == emitted' = [emitted EXCEPT ![m] = @ + 1]

\* Mutant: the message is looked up in the ledger but stays there.
Reconstruct_reading(m) ==
  /\ node = "runs" /\ m \in ledger
  /\ \E ev \in passed_on \cap PackagesOf(m) :
       /\ passed_on' = passed_on \ {ev}
       /\ cm_failed' = [cm_failed EXCEPT ![m] = @ \/ ev = Failed(m)]
  /\ Emit(m)
  /\ UNCHANGED <<upstream, tasks, came, receiverVars, input, childVars, response,
                 handler, pass_thru, node, poolVars, cancelled>>

\* reconstruct_fn and merge_fn: the message leaves the ledger, marked as failed
\* if its package says so.
Reconstruct(m) ==
  /\ node = "runs" /\ m \in ledger
  /\ \E ev \in passed_on \cap PackagesOf(m) :
       /\ passed_on' = passed_on \ {ev}
       /\ cm_failed' = [cm_failed EXCEPT ![m] = @ \/ ev = Failed(m)]
  /\ ledger' = ledger \ {m}
  /\ Emit(m)
  /\ UNCHANGED <<upstream, tasks, came, receiver, sending, forwarding, input,
                 childVars, response, handler, pass_thru, node, poolVars,
                 cancelled>>

\* reconstruct_fn of a package whose cm_id the ledger does not have, or that
\* has none: pop raises KeyError, and the node ends.
ReconstructRaises ==
  /\ node = "runs"
  /\ \/ UpstreamFailed \in passed_on
     \/ \E m \in Messages \ ledger : passed_on \cap PackagesOf(m) # {}
  /\ node' = "raised"
  /\ UNCHANGED <<messageVars, receiverVars, input, childVars, response, handler,
                 pass_thru, passed_on, emitted, poolVars, cancelled>>

\* _pass_thru_source_fn and merge_fn.
PassThrough(m) ==
  /\ m \in pass_thru
  /\ pass_thru' = pass_thru \ {m}
  /\ Emit(m)
  /\ UNCHANGED <<messageVars, receiverVars, input, childVars, response, handler,
                 passed_on, node, poolVars, cancelled>>

-----------------------------------------------------------------------------
(* The pool.                                                               *)

TakeTask(w) ==
  /\ w \in alive /\ running[w] = {}
  /\ \E m \in task_queue :
       /\ task_queue' = task_queue \ {m}
       /\ running' = [running EXCEPT ![w] = {m}]
  /\ UNCHANGED <<messageVars, receiverVars, input, childVars, response, handler,
                 pass_thru, outputVars, alive, pipe, cancelled>>

\* process_fn returns or raises, and the worker sends which on the task's pipe.
RunTask(w) ==
  /\ w \in alive
  /\ \E m \in running[w], r \in {"value", "error"} :
       pipe' = [pipe EXCEPT ![m] = r]
  /\ running' = [running EXCEPT ![w] = {}]
  /\ UNCHANGED <<messageVars, receiverVars, input, childVars, response, handler,
                 pass_thru, outputVars, task_queue, alive, cancelled>>

\* Mutant: another process keeps the pipe's sending end open.
Die_pipe_open(w) ==
  /\ w \in alive \cap Mortal /\ running[w] # {}
  /\ running' = [running EXCEPT ![w] = {}]
  /\ alive' = alive \ {w}
  /\ UNCHANGED <<messageVars, receiverVars, input, childVars, response, handler,
                 pass_thru, outputVars, task_queue, pipe, cancelled>>

\* The process is killed while it runs a task: the pipe ends, which raises
\* EOFError in result(). No process takes its place.
Die(w) ==
  /\ w \in alive \cap Mortal
  /\ \E m \in running[w] : pipe' = [pipe EXCEPT ![m] = "error"]
  /\ running' = [running EXCEPT ![w] = {}]
  /\ alive' = alive \ {w}
  /\ UNCHANGED <<messageVars, receiverVars, input, childVars, response, handler,
                 pass_thru, outputVars, task_queue, cancelled>>

\* join() sets the token and waits for the handler threads.
join ==
  /\ MayStop /\ ~cancelled
  /\ cancelled' = TRUE
  /\ UNCHANGED <<messageVars, receiverVars, input, childVars, response, handler,
                 pass_thru, outputVars, poolVars>>

-----------------------------------------------------------------------------
Init ==
  /\ upstream = Messages
  /\ tasks \in [Messages -> BOOLEAN] /\ cm_failed \in [Messages -> BOOLEAN]
  /\ came = [task |-> tasks, failed |-> cm_failed]
  /\ receiver = [e \in Engines |-> "listening"]
  /\ sending = [e \in Engines |-> {}] /\ forwarding = [e \in Engines |-> {}]
  /\ input = [e \in Engines |-> {}] /\ response = [e \in Engines |-> {}]
  /\ child = [e \in Engines |-> "get"] /\ holding = [e \in Engines |-> {}]
  /\ handler = [e \in Engines |-> "get"]
  /\ passed_on = {} /\ ledger = {} /\ pass_thru = {}
  /\ emitted = [m \in Messages |-> 0]
  /\ node = "runs"
  /\ task_queue = {} /\ running = [w \in Workers |-> {}] /\ alive = Workers
  /\ pipe = [m \in Messages |-> "empty"]
  /\ cancelled = FALSE

Receiver(e) ==
  \/ \E m \in Messages : Accept(e, m) \/ Forward(e, m)
  \/ End(e) \/ Send(e) \/ put_in_queue(e) \/ Return(e)
Child(e) ==
  \/ ChildGet(e) \/ submit_task(e) \/ Result(e)
  \/ Respond(e) \/ ChildStop(e) \/ Close(e)
Handler(e) == HandlerGet(e) \/ HandlerStop(e)
Reconstructor == ReconstructRaises \/ \E m \in Messages : Reconstruct(m)
PassThruSource == \E m \in Messages : PassThrough(m)
Worker(w) == TakeTask(w) \/ RunTask(w)

Next ==
  \/ \E e \in Engines : Receiver(e) \/ Child(e) \/ Handler(e)
  \/ \E w \in Workers : Worker(w) \/ Die(w)
  \/ Reconstructor \/ PassThruSource
  \/ join

\* Every thread, node and worker goes on as long as it can: the waits of the
\* threads are polls or blocking calls that return when they can be served, and
\* process_fn returns or raises. Nobody need be killed and join() need not be
\* called.
Fairness ==
  /\ \A e \in Engines :
       WF_vars(Receiver(e)) /\ WF_vars(Child(e)) /\ WF_vars(Handler(e))
  /\ \A w \in Workers : WF_vars(Worker(w))
  /\ WF_vars(Reconstructor) /\ WF_vars(PassThruSource)

StageSpec == Init /\ [][Next]_vars
Spec == StageSpec /\ Fairness

-----------------------------------------------------------------------------
(* Properties.                                                             *)

\* Messages that wait for room in the pass-through queue.
Forwarded == UNION {forwarding[e] : e \in Engines}

Abstract == INSTANCE StageContract WITH
  outside <- upstream,
  inside <- ledger \cup Forwarded \cup pass_thru,
  exits <- emitted,
  marked <- {m \in Messages : cm_failed[m]}

Types ==
  /\ upstream \subseteq Messages
  /\ tasks \in [Messages -> BOOLEAN] /\ cm_failed \in [Messages -> BOOLEAN]
  /\ came \in [task : [Messages -> BOOLEAN], failed : [Messages -> BOOLEAN]]
  /\ receiver \in [Engines -> {"listening", "sending", "forwarding", "joining", "returned"}]
  /\ sending \in [Engines -> SUBSET Events]
  /\ forwarding \in [Engines -> SUBSET Messages]
  /\ input \in [Engines -> SUBSET Events]
  /\ child \in [Engines -> {"get", "submit", "wait", "respond", "closing", "ended"}]
  /\ holding \in [Engines -> SUBSET Events]
  /\ response \in [Engines -> SUBSET Events]
  /\ handler \in [Engines -> {"get", "ended"}]
  /\ passed_on \subseteq Events
  /\ ledger \subseteq Messages /\ pass_thru \subseteq Messages
  /\ emitted \in [Messages -> Nat] /\ node \in {"runs", "raised"}
  /\ task_queue \subseteq Messages
  /\ running \in [Workers -> SUBSET Messages] /\ alive \subseteq Workers
  /\ pipe \in [Messages -> {"empty", "value", "error"}]
  /\ cancelled \in BOOLEAN

AtMostOne(S) == \A x, y \in S : x = y
QueueBounds ==
  \A e \in Engines :
    /\ AtMostOne(sending[e]) /\ AtMostOne(forwarding[e])
    /\ AtMostOne(input[e]) /\ AtMostOne(holding[e]) /\ AtMostOne(response[e])

\* The queues all engines share.
SharedBounds ==
  /\ IsFiniteSet(pass_thru) /\ Cardinality(pass_thru) <= BufferSize
  /\ IsFiniteSet(task_queue) /\ Cardinality(task_queue) <= 2 * Cardinality(Workers)

\* The type of every variable, and the capacity of every queue: each engine's
\* own, the pass-through queue and the task queue of the pool.
TypeOK == Types /\ QueueBounds /\ SharedBounds

\* The stage with its threads, queues and shared pool implements the contract:
\* whatever it takes in it lets out once, and it clears no mark of failure.
AbstractSpec == Abstract!Spec

In(q, m) == {e \in Engines : q[e] \cap PackagesOf(m) # {}}
Places(m) ==
  ({"sending"} \X In(sending, m)) \cup ({"input"} \X In(input, m))
  \cup ({"holding"} \X In(holding, m)) \cup ({"response"} \X In(response, m))
  \cup ({"passed_on"} \X (passed_on \cap PackagesOf(m)))

\* The ledger names just the messages whose package is under way, in one place
\* of one engine: reconstruct_fn will find each of them, once.
LedgerIsUnderWay ==
  \A m \in Messages :
    LET places == Places(m) IN
      /\ m \in ledger <=> places # {}
      /\ \A p, q \in places : p = q

\* The stage has to process the message, going by what it brought along.
Due(m) == came.task[m] /\ ~came.failed[m]
\* The message is as it arrived.
AsCame(m) == tasks[m] = came.task[m] /\ cm_failed[m] = came.failed[m]

\* A message that came with the stage's task and had not failed leaves only
\* after its own task was in the pool, and marked as failed exactly if that task
\* failed, whatever the tasks of other engines do meanwhile. Any other message
\* leaves just as it came, and had no task in the pool.
OwnVerdict ==
  \A m \in Messages : emitted[m] > 0 =>
    \/ Due(m) /\ ~tasks[m] /\ pipe[m] = "value" /\ ~cm_failed[m]
    \/ Due(m) /\ ~tasks[m] /\ pipe[m] = "error" /\ cm_failed[m]
    \/ ~Due(m) /\ pipe[m] = "empty" /\ AsCame(m)

\* As long as one worker lives, every message the stage has taken in leaves it,
\* although another worker may be killed in its task: unless the upstream ended
\* in an error, whose event has no cm_id and makes reconstruct_fn raise.
MessagesLeave ==
  \A m \in Messages :
    m \notin upstream ~> (emitted[m] > 0 \/ (node = "raised" /\ UpstreamFailed \in passed_on))

\* Once the upstream has delivered everything, every engine's observable_fn
\* returns: no thread waits for another for ever. An engine whose upstream ended
\* in an error does not return, since on_error is not the end for its threads.
StageFinishes ==
  <>(\A e \in Engines :
       receiver[e] = "returned" \/ (e \in Erring /\ UpstreamFailed \in passed_on))
=============================================================================
