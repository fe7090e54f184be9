--------------------------- MODULE MPStageProofs ---------------------------
(***************************************************************************)
(* Proofs about MPStage for any messages, engines, workers and buffer size *)
(* and any deaths, upstream errors and stops: its type invariant, that it  *)
(* implements StageContract, that the ledger names just the packages under *)
(* way, and that each message leaves with its own verdict.                 *)
(***************************************************************************)
EXTENDS MPStage, FiniteSetTheorems, TLAPS

\* A message in the stage's hands is in one of the ledger, the pass-through
\* queue and the engines' forwarding hands, and no longer upstream.
Apart ==
  /\ upstream \cap (ledger \cup pass_thru) = {} /\ ledger \cap pass_thru = {}
  /\ \A e \in Engines :
       /\ forwarding[e] \cap (upstream \cup ledger \cup pass_thru) = {}
       /\ receiver[e] # "forwarding" => forwarding[e] = {}
       /\ \A f \in Engines : e # f => forwarding[e] \cap forwarding[f] = {}

IInv == TypeOK /\ Apart

-----------------------------------------------------------------------------
LEMMA EventFact ==
  /\ Completed \in Events /\ UpstreamFailed \in Events
  /\ \A m \in Messages : Work(m) \in Events /\ Failed(m) \in Events
  /\ Packages \subseteq Events
  BY DEF Events, Packages, PackagesOf

LEMMA InitType == Init => TypeOK
<1>1. Init => Types
  <2> SUFFICES ASSUME Init PROVE Types
    OBVIOUS
  <2>1. /\ sending \in [Engines -> SUBSET Events] /\ input \in [Engines -> SUBSET Events]
        /\ holding \in [Engines -> SUBSET Events] /\ response \in [Engines -> SUBSET Events]
        /\ forwarding \in [Engines -> SUBSET Messages]
        /\ running \in [Workers -> SUBSET Messages]
    BY DEF Init
  <2> QED
    BY <2>1 DEF Init, Types
<1>2. Init => QueueBounds
  BY DEF Init, QueueBounds, AtMostOne
<1>3. Init => SharedBounds
  BY FS_EmptySet, FS_CardinalityType, StageAssumption DEF Init, SharedBounds
<1> QED
  BY <1>1, <1>2, <1>3 DEF TypeOK

LEMMA ReceiverType ==
  ASSUME TypeOK, NEW e \in Engines, Receiver(e)
  PROVE  Types' /\ QueueBounds'
<1> USE EventFact DEF TypeOK, ReceiverTo, Put, messageVars, receiverVars,
       childVars, outputVars, poolVars
<1>1. CASE \E m \in Messages : Accept(e, m)
  <2>1. Types'
    BY <1>1 DEF Accept, Types
  <2>2. QueueBounds'
    BY <1>1 DEF Accept, Types, QueueBounds, AtMostOne
  <2> QED
    BY <2>1, <2>2
<1>2. CASE \E m \in Messages : Forward(e, m)
  <2>1. Types'
    BY <1>2 DEF Forward, Types
  <2>2. QueueBounds'
    BY <1>2 DEF Forward, Types, QueueBounds, AtMostOne
  <2> QED
    BY <2>1, <2>2
<1>3. CASE End(e)
  <2>1. Types'
    BY <1>3 DEF End, Types
  <2>2. QueueBounds'
    BY <1>3 DEF End, Types, QueueBounds, AtMostOne
  <2> QED
    BY <2>1, <2>2
<1>4. CASE Send(e)
  <2>1. Types'
    BY <1>4 DEF Send, Types
  <2>2. QueueBounds'
    BY <1>4 DEF Send, Types, QueueBounds, AtMostOne
  <2> QED
    BY <2>1, <2>2
<1>5. CASE put_in_queue(e)
  <2>1. Types'
    BY <1>5 DEF put_in_queue, Types
  <2>2. QueueBounds'
    BY <1>5 DEF put_in_queue, Types, QueueBounds, AtMostOne
  <2> QED
    BY <2>1, <2>2
<1>6. CASE Return(e)
  <2>1. Types'
    BY <1>6 DEF Return, Types
  <2>2. QueueBounds'
    BY <1>6 DEF Return, Types, QueueBounds, AtMostOne
  <2> QED
    BY <2>1, <2>2
<1> QED
  BY <1>1, <1>2, <1>3, <1>4, <1>5, <1>6 DEF Receiver

LEMMA ChildType ==
  ASSUME TypeOK, NEW e \in Engines, Child(e)
  PROVE  Types' /\ QueueBounds'
<1> USE EventFact DEF TypeOK, ChildTo, Put, Take, messageVars, receiverVars,
       childVars, outputVars, poolVars
<1>1. CASE ChildGet(e)
  <2>1. Types'
    BY <1>1 DEF ChildGet, Types
  <2>2. QueueBounds'
    BY <1>1 DEF ChildGet, Types, QueueBounds, AtMostOne
  <2> QED
    BY <2>1, <2>2
<1>2. CASE submit_task(e)
  <2>1. Types'
    BY <1>2 DEF submit_task, Types
  <2>2. QueueBounds'
    BY <1>2 DEF submit_task, Types, QueueBounds, AtMostOne
  <2> QED
    BY <2>1, <2>2
<1>3. CASE Result(e)
  <2>1. Types'
    BY <1>3 DEF Result, Types
  <2>2. QueueBounds'
    BY <1>3 DEF Result, Types, QueueBounds, AtMostOne
  <2> QED
    BY <2>1, <2>2
<1>4. CASE Respond(e)
  <2>1. Types'
    BY <1>4 DEF Respond, Types
  <2>2. QueueBounds'
    BY <1>4 DEF Respond, Types, QueueBounds, AtMostOne
  <2> QED
    BY <2>1, <2>2
<1>5. CASE ChildStop(e)
  <2>1. Types'
    BY <1>5 DEF ChildStop, Types
  <2>2. QueueBounds'
    BY <1>5 DEF ChildStop, Types, QueueBounds, AtMostOne
  <2> QED
    BY <2>1, <2>2
<1>6. CASE Close(e)
  <2>1. Types'
    BY <1>6 DEF Close, Types
  <2>2. QueueBounds'
    BY <1>6 DEF Close, Types, QueueBounds, AtMostOne
  <2> QED
    BY <2>1, <2>2
<1> QED
  BY <1>1, <1>2, <1>3, <1>4, <1>5, <1>6 DEF Child

LEMMA HandlerType ==
  ASSUME TypeOK, NEW e \in Engines, Handler(e)
  PROVE  Types' /\ QueueBounds'
<1> USE EventFact DEF TypeOK, HandlerTo, Take, messageVars, receiverVars,
       childVars, outputVars, poolVars
<1>1. CASE HandlerGet(e)
  <2>1. Types'
    BY <1>1 DEF HandlerGet, Types
  <2>2. QueueBounds'
    BY <1>1 DEF HandlerGet, Types, QueueBounds, AtMostOne
  <2> QED
    BY <2>1, <2>2
<1>2. CASE HandlerStop(e)
  <2>1. Types'
    BY <1>2 DEF HandlerStop, Types
  <2>2. QueueBounds'
    BY <1>2 DEF HandlerStop, Types, QueueBounds, AtMostOne
  <2> QED
    BY <2>1, <2>2
<1> QED
  BY <1>1, <1>2 DEF Handler

LEMMA NodesType ==
  ASSUME TypeOK, Reconstructor \/ PassThruSource
  PROVE  Types' /\ QueueBounds'
<1> USE EventFact DEF TypeOK, Emit, messageVars, receiverVars,
       childVars, outputVars, poolVars
<1>1. CASE \E m \in Messages : Reconstruct(m)
  <2>1. Types'
    BY <1>1 DEF Reconstruct, Types
  <2>2. QueueBounds'
    BY <1>1 DEF Reconstruct, Types, QueueBounds, AtMostOne
  <2> QED
    BY <2>1, <2>2
<1>2. CASE ReconstructRaises
  <2>1. Types'
    BY <1>2 DEF ReconstructRaises, Types
  <2>2. QueueBounds'
    BY <1>2 DEF ReconstructRaises, Types, QueueBounds, AtMostOne
  <2> QED
    BY <2>1, <2>2
<1>3. CASE \E m \in Messages : PassThrough(m)
  <2>1. Types'
    BY <1>3 DEF PassThrough, Types
  <2>2. QueueBounds'
    BY <1>3 DEF PassThrough, Types, QueueBounds, AtMostOne
  <2> QED
    BY <2>1, <2>2
<1> QED
  BY <1>1, <1>2, <1>3 DEF Reconstructor, PassThruSource

LEMMA PoolType ==
  ASSUME TypeOK, NEW w \in Workers, Worker(w) \/ Die(w)
  PROVE  Types' /\ QueueBounds'
<1> USE EventFact DEF TypeOK, messageVars, receiverVars,
       childVars, outputVars, poolVars
<1>1. CASE TakeTask(w)
  <2>1. Types'
    BY <1>1 DEF TakeTask, Types
  <2>2. QueueBounds'
    BY <1>1 DEF TakeTask, Types, QueueBounds, AtMostOne
  <2> QED
    BY <2>1, <2>2
<1>2. CASE RunTask(w)
  <2>1. Types'
    BY <1>2 DEF RunTask, Types
  <2>2. QueueBounds'
    BY <1>2 DEF RunTask, Types, QueueBounds, AtMostOne
  <2> QED
    BY <2>1, <2>2
<1>3. CASE Die(w)
  <2>1. Types'
    BY <1>3 DEF Die, Types
  <2>2. QueueBounds'
    BY <1>3 DEF Die, Types, QueueBounds, AtMostOne
  <2> QED
    BY <2>1, <2>2
<1> QED
  BY <1>1, <1>2, <1>3 DEF Worker

\* One more element in a set that has room for it, and one less.
LEMMA OneMore ==
  ASSUME NEW S, IsFiniteSet(S), NEW x, NEW n \in Nat, Cardinality(S) < n
  PROVE  IsFiniteSet(S \cup {x}) /\ Cardinality(S \cup {x}) <= n
<1>1. /\ IsFiniteSet(S \cup {x})
      /\ Cardinality(S \cup {x}) = IF x \in S THEN Cardinality(S) ELSE Cardinality(S) + 1
  BY FS_AddElement
<1>2. Cardinality(S) \in Nat
  BY FS_CardinalityType
<1> QED
  BY <1>1, <1>2

LEMMA OneLess ==
  ASSUME NEW S, IsFiniteSet(S), NEW x, NEW n \in Nat, Cardinality(S) <= n
  PROVE  IsFiniteSet(S \ {x}) /\ Cardinality(S \ {x}) <= n
<1>1. /\ IsFiniteSet(S \ {x})
      /\ Cardinality(S \ {x}) = IF x \in S THEN Cardinality(S) - 1 ELSE Cardinality(S)
  BY FS_RemoveElement
<1>2. Cardinality(S) \in Nat
  BY FS_CardinalityType
<1> QED
  BY <1>1, <1>2

Bounded(S, n) == IsFiniteSet(S) /\ Cardinality(S) <= n

\* The shared queues get an element only where they have room for it.
LEMMA SharedType ==
  ASSUME TypeOK, [Next]_vars
  PROVE  SharedBounds'
<1> DEFINE limit == 2 * Cardinality(Workers)
<1>1. BufferSize \in Nat /\ limit \in Nat
  BY StageAssumption, FS_CardinalityType
<1>2. Bounded(pass_thru, BufferSize) /\ Bounded(task_queue, limit)
  BY DEF TypeOK, SharedBounds, Bounded
<1>a. SUFFICES Bounded(pass_thru', BufferSize) /\ Bounded(task_queue', limit)
  BY DEF SharedBounds, Bounded
<1> HIDE DEF limit
<1>3. CASE \E e \in Engines : put_in_queue(e)
  <2> PICK e \in Engines : put_in_queue(e)
    BY <1>3
  <2>1. /\ pass_thru' = pass_thru \cup forwarding[e] /\ task_queue' = task_queue
        /\ Cardinality(pass_thru) < BufferSize
    BY DEF put_in_queue, poolVars
  <2>2. CASE forwarding[e] = {}
    <3>1. pass_thru' = pass_thru
      BY <2>1, <2>2
    <3> QED
      BY <1>2, <2>1, <3>1
  <2>3. CASE forwarding[e] # {}
    <3> PICK x : x \in forwarding[e]
      BY <2>3
    <3>1. forwarding[e] = {x}
      BY DEF TypeOK, QueueBounds, AtMostOne
    <3>2. pass_thru' = pass_thru \cup {x}
      BY <2>1, <3>1
    <3>3. Bounded(pass_thru \cup {x}, BufferSize)
      BY <1>1, <1>2, <2>1, OneMore DEF Bounded
    <3> QED
      BY <1>2, <2>1, <3>2, <3>3
  <2> QED
    BY <2>2, <2>3
<1>4. CASE \E e \in Engines : submit_task(e)
  <2> PICK e \in Engines : submit_task(e)
    BY <1>4
  <2> PICK m \in Messages : task_queue' = task_queue \cup {m}
    BY DEF submit_task
  <2>1. Cardinality(task_queue) < limit /\ pass_thru' = pass_thru
    BY DEF submit_task, limit
  <2>2. Bounded(task_queue \cup {m}, limit)
    BY <1>1, <1>2, <2>1, OneMore DEF Bounded
  <2> QED
    BY <1>2, <2>1, <2>2
<1>5. CASE \E m \in Messages : PassThrough(m)
  <2> PICK m \in Messages : PassThrough(m)
    BY <1>5
  <2>1. pass_thru' = pass_thru \ {m} /\ task_queue' = task_queue
    BY DEF PassThrough, poolVars
  <2>2. Bounded(pass_thru \ {m}, BufferSize)
    BY <1>1, <1>2, OneLess DEF Bounded
  <2> QED
    BY <1>2, <2>1, <2>2
<1>6. CASE \E w \in Workers : TakeTask(w)
  <2> PICK w \in Workers : TakeTask(w)
    BY <1>6
  <2> PICK m \in task_queue : task_queue' = task_queue \ {m}
    BY DEF TakeTask
  <2>1. pass_thru' = pass_thru
    BY DEF TakeTask
  <2>2. Bounded(task_queue \ {m}, limit)
    BY <1>1, <1>2, OneLess DEF Bounded
  <2> QED
    BY <1>2, <2>1, <2>2
<1>7. CASE UNCHANGED <<pass_thru, task_queue>>
  BY <1>2, <1>7
<1>8. CASE \E e \in Engines : \/ Receiver(e) /\ ~put_in_queue(e)
                              \/ Child(e) /\ ~submit_task(e)
                              \/ Handler(e)
  <2>1. UNCHANGED <<pass_thru, task_queue>>
    BY <1>8 DEF Receiver, Accept, Forward, End, Send, Return, Child, ChildGet, Result, Respond,
                ChildStop, Close, Handler, HandlerGet, HandlerStop, poolVars
  <2> QED
    BY <1>7, <2>1
<1>9. CASE \/ \E w \in Workers : RunTask(w) \/ Die(w)
           \/ Reconstructor \/ join \/ UNCHANGED vars
  <2>1. UNCHANGED <<pass_thru, task_queue>>
    BY <1>9 DEF RunTask, Die, Reconstructor, ReconstructRaises, Reconstruct, join, vars, poolVars
  <2> QED
    BY <1>7, <2>1
<1> QED
  BY <1>3, <1>4, <1>5, <1>6, <1>8, <1>9 DEF Next, PassThruSource, Worker

LEMMA NextType == TypeOK /\ [Next]_vars => TypeOK'
<1> SUFFICES ASSUME TypeOK, [Next]_vars PROVE TypeOK'
  OBVIOUS
<1>1. SharedBounds'
  BY SharedType
<1>2. CASE join \/ UNCHANGED vars
  <2>1. Types' /\ QueueBounds'
    BY <1>2 DEF join, vars, TypeOK, Types, QueueBounds, messageVars, receiverVars,
                childVars, outputVars, poolVars
  <2> QED
    BY <1>1, <2>1 DEF TypeOK
<1>3. CASE ~(join \/ UNCHANGED vars)
  <2>1. Types' /\ QueueBounds'
    BY <1>3, ReceiverType, ChildType, HandlerType, NodesType, PoolType DEF Next
  <2> QED
    BY <1>1, <2>1 DEF TypeOK
<1> QED
  BY <1>2, <1>3

\* Every variable keeps its type, and no queue ever holds more than it may: not
\* those of an engine, not the pass-through queue, not the task queue.
THEOREM TypeCorrect == StageSpec => []TypeOK
  BY InitType, NextType, PTL DEF StageSpec
-----------------------------------------------------------------------------
(* The stage implements its contract.                                      *)

Marked == {m \in Messages : cm_failed[m]}
Inside == ledger \cup Forwarded \cup pass_thru

LEMMA InitApart == Init => Apart /\ Abstract!Init
<1> SUFFICES ASSUME Init PROVE Apart /\ Abstract!Init
  OBVIOUS
<1>1. Apart
  BY DEF Init, Apart
<1>2. Inside = {}
  BY DEF Init, Inside, Forwarded
<1> QED
  BY <1>1, <1>2 DEF Init, Abstract!Init, Inside

\* A step that moves no message between the places of the contract.
LEMMA QuietStep ==
  ASSUME IInv,
         UNCHANGED <<upstream, ledger, forwarding, pass_thru, emitted, cm_failed>>,
         \A e \in Engines : receiver'[e] # "forwarding" => receiver[e] # "forwarding"
  PROVE  Apart' /\ UNCHANGED Abstract!vars
  BY DEF IInv, Apart, Abstract!vars, Forwarded

LEMMA AcceptStep ==
  ASSUME IInv, NEW e \in Engines, NEW m \in Messages, Accept(e, m)
  PROVE  Apart' /\ Abstract!Next
<1> USE DEF IInv, TypeOK, Types
<1>1. Apart'
  BY DEF Accept, Apart, ReceiverTo
<1>2. Inside' = Inside \cup {m}
  BY DEF Accept, Inside, Forwarded
<1>3. Abstract!Enter(m)
  BY <1>2 DEF Accept, Abstract!Enter, Inside, outputVars
<1> QED
  BY <1>1, <1>3 DEF Abstract!Next

LEMMA ForwardStep ==
  ASSUME IInv, NEW e \in Engines, NEW m \in Messages, Forward(e, m)
  PROVE  Apart' /\ Abstract!Next
<1> USE DEF IInv, TypeOK, Types
<1>1. /\ forwarding[e] = {} /\ forwarding'[e] = {m}
      /\ \A f \in Engines \ {e} : forwarding'[f] = forwarding[f]
      /\ receiver'[e] = "forwarding"
      /\ \A f \in Engines \ {e} : receiver'[f] = receiver[f]
  BY DEF Forward, Apart, ReceiverTo
<1>2. m \in upstream /\ upstream' = upstream \ {m} /\ UNCHANGED <<ledger, pass_thru>>
  BY DEF Forward
<1>3. Apart'
  <2>1. Apart /\ e \in Engines
    OBVIOUS
  <2> QED
    BY ONLY <1>1, <1>2, <2>1 DEF Apart
<1>4. Forwarded' = Forwarded \cup {m}
  BY <1>1 DEF Forwarded
<1>5. Abstract!Enter(m)
  BY <1>2, <1>4 DEF Forward, Abstract!Enter, Inside, outputVars
<1> QED
  BY <1>3, <1>5 DEF Abstract!Next

LEMMA PutStep ==
  ASSUME IInv, NEW e \in Engines, put_in_queue(e)
  PROVE  Apart' /\ UNCHANGED Abstract!vars
<1> USE DEF IInv, TypeOK, Types
<1>1. /\ forwarding'[e] = {} /\ pass_thru' = pass_thru \cup forwarding[e]
      /\ \A f \in Engines \ {e} : forwarding'[f] = forwarding[f]
      /\ receiver'[e] # "forwarding"
      /\ \A f \in Engines \ {e} : receiver'[f] = receiver[f]
      /\ UNCHANGED <<upstream, ledger>>
  BY DEF put_in_queue, ReceiverTo, messageVars
<1>2. Apart'
  BY <1>1 DEF Apart
<1>3. Inside' = Inside
  BY <1>1 DEF Inside, Forwarded
<1> QED
  BY <1>2, <1>3 DEF put_in_queue, Abstract!vars, Inside, messageVars, outputVars

LEMMA ReconstructStep ==
  ASSUME IInv, NEW m \in Messages, Reconstruct(m)
  PROVE  Apart' /\ Abstract!Next
<1> USE DEF IInv, TypeOK, Types
<1>1. /\ m \in ledger /\ ledger' = ledger \ {m}
      /\ UNCHANGED <<upstream, receiver, forwarding, pass_thru>>
  BY DEF Reconstruct
<1>2. Apart'
  BY <1>1 DEF Apart
<1>3. m \in Inside /\ Inside' = Inside \ {m}
  BY <1>1 DEF Inside, Forwarded, Apart
<1>4. Marked' \in {Marked, Marked \cup {m}}
  <2>1. cm_failed' \in [Messages -> BOOLEAN] /\ \A n \in Messages \ {m} : cm_failed'[n] = cm_failed[n]
    BY DEF Reconstruct
  <2>2. cm_failed[m] => cm_failed'[m]
    BY DEF Reconstruct
  <2>3. CASE cm_failed'[m] = cm_failed[m]
    BY <2>1, <2>3 DEF Marked
  <2>4. CASE cm_failed'[m] # cm_failed[m]
    BY <2>1, <2>2, <2>4 DEF Marked
  <2> QED
    BY <2>3, <2>4
<1>5. Abstract!Leave(m)
  BY <1>1, <1>3, <1>4 DEF Reconstruct, Emit, Abstract!Leave, Inside, Marked
<1> QED
  BY <1>2, <1>5 DEF Abstract!Next

LEMMA PassThroughStep ==
  ASSUME IInv, NEW m \in Messages, PassThrough(m)
  PROVE  Apart' /\ Abstract!Next
<1> USE DEF IInv, TypeOK, Types
<1>1. /\ m \in pass_thru /\ pass_thru' = pass_thru \ {m}
      /\ UNCHANGED <<upstream, receiver, forwarding, ledger, cm_failed>>
  BY DEF PassThrough, messageVars, receiverVars
<1>2. Apart'
  BY <1>1 DEF Apart
<1>3. m \in Inside /\ Inside' = Inside \ {m}
  BY <1>1 DEF Inside, Forwarded, Apart
<1>4. Abstract!Leave(m)
  BY <1>1, <1>3 DEF PassThrough, Emit, Abstract!Leave, Inside
<1> QED
  BY <1>2, <1>4 DEF Abstract!Next

LEMMA NextStep == IInv /\ [Next]_vars => IInv' /\ [Abstract!Next]_(Abstract!vars)
<1> SUFFICES ASSUME IInv, [Next]_vars PROVE Apart' /\ [Abstract!Next]_(Abstract!vars)
  BY NextType DEF IInv
<1> USE DEF messageVars, receiverVars, outputVars
<1>1. CASE \E e \in Engines : End(e) \/ Send(e) \/ Return(e)
  <2>1. /\ UNCHANGED <<upstream, ledger, forwarding, pass_thru, emitted, cm_failed>>
        /\ \A e \in Engines : receiver'[e] = "forwarding" <=> receiver[e] = "forwarding"
    BY <1>1 DEF End, Send, Return, ReceiverTo, IInv, TypeOK, Types
  <2> QED
    BY <2>1, QuietStep
<1>2. CASE \/ \E e \in Engines : Child(e) \/ Handler(e)
           \/ \E w \in Workers : Worker(w) \/ Die(w)
           \/ ReconstructRaises \/ join \/ UNCHANGED vars
  <2>1. UNCHANGED <<upstream, ledger, forwarding, pass_thru, emitted, cm_failed, receiver>>
    BY <1>2 DEF Child, ChildGet, submit_task, Result, Respond, ChildStop, Close,
                Handler, HandlerGet, HandlerStop, Worker, TakeTask, RunTask, Die,
                ReconstructRaises, join, vars
  <2> QED
    BY <2>1, QuietStep
<1> QED
  BY <1>1, <1>2, AcceptStep, ForwardStep, PutStep, ReconstructStep, PassThroughStep
     DEF Next, Receiver, Reconstructor, PassThruSource

\* A stage with any number of engines and workers, whatever dies or stops,
\* takes each message in once, lets it out once, and clears no failure.
THEOREM ImplementsContract == StageSpec => AbstractSpec
<1>1. Init => IInv /\ Abstract!Init
  BY InitType, InitApart DEF IInv
<1> QED
  BY <1>1, NextStep, PTL DEF StageSpec, AbstractSpec, Abstract!Spec

-----------------------------------------------------------------------------
(* The work: ledger and verdicts.                                          *)

Has(S, m) == Work(m) \in S \/ Failed(m) \in S

\* What the threads hold goes with where they are, and the outcome of a task
\* is known to nobody before the child thread has it.
Hands ==
  \A e \in Engines :
    /\ receiver[e] # "sending" => sending[e] = {}
    /\ child[e] \in {"get", "closing", "ended"} => holding[e] = {}
    /\ \A m \in Messages :
         /\ Failed(m) \notin sending[e] /\ Failed(m) \notin input[e]
         /\ Failed(m) \in holding[e] => child[e] = "respond"

\* A package is in one place of one engine.
Alone(m) ==
  /\ ~(Work(m) \in passed_on /\ Failed(m) \in passed_on)
  /\ \A e, f \in Engines :
       /\ Has(sending[e], m) =>
            /\ ~Has(input[f], m) /\ ~Has(holding[f], m) /\ ~Has(response[f], m)
            /\ ~Has(passed_on, m) /\ (Has(sending[f], m) => e = f)
       /\ Has(input[e], m) =>
            /\ ~Has(holding[f], m) /\ ~Has(response[f], m)
            /\ ~Has(passed_on, m) /\ (Has(input[f], m) => e = f)
       /\ Has(holding[e], m) =>
            /\ ~Has(response[f], m)
            /\ ~Has(passed_on, m) /\ (Has(holding[f], m) => e = f)
       /\ Has(response[e], m) =>
            ~Has(passed_on, m) /\ (Has(response[f], m) => e = f)

UnderWay(m) ==
  \/ Has(passed_on, m)
  \/ \E e \in Engines : \/ Has(sending[e], m) \/ Has(input[e], m)
                        \/ Has(holding[e], m) \/ Has(response[e], m)

\* The ledger and the places of the packages agree.
Ledger == \A m \in Messages : Alone(m) /\ (m \in ledger <=> UnderWay(m))

Waiting(m) == \E e \in Engines : child[e] = "wait" /\ Work(m) \in holding[e]

\* A task in the pool has a child thread waiting for it and no outcome yet.
Tasks ==
  \A m \in Messages :
    /\ m \in task_queue =>
         Waiting(m) /\ pipe[m] = "empty" /\ \A w \in Workers : m \notin running[w]
    /\ \A w \in Workers : m \in running[w] =>
         Waiting(m) /\ pipe[m] = "empty" /\ \A v \in Workers : m \in running[v] => v = w

\* A package is what the pipe says from the time its outcome is known.
Outcomes ==
  \A m \in Messages :
    /\ \A e \in Engines :
         /\ Work(m) \in sending[e] \cup input[e] => pipe[m] = "empty"
         /\ Work(m) \in holding[e] /\ child[e] = "submit" => pipe[m] = "empty"
         /\ Work(m) \in holding[e] /\ child[e] = "respond" => pipe[m] = "value"
         /\ Work(m) \in response[e] => pipe[m] = "value"
         /\ Failed(m) \in holding[e] \cup response[e] => pipe[m] = "error"
    /\ Work(m) \in passed_on => pipe[m] = "value"
    /\ Failed(m) \in passed_on => pipe[m] = "error"

\* What a message is before it is given to the pool, or goes by it.
Before ==
  \A m \in Messages :
    /\ m \in upstream => pipe[m] = "empty" /\ AsCame(m) /\ emitted[m] = 0
    /\ m \in ledger => Due(m) /\ ~tasks[m] /\ ~cm_failed[m] /\ emitted[m] = 0
    /\ m \in pass_thru => pipe[m] = "empty" /\ ~Due(m) /\ AsCame(m) /\ emitted[m] = 0
    /\ \A e \in Engines : m \in forwarding[e] =>
         pipe[m] = "empty" /\ ~Due(m) /\ AsCame(m) /\ emitted[m] = 0

Inv == IInv /\ Hands /\ Ledger /\ Tasks /\ Outcomes /\ Before /\ OwnVerdict

-----------------------------------------------------------------------------
LEMMA EventsApart ==
  /\ \A m, n \in Messages : /\ Work(m) = Work(n) => m = n
                            /\ Failed(m) = Failed(n) => m = n
                            /\ Work(m) # Failed(n)
  /\ \A m \in Messages : /\ Work(m) \in Packages /\ Failed(m) \in Packages
                         /\ PackagesOf(m) = {Work(m), Failed(m)}
  /\ \A ev \in Packages : \E m \in Messages : ev = Work(m) \/ ev = Failed(m)
  /\ Completed \notin Packages /\ UpstreamFailed \notin Packages
<1>1. \A m, n \in Messages : /\ Work(m) = Work(n) => m = n
                             /\ Failed(m) = Failed(n) => m = n
                             /\ Work(m) # Failed(n)
  BY DEF Work, Failed
<1>2. \A m \in Messages : /\ Work(m) \in Packages /\ Failed(m) \in Packages
                          /\ PackagesOf(m) = {Work(m), Failed(m)}
  BY DEF Packages, PackagesOf
<1>3. \A ev \in Packages : \E m \in Messages : ev = Work(m) \/ ev = Failed(m)
  BY DEF Packages, PackagesOf
<1>4. \A m \in Messages : /\ Work(m) # Completed /\ Failed(m) # Completed
                          /\ Work(m) # UpstreamFailed
  BY DEF Work, Failed, Completed, UpstreamFailed
<1>5. \A m \in Messages : Failed(m) # UpstreamFailed
  <2> SUFFICES ASSUME NEW m \in Messages PROVE DOMAIN Failed(m) # DOMAIN UpstreamFailed
    OBVIOUS
  <2>1. "cm" \in DOMAIN Failed(m)
    BY DEF Failed
  <2>2. "cm" \notin DOMAIN UpstreamFailed
    BY DEF UpstreamFailed
  <2> QED
    BY <2>1, <2>2
<1> QED
  BY <1>1, <1>2, <1>3, <1>4, <1>5

\* A step after which every package is where it was.
LEMMA LedgerStays ==
  ASSUME Ledger, ledger' = ledger,
         \A e \in Engines, m \in Messages :
           /\ Has(sending'[e], m) <=> Has(sending[e], m)
           /\ Has(input'[e], m) <=> Has(input[e], m)
           /\ Has(holding'[e], m) <=> Has(holding[e], m)
           /\ Has(response'[e], m) <=> Has(response[e], m),
         passed_on' = passed_on
  PROVE  Ledger'
<1> SUFFICES ASSUME NEW m \in Messages PROVE Alone(m)' /\ (m \in ledger <=> UnderWay(m))'
  BY DEF Ledger
<1>1. Has(passed_on', m) <=> Has(passed_on, m)
  OBVIOUS
<1>2. Alone(m)'
  BY <1>1 DEF Ledger, Alone
<1>3. UnderWay(m)' <=> UnderWay(m)
  BY <1>1 DEF UnderWay
<1> QED
  BY <1>2, <1>3 DEF Ledger

LEMMA InitInv == Init => Inv
<1> SUFFICES ASSUME Init PROVE Inv
  OBVIOUS
<1>1. IInv
  BY InitType, InitApart DEF IInv
<1>2. Hands /\ Tasks /\ Outcomes /\ Before /\ OwnVerdict
  BY DEF Init, Hands, Tasks, Outcomes, Before, OwnVerdict, Skipped, Due, AsCame
<1>3. Ledger
  BY DEF Init, Ledger, Alone, UnderWay, Has
<1> QED
  BY <1>1, <1>2, <1>3 DEF Inv

-----------------------------------------------------------------------------
(* The receiver's steps.                                                   *)

LEMMA AcceptKeeps ==
  ASSUME Inv, NEW e \in Engines, NEW m \in Messages, Accept(e, m)
  PROVE  Hands' /\ Ledger' /\ Tasks' /\ Outcomes' /\ Before' /\ OwnVerdict'
<1> USE DEF Inv, IInv, TypeOK, Types
<1>1. /\ sending' = [sending EXCEPT ![e] = {Work(m)}] /\ sending[e] = {}
      /\ receiver' = [receiver EXCEPT ![e] = "sending"]
      /\ m \in upstream /\ m \notin ledger /\ ledger' = ledger \cup {m}
      /\ upstream' = upstream \ {m} /\ ~Skipped(m)
      /\ tasks' = [tasks EXCEPT ![m] = FALSE]
      /\ UNCHANGED <<cm_failed, came, forwarding, input, child, holding, response,
                     pass_thru, passed_on, emitted, task_queue, running, pipe>>
  BY DEF Accept, ReceiverTo, Hands, Apart, childVars, outputVars, poolVars
<1>2. \A f \in Engines \ {e} : sending'[f] = sending[f] /\ receiver'[f] = receiver[f]
  BY <1>1
<1>3. sending'[e] = {Work(m)} /\ receiver'[e] = "sending"
  BY <1>1
<1>4. Hands'
  BY <1>1, <1>2, <1>3, EventsApart DEF Hands
<1>5. Ledger'
  <2>1. \A n \in Messages : Has(sending'[e], n) <=> n = m
    BY <1>3, EventsApart DEF Has
  <2>2. ~Has(sending[e], m) /\ \A n \in Messages : ~Has(sending[e], n)
    BY <1>1 DEF Has
  <2>3. ~UnderWay(m)
    BY <1>1 DEF Ledger
  <2> SUFFICES ASSUME NEW n \in Messages PROVE Alone(n)' /\ (n \in ledger <=> UnderWay(n))'
    BY DEF Ledger
  <2>4. CASE n = m
    <3>1. ~Has(passed_on, n) /\ \A f \in Engines :
            ~Has(input[f], n) /\ ~Has(holding[f], n) /\ ~Has(response[f], n)
            /\ ~Has(sending[f], n)
      BY <2>3, <2>4 DEF UnderWay
    <3>2. ~Has(passed_on', n) /\ \A f \in Engines :
            ~Has(input'[f], n) /\ ~Has(holding'[f], n) /\ ~Has(response'[f], n)
      BY <3>1, <1>1
    <3>3. \A f \in Engines : Has(sending'[f], n) <=> f = e
      BY <3>1, <2>1, <2>4, <1>2
    <3>4. Alone(n)'
      BY <3>2, <3>3 DEF Alone, Has
    <3>5. UnderWay(n)'
      BY <3>3 DEF UnderWay
    <3> QED
      BY <3>4, <3>5, <2>4, <1>1
  <2>5. CASE n # m
    <3>1. \A f \in Engines : Has(sending'[f], n) <=> Has(sending[f], n)
      BY <2>1, <2>2, <2>5, <1>2
    <3>2. Alone(n) /\ (n \in ledger <=> UnderWay(n)) /\ (n \in ledger' <=> n \in ledger)
      BY <2>5, <1>1 DEF Ledger
    <3>3. Alone(n)'
      BY <3>1, <3>2, <1>1 DEF Alone
    <3>4. UnderWay(n)' <=> UnderWay(n)
      BY <3>1, <1>1 DEF UnderWay
    <3> QED
      BY <3>2, <3>3, <3>4
  <2> QED
    BY <2>4, <2>5
<1>6. Tasks'
  BY <1>1 DEF Tasks, Waiting
<1>7. Outcomes'
  BY <1>1, <1>2, <1>3, EventsApart DEF Outcomes, Before
<1>8. Due(m) /\ ~tasks'[m] /\ ~cm_failed[m] /\ emitted[m] = 0
  BY <1>1 DEF Before, Skipped, Due, AsCame
<1>a. /\ Before /\ Apart /\ OwnVerdict
      /\ \A n \in Messages : n # m => tasks'[n] = tasks[n]
  BY <1>1
<1>b. Before'
  <2>1. /\ m \in upstream /\ upstream' = upstream \ {m} /\ ledger' = ledger \cup {m}
        /\ Due(m)' /\ \A n \in Messages : (Due(n)' <=> Due(n)) /\ (n # m => AsCame(n)' <=> AsCame(n))
        /\ UNCHANGED <<pipe, emitted, pass_thru, forwarding, cm_failed>>
    BY <1>1, <1>8, <1>a DEF Due, AsCame
  <2>2. m \notin pass_thru /\ \A f \in Engines : m \notin forwarding[f]
    BY <1>1, <1>a DEF Apart
  <2> QED
    BY ONLY <2>1, <2>2, <1>8, <1>a DEF Before
<1>9. OwnVerdict'
  BY ONLY <1>1, <1>8, <1>a DEF OwnVerdict, Due, AsCame
<1> QED
  BY <1>4, <1>5, <1>6, <1>7, <1>b, <1>9

LEMMA ForwardKeeps ==
  ASSUME Inv, NEW e \in Engines, NEW m \in Messages, Forward(e, m)
  PROVE  Hands' /\ Ledger' /\ Tasks' /\ Outcomes' /\ Before' /\ OwnVerdict'
<1> USE DEF Inv, IInv, TypeOK, Types
<1>1. /\ forwarding' = [forwarding EXCEPT ![e] = {m}]
      /\ receiver' = [receiver EXCEPT ![e] = "forwarding"] /\ sending[e] = {}
      /\ m \in upstream /\ upstream' = upstream \ {m} /\ Skipped(m)
      /\ UNCHANGED <<tasks, cm_failed, came, sending, ledger, input, child, holding, response,
                     pass_thru, passed_on, emitted, task_queue, running, pipe>>
  BY DEF Forward, ReceiverTo, Hands, childVars, outputVars, poolVars
<1>2. Hands'
  BY <1>1 DEF Hands
<1>3. Ledger'
  BY <1>1, LedgerStays
<1>4. Tasks' /\ Outcomes'
  BY <1>1 DEF Tasks, Waiting, Outcomes
<1>5. Before'
  BY <1>1 DEF Before, Skipped, Due, AsCame
<1>6. OwnVerdict'
  BY <1>1 DEF OwnVerdict, Skipped, Due, AsCame
<1> QED
  BY <1>2, <1>3, <1>4, <1>5, <1>6

LEMMA EndKeeps ==
  ASSUME Inv, NEW e \in Engines, End(e)
  PROVE  Hands' /\ Ledger' /\ Tasks' /\ Outcomes' /\ Before' /\ OwnVerdict'
<1> USE DEF Inv, IInv, TypeOK, Types
<1>1. PICK ev \in {Completed, UpstreamFailed} : sending' = [sending EXCEPT ![e] = {ev}]
  BY DEF End
<1>2. /\ sending[e] = {} /\ receiver' = [receiver EXCEPT ![e] = "sending"]
      /\ UNCHANGED <<upstream, tasks, cm_failed, came, forwarding, ledger, input, child,
                     holding, response, pass_thru, passed_on, emitted, task_queue,
                     running, pipe>>
  BY DEF End, ReceiverTo, Hands, messageVars, childVars, outputVars, poolVars
<1>3. \A n \in Messages : Work(n) \notin sending'[e] /\ Failed(n) \notin sending'[e]
  BY <1>1, EventsApart
<1>4. \A f \in Engines \ {e} : sending'[f] = sending[f] /\ receiver'[f] = receiver[f]
  BY <1>1, <1>2
<1>5. Hands'
  BY <1>2, <1>3, <1>4 DEF Hands
<1>6. Ledger'
  <2>1. \A f \in Engines, n \in Messages : Has(sending'[f], n) <=> Has(sending[f], n)
    BY <1>2, <1>3, <1>4 DEF Has
  <2> QED
    BY <2>1, <1>2, LedgerStays
<1>7. Tasks' /\ Before' /\ OwnVerdict'
  BY <1>2 DEF Tasks, Waiting, Before, OwnVerdict, Skipped, Due, AsCame
<1>8. Outcomes'
  BY <1>2, <1>3, <1>4 DEF Outcomes
<1> QED
  BY <1>5, <1>6, <1>7, <1>8

LEMMA SendKeeps ==
  ASSUME Inv, NEW e \in Engines, Send(e)
  PROVE  Hands' /\ Ledger' /\ Tasks' /\ Outcomes' /\ Before' /\ OwnVerdict'
<1> USE DEF Inv, IInv, TypeOK, Types
<1>1. PICK ev \in sending[e] : input' = [input EXCEPT ![e] = {ev}]
  BY DEF Send, Put
<1>2. sending[e] = {ev}
  BY <1>1 DEF QueueBounds, AtMostOne
<1>3. /\ input[e] = {} /\ sending' = [sending EXCEPT ![e] = {}]
      /\ receiver' \in [Engines -> {"listening", "sending", "forwarding", "joining", "returned"}]
      /\ \A f \in Engines \ {e} : receiver'[f] = receiver[f]
      /\ UNCHANGED <<upstream, tasks, cm_failed, came, forwarding, ledger, child,
                     holding, response, pass_thru, passed_on, emitted, task_queue,
                     running, pipe>>
  BY DEF Send, Put, ReceiverTo, messageVars, childVars, outputVars, poolVars
<1>4. /\ \A f \in Engines \ {e} : sending'[f] = sending[f] /\ input'[f] = input[f]
      /\ sending'[e] = {} /\ input'[e] = sending[e]
  BY <1>1, <1>2, <1>3
<1>5. Hands'
  BY <1>3, <1>4 DEF Hands
<1>6. Ledger'
  <2> SUFFICES ASSUME NEW n \in Messages PROVE Alone(n)' /\ (n \in ledger <=> UnderWay(n))'
    BY DEF Ledger
  <2>1. /\ ~Has(sending'[e], n) /\ ~Has(input[e], n)
        /\ Has(input'[e], n) <=> Has(sending[e], n)
        /\ \A f \in Engines \ {e} : /\ Has(sending'[f], n) <=> Has(sending[f], n)
                                    /\ Has(input'[f], n) <=> Has(input[f], n)
    BY <1>3, <1>4 DEF Has
  <2>2. Alone(n) /\ (n \in ledger <=> UnderWay(n))
    BY DEF Ledger
  <2>3. Alone(n)'
    BY <2>1, <2>2, <1>3 DEF Alone
  <2>4. UnderWay(n)' <=> UnderWay(n)
    BY <2>1, <1>3 DEF UnderWay
  <2> QED
    BY <2>2, <2>3, <2>4, <1>3
<1>7. Tasks' /\ Before' /\ OwnVerdict'
  BY <1>3 DEF Tasks, Waiting, Before, OwnVerdict, Skipped, Due, AsCame
<1>8. Outcomes'
  BY <1>3, <1>4 DEF Outcomes
<1> QED
  BY <1>5, <1>6, <1>7, <1>8

LEMMA PutKeeps ==
  ASSUME Inv, NEW e \in Engines, put_in_queue(e)
  PROVE  Hands' /\ Ledger' /\ Tasks' /\ Outcomes' /\ Before' /\ OwnVerdict'
<1> USE DEF Inv, IInv, TypeOK, Types
<1>1. /\ pass_thru' = pass_thru \cup forwarding[e]
      /\ forwarding' = [forwarding EXCEPT ![e] = {}] /\ sending[e] = {}
      /\ receiver' = [receiver EXCEPT ![e] = "listening"]
      /\ UNCHANGED <<upstream, tasks, cm_failed, came, sending, ledger, input, child, holding,
                     response, passed_on, emitted, task_queue, running, pipe>>
  BY DEF put_in_queue, ReceiverTo, Hands, messageVars, childVars, outputVars, poolVars
<1>2. Hands'
  BY <1>1 DEF Hands
<1>3. Ledger'
  BY <1>1, LedgerStays
<1>4. Tasks' /\ Outcomes' /\ OwnVerdict'
  BY <1>1 DEF Tasks, Waiting, Outcomes, OwnVerdict, Skipped, Due, AsCame
<1>5. Before'
  BY <1>1 DEF Before, Skipped, Due, AsCame
<1> QED
  BY <1>2, <1>3, <1>4, <1>5

-----------------------------------------------------------------------------
(* The child's steps.                                                      *)

LEMMA ChildGetKeeps ==
  ASSUME Inv, NEW e \in Engines, ChildGet(e)
  PROVE  Hands' /\ Ledger' /\ Tasks' /\ Outcomes' /\ Before' /\ OwnVerdict'
<1> USE DEF Inv, IInv, TypeOK, Types
<1>1. PICK ev \in input[e] :
        /\ holding' = [holding EXCEPT ![e] = {ev}]
        /\ child' = [child EXCEPT ![e] = IF ev \in Packages THEN "submit" ELSE "respond"]
  BY DEF ChildGet, ChildTo
<1>2. input[e] = {ev}
  BY <1>1 DEF QueueBounds, AtMostOne
<1>3. /\ child[e] = "get" /\ holding[e] = {} /\ input' = [input EXCEPT ![e] = {}]
      /\ UNCHANGED <<upstream, tasks, cm_failed, came, receiver, forwarding, ledger, sending,
                     response, pass_thru, passed_on, emitted, task_queue, running, pipe>>
  BY DEF ChildGet, Take, Hands, messageVars, receiverVars, outputVars, poolVars
<1>4. /\ \A f \in Engines \ {e} :
           holding'[f] = holding[f] /\ input'[f] = input[f] /\ child'[f] = child[f]
      /\ input'[e] = {} /\ holding'[e] = input[e]
      /\ child'[e] \in {"submit", "respond"}
      /\ \A n \in Messages : Work(n) \in input[e] => child'[e] = "submit"
  BY <1>1, <1>2, <1>3, EventsApart
<1>5. Hands'
  BY <1>3, <1>4 DEF Hands
<1>6. Ledger'
  <2> SUFFICES ASSUME NEW n \in Messages PROVE Alone(n)' /\ (n \in ledger <=> UnderWay(n))'
    BY DEF Ledger
  <2>1. /\ ~Has(input'[e], n) /\ ~Has(holding[e], n)
        /\ Has(holding'[e], n) <=> Has(input[e], n)
        /\ \A f \in Engines \ {e} : /\ Has(holding'[f], n) <=> Has(holding[f], n)
                                    /\ Has(input'[f], n) <=> Has(input[f], n)
    BY <1>3, <1>4 DEF Has
  <2>2. Alone(n) /\ (n \in ledger <=> UnderWay(n))
    BY DEF Ledger
  <2>3. Alone(n)'
    BY <2>1, <2>2, <1>3 DEF Alone
  <2>4. UnderWay(n)' <=> UnderWay(n)
    BY <2>1, <1>3 DEF UnderWay
  <2> QED
    BY <2>2, <2>3, <2>4, <1>3
<1>7. Tasks'
  <2>1. \A n \in Messages : Waiting(n) => Waiting(n)'
    BY <1>3, <1>4 DEF Waiting
  <2> QED
    BY <2>1, <1>3 DEF Tasks
<1>8. Before' /\ OwnVerdict'
  BY <1>3 DEF Before, OwnVerdict, Skipped, Due, AsCame
<1>9. Outcomes'
  BY <1>3, <1>4 DEF Outcomes, Hands
<1> QED
  BY <1>5, <1>6, <1>7, <1>8, <1>9

LEMMA SubmitKeeps ==
  ASSUME Inv, NEW e \in Engines, submit_task(e)
  PROVE  Hands' /\ Ledger' /\ Tasks' /\ Outcomes' /\ Before' /\ OwnVerdict'
<1> USE DEF Inv, IInv, TypeOK, Types
<1>1. PICK m \in Messages : Work(m) \in holding[e] /\ task_queue' = task_queue \cup {m}
  BY DEF submit_task
<1>2. /\ child[e] = "submit" /\ child' = [child EXCEPT ![e] = "wait"]
      /\ UNCHANGED <<upstream, tasks, cm_failed, came, receiver, forwarding, ledger, sending,
                     input, holding, response, pass_thru, passed_on, emitted, running, pipe>>
  BY DEF submit_task, ChildTo, messageVars, receiverVars, outputVars
<1>3. Hands'
  BY <1>2 DEF Hands
<1>4. Ledger'
  BY <1>2, LedgerStays
<1>5. Tasks'
  <2>1. ~Waiting(m) /\ pipe[m] = "empty"
    <3>1. Alone(m) /\ Has(holding[e], m)
      BY <1>1 DEF Ledger, Has
    <3>2. \A f \in Engines : Work(m) \in holding[f] => f = e
      BY <3>1 DEF Alone, Has
    <3> QED
      BY <3>2, <1>1, <1>2 DEF Waiting, Outcomes
  <2>2. Waiting(m)'
    BY <1>1, <1>2 DEF Waiting
  <2>3. \A n \in Messages : Waiting(n) => Waiting(n)'
    BY <1>2 DEF Waiting
  <2> QED
    BY <2>1, <2>2, <2>3, <1>1, <1>2 DEF Tasks
<1>6. Before' /\ OwnVerdict' /\ Outcomes'
  BY <1>2 DEF Before, OwnVerdict, Outcomes, Skipped, Due, AsCame
<1> QED
  BY <1>3, <1>4, <1>5, <1>6

LEMMA ResultKeeps ==
  ASSUME Inv, NEW e \in Engines, Result(e)
  PROVE  Hands' /\ Ledger' /\ Tasks' /\ Outcomes' /\ Before' /\ OwnVerdict'
<1> USE DEF Inv, IInv, TypeOK, Types
<1>1. PICK m \in Messages :
        /\ Work(m) \in holding[e] /\ pipe[m] # "empty"
        /\ holding' = [holding EXCEPT ![e] =
                         {IF pipe[m] = "value" THEN Work(m) ELSE Failed(m)}]
  BY DEF Result
<1>2. holding[e] = {Work(m)}
  BY <1>1 DEF QueueBounds, AtMostOne
<1>3. /\ child[e] = "wait" /\ child' = [child EXCEPT ![e] = "respond"]
      /\ UNCHANGED <<upstream, tasks, cm_failed, came, receiver, forwarding, ledger, sending,
                     input, response, pass_thru, passed_on, emitted, task_queue, running, pipe>>
  BY DEF Result, ChildTo, messageVars, receiverVars, outputVars, poolVars
<1>4. /\ \A f \in Engines \ {e} : holding'[f] = holding[f] /\ child'[f] = child[f]
      /\ child'[e] = "respond"
      /\ \/ pipe[m] = "value" /\ holding'[e] = {Work(m)}
         \/ pipe[m] = "error" /\ holding'[e] = {Failed(m)}
  BY <1>1, <1>3
<1>5. Hands'
  BY <1>3, <1>4 DEF Hands
<1>6. Ledger'
  <2>1. \A f \in Engines, n \in Messages : Has(holding'[f], n) <=> Has(holding[f], n)
    <3> TAKE f \in Engines, n \in Messages
    <3>1. CASE f = e
      BY <3>1, <1>2, <1>4, EventsApart DEF Has
    <3>2. CASE f # e
      BY <3>2, <1>4
    <3> QED
      BY <3>1, <3>2
  <2> QED
    BY <2>1, <1>3, LedgerStays
<1>7. Tasks'
  <2>0. \A n \in Messages \ {m} : Work(n) \notin holding[e]
    BY <1>2, EventsApart
  <2>1. \A n \in Messages \ {m} : Waiting(n) => Waiting(n)'
    BY ONLY <2>0, <1>4 DEF Waiting
  <2> QED
    BY <2>1, <1>1, <1>3 DEF Tasks
<1>8. Before' /\ OwnVerdict'
  BY <1>3 DEF Before, OwnVerdict, Skipped, Due, AsCame
<1>9. Outcomes'
  BY <1>3, <1>4, EventsApart DEF Outcomes
<1> QED
  BY <1>5, <1>6, <1>7, <1>8, <1>9

LEMMA RespondKeeps ==
  ASSUME Inv, NEW e \in Engines, Respond(e)
  PROVE  Hands' /\ Ledger' /\ Tasks' /\ Outcomes' /\ Before' /\ OwnVerdict'
<1> USE DEF Inv, IInv, TypeOK, Types
<1>1. PICK ev \in holding[e] : response' = [response EXCEPT ![e] = {ev}]
  BY DEF Respond, Put
<1>2. holding[e] = {ev}
  BY <1>1 DEF QueueBounds, AtMostOne
<1>3. /\ child[e] = "respond" /\ holding' = [holding EXCEPT ![e] = {}] /\ response[e] = {}
      /\ child' \in [Engines -> {"get", "submit", "wait", "respond", "closing", "ended"}]
      /\ child'[e] \in {"get", "closing"}
      /\ \A f \in Engines \ {e} : child'[f] = child[f]
      /\ UNCHANGED <<upstream, tasks, cm_failed, came, receiver, forwarding, ledger, sending,
                     input, pass_thru, passed_on, emitted, task_queue, running, pipe>>
  BY DEF Respond, Put, ChildTo, messageVars, receiverVars, outputVars, poolVars
<1>4. /\ \A f \in Engines \ {e} : holding'[f] = holding[f] /\ response'[f] = response[f]
      /\ holding'[e] = {} /\ response'[e] = holding[e]
  BY <1>1, <1>2, <1>3
<1>5. Hands'
  BY <1>3, <1>4 DEF Hands
<1>6. Ledger'
  <2> SUFFICES ASSUME NEW n \in Messages PROVE Alone(n)' /\ (n \in ledger <=> UnderWay(n))'
    BY DEF Ledger
  <2>1. /\ ~Has(holding'[e], n) /\ ~Has(response[e], n)
        /\ Has(response'[e], n) <=> Has(holding[e], n)
        /\ \A f \in Engines \ {e} : /\ Has(holding'[f], n) <=> Has(holding[f], n)
                                    /\ Has(response'[f], n) <=> Has(response[f], n)
    BY <1>3, <1>4 DEF Has
  <2>2. Alone(n) /\ (n \in ledger <=> UnderWay(n))
    BY DEF Ledger
  <2>3. Alone(n)'
    BY <2>1, <2>2, <1>3 DEF Alone
  <2>4. UnderWay(n)' <=> UnderWay(n)
    BY <2>1, <1>3 DEF UnderWay
  <2> QED
    BY <2>2, <2>3, <2>4, <1>3
<1>7. Tasks'
  <2>1. \A n \in Messages : Waiting(n) => Waiting(n)'
    BY <1>3, <1>4 DEF Waiting
  <2> QED
    BY <2>1, <1>3 DEF Tasks
<1>8. Before' /\ OwnVerdict'
  BY <1>3 DEF Before, OwnVerdict, Skipped, Due, AsCame
<1>9. Outcomes'
  BY <1>3, <1>4 DEF Outcomes
<1> QED
  BY <1>5, <1>6, <1>7, <1>8, <1>9

LEMMA CloseKeeps ==
  ASSUME Inv, NEW e \in Engines, ChildStop(e) \/ Close(e)
  PROVE  Hands' /\ Ledger' /\ Tasks' /\ Outcomes' /\ Before' /\ OwnVerdict'
<1> USE DEF Inv, IInv, TypeOK, Types
<1>1. /\ child[e] \in {"get", "closing"}
      /\ \E there \in {"closing", "ended"} : child' = [child EXCEPT ![e] = there]
      /\ \/ response' = response
         \/ response' = [response EXCEPT ![e] = {Completed}] /\ response[e] = {}
      /\ UNCHANGED <<upstream, tasks, cm_failed, came, receiver, forwarding, ledger, sending, input,
                     holding, pass_thru, passed_on, emitted, task_queue, running, pipe>>
  BY DEF ChildStop, Close, Put, ChildTo, messageVars, receiverVars, outputVars, poolVars
<1>2. /\ \A f \in Engines \ {e} : child'[f] = child[f]
      /\ child'[e] \in {"closing", "ended"} /\ holding[e] = {}
  BY <1>1 DEF Hands
<1>8. \A f \in Engines, n \in Messages :
           /\ Work(n) \in response'[f] <=> Work(n) \in response[f]
           /\ Failed(n) \in response'[f] <=> Failed(n) \in response[f]
  <2> TAKE f \in Engines, n \in Messages
  <2>1. CASE response'[f] = response[f]
    BY <2>1
  <2>2. CASE response'[f] = {Completed} /\ response[f] = {}
    BY <2>2, EventsApart
  <2> QED
    BY <2>1, <2>2, <1>1
<1>3. Hands'
  BY <1>1, <1>2 DEF Hands
<1>4. Ledger'
  <2>1. \A f \in Engines, n \in Messages : Has(response'[f], n) <=> Has(response[f], n)
    BY <1>8 DEF Has
  <2> QED
    BY <2>1, <1>1, LedgerStays
<1>5. Tasks'
  <2>1. \A n \in Messages : Waiting(n) => Waiting(n)'
    BY <1>1, <1>2 DEF Waiting
  <2> QED
    BY <2>1, <1>1 DEF Tasks
<1>6. Before' /\ OwnVerdict'
  BY <1>1 DEF Before, OwnVerdict, Skipped, Due, AsCame
<1>7. Outcomes'
  BY <1>1, <1>2, <1>8 DEF Outcomes
<1> QED
  BY <1>3, <1>4, <1>5, <1>6, <1>7

-----------------------------------------------------------------------------
(* The handler's steps, the nodes' and the pool's.                         *)

LEMMA HandlerGetKeeps ==
  ASSUME Inv, NEW e \in Engines, HandlerGet(e)
  PROVE  Hands' /\ Ledger' /\ Tasks' /\ Outcomes' /\ Before' /\ OwnVerdict'
<1> USE DEF Inv, IInv, TypeOK, Types
<1>1. PICK ev \in response[e] :
        passed_on' = IF ev = Completed THEN passed_on ELSE passed_on \cup {ev}
  BY DEF HandlerGet
<1>2. response[e] = {ev}
  BY <1>1 DEF QueueBounds, AtMostOne
<1>3. /\ response' = [response EXCEPT ![e] = {}]
      /\ UNCHANGED <<upstream, tasks, cm_failed, came, receiver, forwarding, ledger, sending, child,
                     input, holding, pass_thru, emitted, task_queue, running, pipe>>
  BY DEF HandlerGet, Take, messageVars, receiverVars, childVars, poolVars
<1>4. /\ \A f \in Engines \ {e} : response'[f] = response[f]
      /\ response'[e] = {}
      /\ \A n \in Messages :
           /\ Work(n) \in passed_on' <=> Work(n) \in passed_on \cup response[e]
           /\ Failed(n) \in passed_on' <=> Failed(n) \in passed_on \cup response[e]
           /\ ~(Work(n) \in response[e] /\ Failed(n) \in response[e])
  BY <1>1, <1>2, <1>3, EventsApart
<1>5. Hands'
  BY <1>3 DEF Hands
<1>6. Ledger'
  <2> SUFFICES ASSUME NEW n \in Messages PROVE Alone(n)' /\ (n \in ledger <=> UnderWay(n))'
    BY DEF Ledger
  <2>1. /\ ~Has(response'[e], n)
        /\ Has(passed_on', n) <=> Has(passed_on, n) \/ Has(response[e], n)
        /\ \A f \in Engines \ {e} : Has(response'[f], n) <=> Has(response[f], n)
    BY <1>3, <1>4 DEF Has
  <2>2. Alone(n) /\ (n \in ledger <=> UnderWay(n))
    BY DEF Ledger
  <2>3. ~(Work(n) \in passed_on' /\ Failed(n) \in passed_on')
    BY <2>2, <1>4 DEF Alone, Has
  <2>4. Alone(n)'
    BY <2>1, <2>2, <2>3, <1>3 DEF Alone
  <2>5. UnderWay(n)' <=> UnderWay(n)
    BY <2>1, <1>3 DEF UnderWay
  <2> QED
    BY <2>2, <2>4, <2>5, <1>3
<1>7. Tasks' /\ Before' /\ OwnVerdict'
  BY <1>3 DEF Tasks, Waiting, Before, OwnVerdict, Skipped, Due, AsCame
<1>8. Outcomes'
  BY <1>3, <1>4 DEF Outcomes
<1> QED
  BY <1>5, <1>6, <1>7, <1>8

LEMMA ReconstructKeeps ==
  ASSUME Inv, NEW m \in Messages, Reconstruct(m)
  PROVE  Hands' /\ Ledger' /\ Tasks' /\ Outcomes' /\ Before' /\ OwnVerdict'
<1> USE DEF Inv, IInv, TypeOK, Types
<1>0. PICK ev \in passed_on \cap PackagesOf(m) :
        /\ passed_on' = passed_on \ {ev}
        /\ cm_failed' = [cm_failed EXCEPT ![m] = @ \/ ev = Failed(m)]
  BY DEF Reconstruct
<1>1. /\ ev \in passed_on /\ (ev = Work(m) \/ ev = Failed(m))
      /\ passed_on' = passed_on \ {ev}
      /\ cm_failed' = [cm_failed EXCEPT ![m] = @ \/ ev = Failed(m)]
  BY <1>0, EventsApart
<1>2. /\ m \in ledger /\ ledger' = ledger \ {m}
      /\ emitted' = [emitted EXCEPT ![m] = @ + 1]
      /\ UNCHANGED <<upstream, tasks, came, receiver, forwarding, sending, child, response,
                     input, holding, pass_thru, task_queue, running, pipe>>
  BY DEF Reconstruct, Emit, childVars, poolVars
<1>3. Has(passed_on, m) /\ Alone(m)
  BY <1>1 DEF Ledger, Has
<1>4. /\ ~Has(passed_on', m)
      /\ \A n \in Messages \ {m} : /\ Work(n) \in passed_on' <=> Work(n) \in passed_on
                                   /\ Failed(n) \in passed_on' <=> Failed(n) \in passed_on
  BY <1>1, <1>3, EventsApart DEF Alone, Has
<1>5. Hands'
  BY <1>2 DEF Hands
<1>6. Ledger'
  <2> SUFFICES ASSUME NEW n \in Messages PROVE Alone(n)' /\ (n \in ledger <=> UnderWay(n))'
    BY DEF Ledger
  <2>1. Alone(n) /\ (n \in ledger <=> UnderWay(n))
    BY DEF Ledger
  <2>2. CASE n = m
    <3>1. \A f \in Engines : /\ ~Has(sending[f], m) /\ ~Has(input[f], m)
                             /\ ~Has(holding[f], m) /\ ~Has(response[f], m)
      BY <1>3 DEF Alone
    <3>2. \A f \in Engines : /\ ~Has(sending'[f], m) /\ ~Has(input'[f], m)
                             /\ ~Has(holding'[f], m) /\ ~Has(response'[f], m)
      BY <3>1, <1>2
    <3>3. ~UnderWay(m)'
      BY <3>2, <1>4 DEF UnderWay
    <3>4. Alone(m)'
      BY <3>2, <1>4 DEF Alone, Has
    <3> QED
      BY <3>3, <3>4, <2>2, <1>2
  <2>3. CASE n # m
    <3>1. Has(passed_on', n) <=> Has(passed_on, n)
      BY <2>3, <1>4 DEF Has
    <3>2. ~(Work(n) \in passed_on' /\ Failed(n) \in passed_on')
      BY <2>1, <2>3, <1>4 DEF Alone
    <3>3. Alone(n)'
      BY <3>1, <3>2, <2>1, <1>2 DEF Alone
    <3>4. UnderWay(n)' <=> UnderWay(n)
      BY <3>1, <1>2 DEF UnderWay
    <3> QED
      BY <3>3, <3>4, <2>1, <2>3, <1>2
  <2> QED
    BY <2>2, <2>3
<1>7. Tasks'
  BY <1>2 DEF Tasks, Waiting
<1>8. Outcomes'
  BY <1>2, <1>4 DEF Outcomes, Has
<1>9. /\ cm_failed' \in [Messages -> BOOLEAN] /\ emitted' \in [Messages -> Nat]
      /\ \A n \in Messages \ {m} : cm_failed'[n] = cm_failed[n] /\ emitted'[n] = emitted[n]
  BY <1>1, <1>2
<1>10. Before'
  BY <1>2, <1>9 DEF Before, Skipped, Due, AsCame, Apart
<1>11. OwnVerdict'
  <2>1. CASE ev = Work(m)
    <3>1. pipe[m] = "value" /\ Due(m) /\ ~tasks[m] /\ ~cm_failed'[m]
      BY <2>1, <1>1, <1>2, EventsApart DEF Outcomes, Before
    <3> QED
      BY ONLY <3>1, <1>2, <1>9, OwnVerdict DEF OwnVerdict, Due, AsCame
  <2>2. CASE ev = Failed(m)
    <3>1. pipe[m] = "error" /\ Due(m) /\ ~tasks[m] /\ cm_failed'[m]
      BY <2>2, <1>1, <1>2 DEF Outcomes, Before
    <3> QED
      BY ONLY <3>1, <1>2, <1>9, OwnVerdict DEF OwnVerdict, Due, AsCame
  <2> QED
    BY <2>1, <2>2, <1>1
<1> QED
  BY <1>5, <1>6, <1>7, <1>8, <1>10, <1>11

LEMMA PassThroughKeeps ==
  ASSUME Inv, NEW m \in Messages, PassThrough(m)
  PROVE  Hands' /\ Ledger' /\ Tasks' /\ Outcomes' /\ Before' /\ OwnVerdict'
<1> USE DEF Inv, IInv, TypeOK, Types
<1>1. /\ m \in pass_thru /\ pass_thru' = pass_thru \ {m}
      /\ emitted' = [emitted EXCEPT ![m] = @ + 1]
      /\ UNCHANGED <<upstream, tasks, cm_failed, came, receiver, forwarding, sending, ledger,
                     child, response, input, holding, passed_on, task_queue, running, pipe>>
  BY DEF PassThrough, Emit, messageVars, receiverVars, childVars, poolVars
<1>2. Hands'
  BY <1>1 DEF Hands
<1>3. Ledger'
  BY <1>1, LedgerStays
<1>4. Tasks' /\ Outcomes'
  BY <1>1 DEF Tasks, Waiting, Outcomes
<1>5. \A n \in Messages \ {m} : emitted'[n] = emitted[n]
  BY <1>1
<1>6. Before'
  BY <1>1, <1>5 DEF Before, Skipped, Due, AsCame, Apart
<1>7. OwnVerdict'
  BY <1>1, <1>5 DEF OwnVerdict, Before, Skipped, Due, AsCame
<1> QED
  BY <1>2, <1>3, <1>4, <1>6, <1>7

LEMMA TakeTaskKeeps ==
  ASSUME Inv, NEW w \in Workers, TakeTask(w)
  PROVE  Hands' /\ Ledger' /\ Tasks' /\ Outcomes' /\ Before' /\ OwnVerdict'
<1> USE DEF Inv, IInv, TypeOK, Types
<1>1. PICK m \in task_queue : /\ task_queue' = task_queue \ {m}
                              /\ running' = [running EXCEPT ![w] = {m}]
  BY DEF TakeTask
<1>2. UNCHANGED <<upstream, tasks, cm_failed, came, receiver, forwarding, sending, ledger, child,
                  response, input, holding, pass_thru, passed_on, emitted, pipe>>
  BY DEF TakeTask, messageVars, receiverVars, childVars, outputVars
<1>3. Ledger'
  BY <1>2, LedgerStays
<1>4. Hands' /\ Outcomes' /\ Before' /\ OwnVerdict'
  BY <1>2 DEF Hands, Outcomes, Before, OwnVerdict, Skipped, Due, AsCame
<1>5. Tasks'
  <2>1. /\ running'[w] = {m} /\ running[w] = {}
        /\ \A v \in Workers \ {w} : running'[v] = running[v]
    BY <1>1 DEF TakeTask
  <2>2. \A n \in Messages : Waiting(n) => Waiting(n)'
    BY <1>2 DEF Waiting
  <2> QED
    BY <2>1, <2>2, <1>1, <1>2 DEF Tasks
<1> QED
  BY <1>3, <1>4, <1>5

\* The outcome of a task becomes known: its package is held by its child thread.
LEMMA OutcomeKeeps ==
  ASSUME Inv, NEW w \in Workers, RunTask(w) \/ Die(w)
  PROVE  Hands' /\ Ledger' /\ Tasks' /\ Outcomes' /\ Before' /\ OwnVerdict'
<1> USE DEF Inv, IInv, TypeOK, Types
<1>1. PICK m \in running[w], r \in {"value", "error"} : pipe' = [pipe EXCEPT ![m] = r]
  BY DEF RunTask, Die
<1>2. /\ running' = [running EXCEPT ![w] = {}]
      /\ UNCHANGED <<upstream, tasks, cm_failed, came, receiver, forwarding, sending, ledger, child,
                     response, input, holding, pass_thru, passed_on, emitted, task_queue>>
  BY DEF RunTask, Die, messageVars, receiverVars, childVars, outputVars
<1>3. m \in Messages /\ \A n \in Messages \ {m} : pipe'[n] = pipe[n]
  BY <1>1
<1>4. PICK e \in Engines : child[e] = "wait" /\ Work(m) \in holding[e]
  BY <1>3 DEF Tasks, Waiting
<1>5. /\ ~Has(passed_on, m) /\ m \in ledger
      /\ \A f \in Engines : /\ ~Has(sending[f], m) /\ ~Has(input[f], m) /\ ~Has(response[f], m)
                            /\ Has(holding[f], m) => f = e
  BY <1>3, <1>4 DEF Ledger, Alone, UnderWay, Has
<1>6. Failed(m) \notin holding[e]
  BY <1>3, <1>4 DEF Hands
<1>7. Ledger'
  BY <1>2, LedgerStays
<1>8. Hands'
  BY <1>2 DEF Hands
<1>9. Tasks'
  <2>1. /\ running'[w] = {} /\ \A v \in Workers \ {w} : running'[v] = running[v]
    BY <1>2
  <2>2. \A n \in Messages : Waiting(n) => Waiting(n)'
    BY <1>2 DEF Waiting
  <2> QED
    BY <2>1, <2>2, <1>1, <1>2, <1>3 DEF Tasks
<1>10. Outcomes'
  BY <1>2, <1>3, <1>4, <1>5, <1>6 DEF Outcomes, Has
<1>11. Before' /\ OwnVerdict'
  BY <1>2, <1>3, <1>5 DEF Before, OwnVerdict, Skipped, Due, AsCame, Apart
<1> QED
  BY <1>7, <1>8, <1>9, <1>10, <1>11

-----------------------------------------------------------------------------
LEMMA NextInv == Inv /\ [Next]_vars => Inv'
<1> SUFFICES ASSUME Inv, [Next]_vars
             PROVE  Hands' /\ Ledger' /\ Tasks' /\ Outcomes' /\ Before' /\ OwnVerdict'
  BY NextStep DEF Inv
<1>1. CASE \/ \E e \in Engines : Return(e) \/ HandlerStop(e)
           \/ ReconstructRaises \/ join \/ UNCHANGED vars
  <2>1. /\ UNCHANGED <<upstream, tasks, cm_failed, came, forwarding, sending, ledger, child,
                       response, input, holding, pass_thru, passed_on, emitted, task_queue,
                       running, pipe>>
        /\ \A e \in Engines : receiver'[e] = "sending" <=> receiver[e] = "sending"
    BY <1>1 DEF Return, ReceiverTo, HandlerStop, ReconstructRaises, join, vars, messageVars,
                receiverVars, childVars, outputVars, poolVars, Inv, IInv, TypeOK, Types
  <2>2. Ledger'
    BY <2>1, LedgerStays DEF Inv
  <2> QED
    BY <2>1, <2>2 DEF Inv, Hands, Tasks, Waiting, Outcomes, Before, OwnVerdict, Skipped, Due, AsCame
<1>2. CASE \E e \in Engines : Receiver(e) /\ ~Return(e)
  BY <1>2, AcceptKeeps, ForwardKeeps, EndKeeps, SendKeeps, PutKeeps DEF Receiver
<1>3. CASE \E e \in Engines : Child(e)
  BY <1>3, ChildGetKeeps, SubmitKeeps, ResultKeeps, RespondKeeps, CloseKeeps DEF Child
<1>4. CASE \E e \in Engines : HandlerGet(e)
  BY <1>4, HandlerGetKeeps
<1>5. CASE \E m \in Messages : Reconstruct(m) \/ PassThrough(m)
  BY <1>5, ReconstructKeeps, PassThroughKeeps
<1>6. CASE \E w \in Workers : Worker(w) \/ Die(w)
  BY <1>6, TakeTaskKeeps, OutcomeKeeps DEF Worker
<1> QED
  BY <1>1, <1>2, <1>3, <1>4, <1>5, <1>6 DEF Next, Handler, Reconstructor, PassThruSource

LEMMA InvAlways == StageSpec => []Inv
  BY InitInv, NextInv, PTL DEF StageSpec

\* Whatever engines share the pool and whatever dies, a message the stage has to
\* process leaves after its own task, marked exactly if that failed, and any other
\* leaves as it came.
THEOREM VerdictsAreOwn == StageSpec => []OwnVerdict
<1>1. Inv => OwnVerdict
  BY DEF Inv
<1> QED
  BY <1>1, InvAlways, PTL

LEMMA PlacesFact ==
  ASSUME Inv, NEW m \in Messages
  PROVE  /\ m \in ledger <=> Places(m) # {}
         /\ \A p, q \in Places(m) : p = q
<1>1. Alone(m) /\ (m \in ledger <=> UnderWay(m))
  BY DEF Inv, Ledger
<1>2. /\ \A e \in Engines : /\ e \in In(sending, m) <=> Has(sending[e], m)
                            /\ e \in In(input, m) <=> Has(input[e], m)
                            /\ e \in In(holding, m) <=> Has(holding[e], m)
                            /\ e \in In(response, m) <=> Has(response[e], m)
      /\ passed_on \cap PackagesOf(m) # {} <=> Has(passed_on, m)
      /\ In(sending, m) \cup In(input, m) \cup In(holding, m) \cup In(response, m) \subseteq Engines
  BY EventsApart DEF In, Has
<1>3. \A x, y \in passed_on \cap PackagesOf(m) : x = y
  BY <1>1, EventsApart DEF Alone
<1>4. m \in ledger <=> Places(m) # {}
  <2>1. /\ \A e \in Engines : /\ Has(sending[e], m) => <<"sending", e>> \in Places(m)
                              /\ Has(input[e], m) => <<"input", e>> \in Places(m)
                              /\ Has(holding[e], m) => <<"holding", e>> \in Places(m)
                              /\ Has(response[e], m) => <<"response", e>> \in Places(m)
        /\ \A x \in passed_on \cap PackagesOf(m) : <<"passed_on", x>> \in Places(m)
    BY <1>2 DEF Places
  <2>2. UnderWay(m) => Places(m) # {}
    BY <2>1, <1>2 DEF UnderWay
  <2>3. \A r \in Places(m) :
          \/ r[2] \in In(sending, m) \/ r[2] \in In(input, m)
          \/ r[2] \in In(holding, m) \/ r[2] \in In(response, m)
          \/ r[2] \in passed_on \cap PackagesOf(m)
    BY DEF Places
  <2>4. Places(m) # {} => UnderWay(m)
    BY <2>3, <1>2 DEF UnderWay
  <2> QED
    BY <2>2, <2>4, <1>1
<1>5. \A p, q \in Places(m) : p = q
  <2> SUFFICES ASSUME NEW p \in Places(m), NEW q \in Places(m) PROVE p = q
    OBVIOUS
  <2>1. \A r \in Places(m) :
          \/ \E e \in Engines :
               \/ r = <<"sending", e>> /\ Has(sending[e], m)
               \/ r = <<"input", e>> /\ Has(input[e], m)
               \/ r = <<"holding", e>> /\ Has(holding[e], m)
               \/ r = <<"response", e>> /\ Has(response[e], m)
          \/ \E x \in passed_on \cap PackagesOf(m) : r = <<"passed_on", x>>
    BY <1>2 DEF Places
  <2>2. \A x \in passed_on \cap PackagesOf(m) : Has(passed_on, m)
    BY <1>2
  <2>3. CASE Has(passed_on, m)
    BY <2>1, <2>3, <1>1, <1>3 DEF Alone
  <2>4. CASE ~Has(passed_on, m)
    BY <2>1, <2>2, <2>4, <1>1 DEF Alone
  <2> QED
    BY <2>3, <2>4
<1> QED
  BY <1>4, <1>5

\* The ledger names just the packages under way in the threads and queues, each
\* in one place: reconstruct_fn finds every message it looks up.
THEOREM LedgerIsRight == StageSpec => []LedgerIsUnderWay
<1>1. Inv => LedgerIsUnderWay
  BY PlacesFact DEF LedgerIsUnderWay
<1> QED
  BY <1>1, InvAlways, PTL

=============================================================================
