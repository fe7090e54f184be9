--------------------------- MODULE PipelineProofs ---------------------------
(***************************************************************************)
(* Proofs about the pipeline, for any sizes and jobs: that one call of     *)
(* submit_message makes one message (JobSubmission), that no pipeline      *)
(* outlives the program that runs it undisturbed (PipelineRunner), and     *)
(* that a job that succeeds has every part of its document, as far as it   *)
(* did not ask to drop it, and all it asked for (JobPipeline). The         *)
(* recursive functions are shown to have their values by induction over    *)
(* sets of numbers, which the least number of a set gives.                 *)
(***************************************************************************)
EXTENDS JobSubmission, PipelineRunner, JobPipeline, SequenceTheorems, FunctionTheorems,
        FiniteSetTheorems, WellFoundedInduction, TLAPS

-----------------------------------------------------------------------------
(* JobSubmission: one message of one call.                                 *)

Handled == {"unposted", "validating", "pushing", "200", "500"}

SubmissionTypeOK ==
  /\ posted \in [Attempts -> Handled]
  /\ submitter \in [at : {"sending", "waiting", "submitted"}, attempt : Attempts, job_id : Attempts \cup {0}]
  /\ task_queue \in Seq(Attempts)
  /\ engine \in [Engines -> Attempts \cup {0}]
  /\ made \in Seq([id : Attempts, cm_failed : BOOLEAN])
  /\ broke \in BOOLEAN /\ repushed \in BOOLEAN

\* An attempt is posted once, after those before it, and only if their
\* connections broke.
InTurn ==
  /\ \A n \in Attempts : n > submitter.attempt => posted[n] = "unposted"
  /\ submitter.at = "sending" => posted[submitter.attempt] = "unposted"
  /\ ~broke => submitter.attempt = 1

\* Only what has been pushed is on its way: a push that is still being repeated
\* may have been carried out.
Arrived == {n \in Attempts : posted[n] = "200" \/ (repushed /\ posted[n] = "pushing")}
OnlyPushed ==
  /\ \A i \in 1 .. Len(task_queue) : task_queue[i] \in Arrived
  /\ \A e \in Engines : engine[e] # 0 => engine[e] \in Arrived
  /\ \A i \in 1 .. Len(made) : made[i].id \in Arrived

\* A job that was pushed once is in one place: at one place of the task queue,
\* in the hands of one engine, or made into one message.
QueueApart ==
  /\ \A i, k \in 1 .. Len(task_queue) : i # k => task_queue[i] # task_queue[k]
  /\ \A i \in 1 .. Len(task_queue) : \A e \in Engines : task_queue[i] # engine[e]
  /\ \A i \in 1 .. Len(task_queue) : \A k \in 1 .. Len(made) : task_queue[i] # made[k].id
EnginesApart ==
  /\ \A e, f \in Engines : e # f /\ engine[e] # 0 => engine[e] # engine[f]
  /\ \A e \in Engines : \A k \in 1 .. Len(made) : engine[e] # made[k].id
MadeApart == \A i, k \in 1 .. Len(made) : i # k => made[i].id # made[k].id
OnePlace == ~repushed => QueueApart /\ EnginesApart /\ MadeApart

Marked == \A i \in 1 .. Len(made) : made[i].cm_failed <=> spec = "uneven"

SubmissionInv == SubmissionTypeOK /\ InTurn /\ OnlyPushed /\ OnePlace /\ Marked

\* The invariant holds before the first attempt.
LEMMA SubmissionStarts == SubmissionInit => SubmissionInv
<1> SUFFICES ASSUME SubmissionInit PROVE SubmissionInv
  OBVIOUS
<1> USE DEF SubmissionInit
<1>1. 1 \in Attempts
  BY SubmissionAssumption DEF Attempts
<1>2. Len(task_queue) = 0 /\ Len(made) = 0
  OBVIOUS
<1>3. SubmissionTypeOK
  <2>1. posted \in [Attempts -> Handled]
    BY DEF Handled
  <2>2. submitter \in [at : {"sending", "waiting", "submitted"}, attempt : Attempts, job_id : Attempts \cup {0}]
    BY <1>1
  <2>3. task_queue \in Seq(Attempts) /\ engine \in [Engines -> Attempts \cup {0}]
    OBVIOUS
  <2>4. made \in Seq([id : Attempts, cm_failed : BOOLEAN])
    OBVIOUS
  <2> QED
    BY <2>1, <2>2, <2>3, <2>4 DEF SubmissionTypeOK
<1>4. InTurn
  BY <1>1 DEF InTurn
<1>5. OnlyPushed /\ OnePlace /\ Marked
  BY <1>2 DEF OnlyPushed, OnePlace, QueueApart, EnginesApart, MadeApart, Marked
<1> QED
  BY <1>3, <1>4, <1>5 DEF SubmissionInv

\* What happens between the caller and the service before a push leaves the
\* task queue and all behind it alone: the invariant holds if no attempt that has
\* arrived is touched.
LEMMA NothingPushed ==
  ASSUME SubmissionInv, UNCHANGED <<spec, task_queue, engine, made, repushed>>,
         SubmissionTypeOK', InTurn', Arrived \subseteq Arrived'
  PROVE  SubmissionInv'
<1>1. OnlyPushed'
  BY DEF SubmissionInv, OnlyPushed
<1>2. OnePlace' /\ Marked'
  BY DEF SubmissionInv, OnePlace, QueueApart, EnginesApart, MadeApart, Marked
<1> QED
  BY <1>1, <1>2 DEF SubmissionInv

\* The caller's steps: a request goes out only for an attempt that never did.
LEMMA CallerKeeps == SubmissionInv /\ submit_message => SubmissionInv'
<1> SUFFICES ASSUME SubmissionInv, submit_message PROVE SubmissionInv'
  OBVIOUS
<1>1. /\ submitter.attempt \in Attempts /\ posted \in [Attempts -> Handled]
      /\ submitter = [at |-> submitter.at, attempt |-> submitter.attempt, job_id |-> submitter.job_id]
      /\ submitter.job_id \in Attempts \cup {0}
  BY DEF SubmissionInv, SubmissionTypeOK
<1>2. CASE Post
  <2>1. /\ posted' = [posted EXCEPT ![submitter.attempt] = "validating"]
        /\ submitter'.at = "waiting" /\ submitter'.attempt = submitter.attempt
        /\ posted[submitter.attempt] = "unposted"
    BY <1>1, <1>2 DEF Post, SubmissionInv, InTurn
  <2>2. SubmissionTypeOK'
    BY <1>1, <1>2, <2>1 DEF Post, SubmissionInv, SubmissionTypeOK, Handled, histVars
  <2>3. InTurn'
    BY <1>1, <1>2, <2>1, SubmissionAssumption DEF Post, SubmissionInv, InTurn, Attempts, histVars
  <2>4. Arrived \subseteq Arrived'
    BY <1>1, <1>2, <2>1 DEF Post, Arrived, histVars
  <2> QED
    BY <1>2, <2>2, <2>3, <2>4, NothingPushed DEF Post, histVars
<1>3. CASE ReceiveAnswer
  <2>1. submitter'.at = "submitted" /\ submitter'.attempt = submitter.attempt
    BY <1>1, <1>3 DEF ReceiveAnswer, Return
  <2>2. SubmissionTypeOK'
    BY <1>1, <1>3 DEF ReceiveAnswer, Return, SubmissionInv, SubmissionTypeOK, histVars
  <2>3. InTurn' /\ Arrived \subseteq Arrived'
    BY <1>3, <2>1 DEF ReceiveAnswer, SubmissionInv, InTurn, Arrived, histVars
  <2> QED
    BY <1>3, <2>2, <2>3, NothingPushed DEF ReceiveAnswer, histVars
<1>4. CASE Break
  <2>1. /\ posted' \in [Attempts -> Handled] /\ broke' = TRUE
        /\ \A n \in Attempts :
             posted'[n] = posted[n] \/ (posted[n] = "validating" /\ posted'[n] = "unposted")
    <3>1. CASE UNCHANGED posted
      BY <1>1, <1>4, <3>1 DEF Break
    <3>2. CASE posted' = [posted EXCEPT ![submitter.attempt] = "unposted"]
      BY <1>1, <1>4, <3>2 DEF Break, Handled
    <3> QED
      BY <1>4, <3>1, <3>2 DEF Break
  <2>2. \/ /\ submitter.attempt + 1 \in Attempts
           /\ submitter' = [submitter EXCEPT !.at = "sending", !.attempt = submitter.attempt + 1]
        \/ submitter' = [submitter EXCEPT !.at = "submitted", !.job_id = 0]
    BY <1>1, <1>4, SubmissionAssumption DEF Break, perform_retry_backoff, Return, Attempts
  <2>3. SubmissionTypeOK'
    <3>1. submitter' \in [at : {"sending", "waiting", "submitted"}, attempt : Attempts, job_id : Attempts \cup {0}]
      BY <1>1, <2>2
    <3>2. UNCHANGED <<task_queue, engine, made, repushed>>
      BY <1>4 DEF Break
    <3>3. broke' \in BOOLEAN
      BY <2>1
    <3>4. posted' \in [Attempts -> Handled]
      BY <2>1
    <3> QED
      BY <3>1, <3>2, <3>3, <3>4 DEF SubmissionInv, SubmissionTypeOK
  <2>4. InTurn'
    <3>1. /\ submitter.attempt \in Nat
          /\ \A n \in Attempts : n \in Nat
          /\ \A n \in Attempts : n > submitter.attempt => posted'[n] = "unposted"
      BY <1>1, <2>1 DEF SubmissionInv, InTurn, Attempts
    <3>2. CASE submitter'.at = "sending" /\ submitter'.attempt = submitter.attempt + 1
                /\ submitter.attempt + 1 \in Attempts
      BY <2>1, <3>1, <3>2 DEF InTurn
    <3>3. CASE submitter'.at = "submitted" /\ submitter'.attempt = submitter.attempt
      BY <2>1, <3>1, <3>3 DEF InTurn
    <3> QED
      BY <1>1, <2>2, <3>2, <3>3
  <2>5. Arrived \subseteq Arrived'
    BY <1>4, <2>1 DEF Break, Arrived
  <2> QED
    BY <1>4, <2>3, <2>4, <2>5, NothingPushed DEF Break
<1> QED
  BY <1>2, <1>3, <1>4 DEF submit_message

\* A push that is carried out for the first time finds the job nowhere, and one
\* that is repeated is owned to.
LEMMA PushKeeps ==
  ASSUME SubmissionInv, NEW n \in Attempts,
         posted[n] = "pushing", task_queue' = Append(task_queue, n),
         \/ posted' = [posted EXCEPT ![n] = "200"] /\ repushed' = repushed
         \/ posted' = posted /\ repushed' = TRUE,
         UNCHANGED <<spec, submitter, engine, made, broke>>
  PROVE  SubmissionInv'
<1>1. posted \in [Attempts -> Handled] /\ task_queue \in Seq(Attempts)
  BY DEF SubmissionInv, SubmissionTypeOK
<1>2. SubmissionTypeOK'
  <2>1. posted' \in [Attempts -> Handled]
    BY <1>1 DEF Handled
  <2>2. task_queue' \in Seq(Attempts)
    BY <1>1
  <2>3. repushed' \in BOOLEAN
    BY DEF SubmissionInv, SubmissionTypeOK
  <2> QED
    BY <2>1, <2>2, <2>3 DEF SubmissionInv, SubmissionTypeOK
<1>3. InTurn'
  BY <1>1, SubmissionAssumption DEF SubmissionInv, InTurn, Attempts, SubmissionTypeOK
<1>4. /\ Len(task_queue') = Len(task_queue) + 1 /\ Len(task_queue) \in Nat
      /\ task_queue'[Len(task_queue) + 1] = n
      /\ \A i \in 1 .. Len(task_queue) : task_queue'[i] = task_queue[i]
  BY <1>1
<1>5. n \in Arrived' /\ Arrived \subseteq Arrived'
  BY <1>1 DEF Arrived, SubmissionInv, SubmissionTypeOK
<1>6. OnlyPushed'
  BY <1>4, <1>5 DEF SubmissionInv, OnlyPushed
<1>7. ASSUME ~repushed' PROVE (QueueApart /\ EnginesApart /\ MadeApart)'
  <2>1. ~repushed /\ n \notin Arrived /\ QueueApart /\ EnginesApart /\ MadeApart
    BY <1>7 DEF Arrived, SubmissionInv, OnePlace
  <2>2. /\ \A i \in 1 .. Len(task_queue) : task_queue[i] # n
        /\ \A i \in 1 .. Len(made) : made[i].id # n
        /\ \A e \in Engines : engine[e] # n
    BY <2>1 DEF SubmissionInv, OnlyPushed, Attempts
  <2>3. QueueApart'
    BY <1>4, <2>1, <2>2 DEF QueueApart
  <2> QED
    BY <2>1, <2>3 DEF EnginesApart, MadeApart
<1> QED
  BY <1>2, <1>3, <1>6, <1>7 DEF SubmissionInv, OnePlace, Marked

\* A handler's steps: a job is validated before it is pushed.
LEMMA HandlerKeeps ==
  ASSUME SubmissionInv, NEW n \in Attempts, submit_job(n)
  PROVE  SubmissionInv'
<1>1. CASE Validate(n)
  <2>1. /\ posted' \in [Attempts -> Handled] /\ posted[n] = "validating"
        /\ \A k \in Attempts : k # n => posted'[k] = posted[k]
    BY <1>1 DEF Validate, SubmissionInv, SubmissionTypeOK, Handled
  <2>2. SubmissionTypeOK'
    BY <1>1, <2>1 DEF Validate, SubmissionInv, SubmissionTypeOK, histVars
  <2>3. InTurn' /\ Arrived \subseteq Arrived'
    BY <1>1, <2>1 DEF Validate, SubmissionInv, InTurn, Arrived, SubmissionTypeOK, histVars
  <2> QED
    BY <1>1, <2>2, <2>3, NothingPushed DEF Validate, histVars
<1>2. CASE PushJob(n)
  BY <1>2, PushKeeps DEF PushJob, histVars
<1>3. CASE PushJobFails(n)
  <2>1. CASE UNCHANGED <<task_queue, repushed>>
    BY <1>3, <2>1, NothingPushed DEF PushJobFails, SubmissionInv, SubmissionTypeOK, InTurn, Arrived
  <2>2. CASE task_queue' = Append(task_queue, n) /\ repushed' = TRUE
    BY <1>3, <2>2, PushKeeps DEF PushJobFails
  <2> QED
    BY <1>3, <2>1, <2>2 DEF PushJobFails
<1> QED
  BY <1>1, <1>2, <1>3 DEF submit_job

\* The places of a queue that moves up stay apart, and leave the first.
LEMMA NextsDiffer ==
  ASSUME NEW n
  PROVE  \A i, k \in 1 .. n : i # k => i + 1 # k + 1 /\ i + 1 # 1
OBVIOUS

\* Whatever leaves the head of the task queue for an engine, or is lost there,
\* is gone from the queue.
LEMMA HeadGone ==
  ASSUME SubmissionInv, task_queue # <<>>
  PROVE  /\ Head(task_queue) \in Arrived /\ Tail(task_queue) \in Seq(Attempts)
         /\ Len(Tail(task_queue)) + 1 = Len(task_queue)
         /\ \A i \in 1 .. Len(Tail(task_queue)) :
              i + 1 \in 1 .. Len(task_queue) /\ Tail(task_queue)[i] = task_queue[i + 1]
         /\ 1 \in 1 .. Len(task_queue) /\ Head(task_queue) = task_queue[1]
<1>1. task_queue \in Seq(Attempts) /\ Len(task_queue) \in Nat
  BY DEF SubmissionInv, SubmissionTypeOK
<1>2. Len(task_queue) > 0 /\ Head(task_queue) = task_queue[1]
  BY <1>1
<1>3. Tail(task_queue) \in Seq(Attempts) /\ Len(Tail(task_queue)) = Len(task_queue) - 1
  BY <1>1
<1>4. \A i \in 1 .. Len(Tail(task_queue)) : Tail(task_queue)[i] = task_queue[i + 1]
  BY <1>1, <1>2
<1> QED
  BY <1>1, <1>2, <1>3, <1>4 DEF SubmissionInv, OnlyPushed

\* The source's steps: what is fetched is in the hands of the engine that fetched
\* it, and no longer when it is made into a message.
LEMMA SourceKeeps ==
  ASSUME SubmissionInv, NEW e \in Engines, fetch_and_process_messages(e)
  PROVE  SubmissionInv'
<1>1. /\ InTurn' /\ Arrived' = Arrived
      /\ UNCHANGED <<posted, submitter, broke, repushed, spec>>
  BY DEF fetch_and_process_messages, FetchJob, FetchJobFails, process_message, histVars,
         SubmissionInv, InTurn, Arrived
<1>2. engine \in [Engines -> Attempts \cup {0}]
  BY DEF SubmissionInv, SubmissionTypeOK
<1>3. CASE FetchJob(e)
  <2>1. /\ task_queue # <<>> /\ task_queue' = Tail(task_queue) /\ UNCHANGED made
        /\ engine' = [engine EXCEPT ![e] = Head(task_queue)] /\ engine[e] = 0
    BY <1>3 DEF FetchJob
  <2>2. SubmissionTypeOK'
    BY <1>1, <1>2, <2>1, HeadGone DEF SubmissionInv, SubmissionTypeOK, Arrived
  <2>3. OnlyPushed'
    BY <1>1, <1>2, <2>1, HeadGone DEF SubmissionInv, OnlyPushed
  <2>4. ASSUME ~repushed PROVE (QueueApart /\ EnginesApart /\ MadeApart)'
    <3>1. QueueApart /\ EnginesApart /\ MadeApart
      BY <2>4 DEF SubmissionInv, OnePlace
    <3>2. QueueApart'
      <4> DEFINE rest == task_queue'
      <4>1. /\ \A i \in 1 .. Len(rest) : i + 1 \in 1 .. Len(task_queue) /\ rest[i] = task_queue[i + 1]
            /\ 1 \in 1 .. Len(task_queue) /\ Head(task_queue) = task_queue[1]
        BY <2>1, HeadGone
      <4>2. \A i, k \in 1 .. Len(rest) : i # k => i + 1 # k + 1 /\ i + 1 # 1
        BY NextsDiffer
      <4>3. \A i, k \in 1 .. Len(rest) : i # k => rest[i] # rest[k]
        <5> TAKE i, k \in 1 .. Len(rest)
        <5>1. /\ rest[i] = task_queue[i + 1] /\ i + 1 \in 1 .. Len(task_queue)
              /\ rest[k] = task_queue[k + 1] /\ k + 1 \in 1 .. Len(task_queue)
          BY <4>1
        <5>2. i # k => i + 1 # k + 1
          BY <4>2
        <5> HIDE DEF rest
        <5> QED BY <3>1, <5>1, <5>2 DEF QueueApart
      <4>4. \A i \in 1 .. Len(rest) : \A f \in Engines : rest[i] # engine'[f]
        <5> TAKE i \in 1 .. Len(rest)
        <5> TAKE f \in Engines
        <5>1. rest[i] = task_queue[i + 1] /\ i + 1 \in 1 .. Len(task_queue) /\ i + 1 # 1
          BY <4>1
        <5>2. engine'[f] = engine[f] \/ engine'[f] = task_queue[1]
          BY <1>2, <2>1, <4>1
        <5> HIDE DEF rest
        <5> QED BY <3>1, <4>1, <5>1, <5>2 DEF QueueApart
      <4>5. \A i \in 1 .. Len(rest) : \A k \in 1 .. Len(made) : rest[i] # made[k].id
        BY <3>1, <4>1 DEF QueueApart
      <4> QED BY <2>1, <4>3, <4>4, <4>5 DEF QueueApart
    <3>3. EnginesApart'
      BY <1>2, <2>1, <3>1, HeadGone DEF QueueApart, EnginesApart
    <3> QED
      BY <2>1, <3>1, <3>2, <3>3 DEF MadeApart
  <2> QED
    BY <1>1, <2>1, <2>2, <2>3, <2>4 DEF SubmissionInv, OnePlace, Marked
<1>4. CASE FetchJobFails(e)
  <2>1. task_queue # <<>> /\ task_queue' = Tail(task_queue) /\ UNCHANGED <<made, engine>>
    BY <1>4 DEF FetchJobFails
  <2>2. SubmissionTypeOK' /\ OnlyPushed'
    BY <1>1, <2>1, HeadGone DEF SubmissionInv, SubmissionTypeOK, OnlyPushed
  <2>3. OnePlace'
    BY <1>1, <2>1, HeadGone DEF SubmissionInv, OnePlace, QueueApart, EnginesApart, MadeApart
  <2> QED
    BY <1>1, <2>1, <2>2, <2>3 DEF SubmissionInv, Marked
<1>5. CASE process_message(e)
  <2> DEFINE message == [id |-> engine[e], cm_failed |-> spec = "uneven"]
  <2>1. /\ engine[e] # 0 /\ engine[e] \in Attempts /\ engine' = [engine EXCEPT ![e] = 0]
        /\ task_queue' = task_queue
        /\ made' = made \/ made' = Append(made, message)
    BY <1>2, <1>5 DEF process_message
  <2>2. made \in Seq([id : Attempts, cm_failed : BOOLEAN]) /\ Len(made) \in Nat
    BY DEF SubmissionInv, SubmissionTypeOK
  <2>3. message \in [id : Attempts, cm_failed : BOOLEAN]
    BY <2>1
  <2>4. /\ made' \in Seq([id : Attempts, cm_failed : BOOLEAN])
        /\ \A i \in 1 .. Len(made') : \/ i \in 1 .. Len(made) /\ made'[i] = made[i]
                                      \/ i = Len(made) + 1 /\ made'[i] = message
    <3> HIDE DEF message
    <3>1. CASE made' = made
      BY <2>2, <3>1
    <3>2. CASE made' = Append(made, message)
      <4>1. Len(made') = Len(made) + 1 /\ made'[Len(made) + 1] = message
        BY <2>2, <2>3, <3>2
      <4>2. \A i \in 1 .. Len(made) : made'[i] = made[i]
        BY <2>2, <2>3, <3>2
      <4>3. made' \in Seq([id : Attempts, cm_failed : BOOLEAN])
        BY <2>2, <2>3, <3>2
      <4> QED
        BY <2>2, <4>1, <4>2, <4>3
    <3> QED
      BY <2>1, <3>1, <3>2
  <2> HIDE DEF message
  <2>5. message.id = engine[e] /\ (message.cm_failed <=> spec = "uneven")
    BY DEF message
  <2>6. SubmissionTypeOK'
    BY <1>1, <1>2, <2>1, <2>4 DEF SubmissionInv, SubmissionTypeOK
  <2>7. OnlyPushed' /\ Marked'
    BY <1>1, <1>2, <2>1, <2>4, <2>5 DEF SubmissionInv, OnlyPushed, Marked
  <2>8. ASSUME ~repushed PROVE (QueueApart /\ EnginesApart /\ MadeApart)'
    <3>1. QueueApart /\ EnginesApart /\ MadeApart
      BY <2>8 DEF SubmissionInv, OnePlace
    <3>2. 0 \notin Attempts /\ \A i \in 1 .. Len(task_queue) : task_queue[i] \in Attempts
      BY DEF Attempts, SubmissionInv, OnlyPushed, Arrived
    <3>3. \A i \in 1 .. Len(made') : made'[i].id \in Attempts
      BY <2>4, <2>5, <2>1 DEF SubmissionInv, OnlyPushed, Arrived
    <3>4. QueueApart'
      BY <1>2, <2>1, <2>4, <2>5, <3>1, <3>2 DEF QueueApart
    <3>5. EnginesApart'
      BY <1>2, <2>1, <2>4, <2>5, <3>1, <3>2, <3>3 DEF EnginesApart
    <3>6. MadeApart'
      BY <2>1, <2>2, <2>4, <2>5, <3>1 DEF EnginesApart, MadeApart
    <3> QED
      BY <3>4, <3>5, <3>6
  <2> QED
    BY <1>1, <2>6, <2>7, <2>8 DEF SubmissionInv, OnePlace
<1> QED
  BY <1>3, <1>4, <1>5 DEF fetch_and_process_messages

\* What the invariant says of the messages that were made: without a broken
\* connection there was one attempt only, and it is in one place.
LEMMA InvariantMeans == SubmissionInv => MadeOnce
<1> SUFFICES ASSUME SubmissionInv PROVE MadeOnce
  OBVIOUS
<1>1. DOMAIN made = 1 .. Len(made)
  BY DEF SubmissionInv, SubmissionTypeOK
<1>2. \A i \in 1 .. Len(made) : made[i].id \in Arrived /\ posted[made[i].id] # "500"
  BY DEF SubmissionInv, OnlyPushed, Arrived
<1>3. ASSUME ~broke, NEW n \in Arrived PROVE n = 1
  <2>1. submitter.attempt = 1 /\ n \in Nat \ {0} /\ posted[n] # "unposted"
    BY <1>3 DEF SubmissionInv, InTurn, Arrived, Attempts
  <2>2. ~(n > 1)
    BY <1>3, <2>1 DEF SubmissionInv, InTurn, Arrived
  <2> QED
    BY <2>1, <2>2
<1>4. ASSUME ~repushed, NEW i \in 1 .. Len(made), NEW k \in 1 .. Len(made), i # k
      PROVE  broke /\ made[i].id # made[k].id
  <2>1. made[i].id # made[k].id
    BY <1>4 DEF SubmissionInv, OnePlace, MadeApart
  <2> QED
    BY <1>2, <1>3, <2>1 DEF SubmissionInv, SubmissionTypeOK
<1> QED
  BY <1>1, <1>2, <1>4 DEF MadeOnce, SubmissionInv, Marked

\* One call of submit_message is one message in the pipeline, unless a push was
\* repeated or a connection broke: MadeOnce, for any number of attempts, of
\* engines that fetch at once, and of failures of connections and commands.
THEOREM OneMessage == SubmissionSpec => []MadeOnce
<1>1. SubmissionInit => SubmissionInv
  BY SubmissionStarts
<1>2. SubmissionInv /\ [SubmissionNext]_submissionVars => SubmissionInv'
  <2>1. SubmissionInv /\ UNCHANGED submissionVars => SubmissionInv'
    <3> SUFFICES ASSUME SubmissionInv, UNCHANGED submissionVars PROVE SubmissionInv'
      OBVIOUS
    <3>1. UNCHANGED <<spec, posted, submitter, task_queue, engine, made, broke, repushed>>
      BY DEF submissionVars
    <3> QED
      BY <3>1, NothingPushed DEF SubmissionInv, SubmissionTypeOK, InTurn, Arrived
  <2>2. SubmissionInv /\ SubmissionNext => SubmissionInv'
    BY CallerKeeps, HandlerKeeps, SourceKeeps DEF SubmissionNext
  <2> QED
    BY <2>1, <2>2
<1> QED
  BY <1>1, <1>2, InvariantMeans, PTL DEF SubmissionSpec

-----------------------------------------------------------------------------
(* PipelineRunner: the pipelines end with the program.                     *)

FrameType == [do : {"start", "handler", "terminate"}, p : Pipelines,
              step : {"popen", "atexit", "signals", "exit", "poll", "sleep"}]

RunnerTypeOK ==
  /\ program \in {"running", "exiting", "ended"} /\ frames \in Seq(FrameType)
  /\ launched \in 0..Launches /\ handler \in 0..Launches /\ port \in 0..Launches
  /\ leader \in [Pipelines -> {"none", "forked", "running", "told", "dead"}]
  /\ registered \in Seq(Pipelines)
  /\ disturbed \in BOOLEAN /\ killed \in BOOLEAN

Past(p) == leader[p] \in {"running", "told", "dead"}
Registered(p) == \E i \in DOMAIN registered : registered[i] = p
Base == frames[1]

\* A launch is at the bottom of the stack, and what a signal put above it is about
\* the pipeline of the handlers: that one is dead when its handler comes to its exit.
Stacked ==
  \A i \in DOMAIN frames :
    /\ frames[i].do = "start" => i = 1 /\ frames[i].step \in {"popen", "atexit", "signals"}
    /\ frames[i].do = "handler" => frames[i].step = "exit"
    /\ frames[i].do = "terminate" => frames[i].step \in {"poll", "sleep"} /\ Past(frames[i].p)
    /\ i > 1 \/ frames[i].do = "handler" => frames[i].p = handler
    /\ frames[i].do = "handler" /\ i = Len(frames) => leader[handler] = "dead"

\* The launch under way is the only one the handlers do not know yet.
Launching ==
  program = "running" =>
    /\ ~disturbed
    /\ IF frames # <<>> /\ Base.do = "start"
       THEN /\ Base.p = launched /\ handler = launched - 1
            /\ Base.step # "popen" => Past(launched)
            /\ Base.step = "signals" => Registered(launched)
       ELSE handler = launched
    /\ \A p \in Pipelines : p <= handler => Registered(p)

\* While the program exits, what no signal disturbs is terminated in the end.
Exiting ==
  /\ program = "exiting" =>
       /\ \A p \in Pipelines : p <= handler /\ (~disturbed \/ p = handler) =>
            \/ Registered(p) \/ leader[p] = "dead"
            \/ frames # <<>> /\ Base.do = "terminate" /\ Base.p = p
       /\ frames # <<>> => Base.do # "start"
       /\ ~disturbed => \A i \in DOMAIN frames : frames[i].do # "handler"
  /\ program = "ended" => frames = <<>>
  /\ program # "ended" => ~killed

Known ==
  /\ \A p \in Pipelines : p <= launched <=> leader[p] # "none"
  /\ \A p \in Pipelines : p <= handler => Past(p)
  /\ \A i \in DOMAIN registered : Past(registered[i])

RunnerInv == RunnerTypeOK /\ Stacked /\ Launching /\ Exiting /\ Known /\ NoneOutlives

-----------------------------------------------------------------------------
(* Stacks and lists.                                                       *)

LEMMA LastOut ==
  ASSUME NEW S, NEW s \in Seq(S), s # <<>>
  PROVE  /\ Len(s) \in Nat \ {0} /\ DOMAIN s = 1..Len(s) /\ Last(s) = s[Len(s)] /\ Last(s) \in S
         /\ Front(s) \in Seq(S) /\ Len(Front(s)) = Len(s) - 1 /\ DOMAIN Front(s) = 1..(Len(s) - 1)
         /\ \A i \in 1..(Len(s) - 1) : Front(s)[i] = s[i]
<1>1. Len(s) \in Nat \ {0} /\ DOMAIN s = 1..Len(s)
  BY LenProperties, EmptySeq
<1>2. Last(s) = s[Len(s)] /\ Last(s) \in S
  BY <1>1, ElementOfSeq DEF Last
<1>3. 1 \in 1..(Len(s) + 1) /\ Len(s) - 1 \in 0..Len(s)
  BY <1>1
<1>4. /\ Front(s) \in Seq(S)
      /\ Len(Front(s)) = IF 1 <= Len(s) - 1 THEN (Len(s) - 1) - 1 + 1 ELSE 0
      /\ \A i \in 1..(Len(s) - 1) : Front(s)[i] = s[1 + i - 1]
  BY <1>1, <1>3, SubSeqProperties DEF Front
<1>5. Len(Front(s)) = Len(s) - 1
  <2>1. CASE Len(s) = 1
    BY <1>4, <2>1
  <2>2. CASE 1 <= Len(s) - 1
    <3>1. Len(Front(s)) = (Len(s) - 1) - 1 + 1
      BY <1>4, <2>2
    <3> QED
      BY <1>1, <3>1
  <2>3. Len(s) = 1 \/ 1 <= Len(s) - 1
    BY <1>1
  <2> QED
    BY <2>1, <2>2, <2>3
<1>6. DOMAIN Front(s) = 1..(Len(s) - 1)
  BY <1>4, <1>5, LenProperties
<1>7. \A i \in 1..(Len(s) - 1) : Front(s)[i] = s[i]
  <2> SUFFICES ASSUME NEW i \in 1..(Len(s) - 1) PROVE Front(s)[i] = s[i]
    OBVIOUS
  <2>1. 1 + i - 1 = i
    BY <1>1
  <2> QED
    BY <1>4, <2>1
<1> QED
  BY <1>1, <1>2, <1>4, <1>5, <1>6, <1>7

LEMMA StepSet ==
  ASSUME RunnerTypeOK, frames # <<>>,
         NEW step \in {"popen", "atexit", "signals", "exit", "poll", "sleep"}, Goto(step)
  PROVE  /\ frames' \in Seq(FrameType) /\ Len(frames') = Len(frames)
         /\ DOMAIN frames' = DOMAIN frames /\ frames' # <<>>
         /\ \A i \in DOMAIN frames : i # Len(frames) => frames'[i] = frames[i]
         /\ frames'[Len(frames)].do = Top.do /\ frames'[Len(frames)].p = Top.p
         /\ frames'[Len(frames)].step = step
<1>1. Len(frames) \in DOMAIN frames /\ Top = frames[Len(frames)] /\ Top \in FrameType
      /\ frames \in Seq(FrameType) /\ DOMAIN frames = 1..Len(frames)
  BY LastOut DEF Top, RunnerTypeOK
<1>2. [Top EXCEPT !.step = step] \in FrameType
  BY <1>1 DEF FrameType
<1>3. frames' = [frames EXCEPT ![Len(frames)] = [Top EXCEPT !.step = step]]
  BY <1>1 DEF Goto
<1>4. frames' \in Seq(FrameType) /\ Len(frames') = Len(frames)
  BY <1>1, <1>2, <1>3, ExceptSeq, LenProperties
<1>5. DOMAIN frames' = DOMAIN frames /\ \A i \in DOMAIN frames : i # Len(frames) => frames'[i] = frames[i]
  BY <1>3
<1>6. frames'[Len(frames)] = [Top EXCEPT !.step = step]
  BY <1>1, <1>3
<1>7. frames' # <<>>
  BY <1>1, <1>5, EmptySeq
<1> QED
  BY <1>1, <1>4, <1>5, <1>6, <1>7 DEF FrameType

LEMMA FramesFact ==
  ASSUME RunnerTypeOK, frames # <<>>
  PROVE  /\ Len(frames) \in Nat \ {0} /\ DOMAIN frames = 1..Len(frames) /\ Len(frames) \in DOMAIN frames
         /\ 1 \in DOMAIN frames /\ Top = frames[Len(frames)] /\ Top \in FrameType /\ Top.p \in Pipelines
         /\ \A i \in DOMAIN frames : frames[i] \in FrameType /\ frames[i].p \in Pipelines
<1>1. frames \in Seq(FrameType)
  BY DEF RunnerTypeOK
<1>2. /\ Len(frames) \in Nat \ {0} /\ DOMAIN frames = 1..Len(frames)
      /\ Top = frames[Len(frames)] /\ Top \in FrameType
  BY <1>1, LastOut DEF Top
<1>3. \A i \in DOMAIN frames : frames[i] \in FrameType
  BY <1>1, <1>2, ElementOfSeq
<1> QED
  BY <1>2, <1>3 DEF FrameType

LEMMA PipelinesFact == Launches \in Nat /\ \A p \in Pipelines : p \in 0..Launches /\ p \in Nat /\ p # 0
  BY RunnerAssumption DEF Pipelines

\* A launch is the only frame there is.
LEMMA OnlyFrame ==
  ASSUME RunnerInv, NEW step, In("start", step)
  PROVE  /\ Len(frames) = 1 /\ Top = Base /\ Base.do = "start" /\ Base.step = step /\ frames # <<>>
         /\ program = "running" /\ DOMAIN frames = {1}
         /\ Base.p = launched /\ handler = launched - 1 /\ launched \in Pipelines
<1>1. frames # <<>> /\ Top.do = "start" /\ Top.step = step
  BY DEF In
<1>2. /\ Len(frames) \in DOMAIN frames /\ Top = frames[Len(frames)] /\ DOMAIN frames = 1..Len(frames)
      /\ Top.p \in Pipelines
  BY <1>1, FramesFact DEF RunnerInv
<1>3. Len(frames) = 1 /\ Top = Base
  BY <1>1, <1>2 DEF RunnerInv, Stacked, Base
<1>4. program = "running"
  BY <1>1, <1>3 DEF RunnerInv, Exiting, RunnerTypeOK
<1>5. DOMAIN frames = {1}
  BY <1>2, <1>3
<1> QED
  BY <1>1, <1>2, <1>3, <1>4, <1>5 DEF RunnerInv, Launching

LEMMA RunnerStarts == RunnerInit => RunnerInv
<1> SUFFICES ASSUME RunnerInit PROVE RunnerInv
  OBVIOUS
<1>1. DOMAIN frames = {} /\ DOMAIN registered = {} /\ frames \in Seq(FrameType) /\ registered \in Seq(Pipelines)
  BY EmptySeq DEF RunnerInit
<1>2. RunnerTypeOK
  <2>1. 0 \in 0..Launches
    BY PipelinesFact
  <2> QED
    BY <1>1, <2>1 DEF RunnerInit, RunnerTypeOK
<1>3. \A p \in Pipelines : ~(p <= handler)
  BY PipelinesFact DEF RunnerInit
<1>4. Stacked
  BY <1>1 DEF Stacked
<1>5. Launching /\ Exiting /\ Known /\ NoneOutlives
  BY <1>1, <1>3 DEF RunnerInit, Launching, Exiting, Known, NoneOutlives
<1> QED
  BY <1>2, <1>4, <1>5 DEF RunnerInv

-----------------------------------------------------------------------------
(* The pipelines by themselves.                                            *)

LEMMA Ending ==
  ASSUME RunnerTypeOK, NoneOutlives
  PROVE  program = "ended" => \A p \in Pipelines :
           /\ p <= handler => leader[p] \in {"told", "dead"}
           /\ p <= handler /\ ~killed /\ (~disturbed \/ p = handler) => leader[p] = "dead"
<1>1. \A p \in Pipelines : p <= handler => handler >= p
  BY PipelinesFact DEF RunnerTypeOK
<1> QED
  BY <1>1 DEF NoneOutlives

LEMMA LeadersMove ==
  ASSUME RunnerInv, leader' \in [Pipelines -> {"none", "forked", "running", "told", "dead"}],
         port' \in 0..Launches, port' # 0 => leader'[port'] \in {"running", "told"},
         \A p \in Pipelines : /\ Past(p) => Past(p)'
                              /\ leader[p] = "dead" => leader'[p] = "dead"
                              /\ leader[p] = "told" => leader'[p] \in {"told", "dead"}
                              /\ leader[p] = "none" <=> leader'[p] = "none",
         UNCHANGED <<program, frames, launched, registered, handler, disturbed, killed>>
  PROVE  RunnerInv'
<1>1. RunnerTypeOK'
  BY DEF RunnerInv, RunnerTypeOK
<1>2. \A i \in DOMAIN frames : frames[i].p \in Pipelines
  BY FramesFact, EmptySeq DEF RunnerInv, RunnerTypeOK
<1>3. \A i \in DOMAIN frames : frames[i].do = "handler" => handler \in Pipelines
  BY <1>2 DEF RunnerInv, Stacked
<1>4. Stacked'
  BY <1>2, <1>3 DEF RunnerInv, Stacked
<1>5. \A i \in DOMAIN registered : registered[i] \in Pipelines
  BY ElementOfSeq, LenProperties DEF RunnerInv, RunnerTypeOK
<1>6. Known'
  BY <1>5 DEF RunnerInv, Known
<1>7. Launching'
  <2>1. program = "running" /\ frames # <<>> /\ Base.do = "start" => launched \in Pipelines
    BY FramesFact DEF RunnerInv, Launching, Base
  <2> QED
    BY <2>1 DEF RunnerInv, Launching, Registered, Base
<1>8. Exiting'
  BY DEF RunnerInv, Exiting, Registered, Base
<1>9. NoneOutlives'
  BY DEF RunnerInv, NoneOutlives
<1> QED
  BY <1>1, <1>4, <1>6, <1>7, <1>8, <1>9 DEF RunnerInv

LEMMA PipelineKeeps ==
  ASSUME RunnerInv, NEW p \in Pipelines, Exec(p) \/ Listen(p) \/ Die(p)
  PROVE  RunnerInv'
<1>1. leader \in [Pipelines -> {"none", "forked", "running", "told", "dead"}] /\ port \in 0..Launches
      /\ (port # 0 => port \in Pipelines /\ leader[port] \in {"running", "told"})
  BY PipelinesFact DEF RunnerInv, RunnerTypeOK, NoneOutlives, Pipelines
<1>2. CASE Exec(p)
  <2>1. leader'[p] = "running" /\ leader[p] = "forked" /\ \A q \in Pipelines : q # p => leader'[q] = leader[q]
    BY <1>1, <1>2 DEF Exec
  <2> QED
    BY <1>1, <1>2, <2>1, LeadersMove DEF Exec, Past
<1>3. CASE Listen(p)
  <2>1. CASE port = 0
    BY <1>1, <1>3, <2>1, PipelinesFact, LeadersMove DEF Listen, Past
  <2>2. CASE port # 0
    <3>1. leader'[p] = "dead" /\ port # p /\ port' = port /\ \A q \in Pipelines : q # p => leader'[q] = leader[q]
      BY <1>1, <1>3, <2>2 DEF Listen
    <3> QED
      BY <1>1, <1>3, <2>2, <3>1, LeadersMove DEF Listen, Past
  <2> QED
    BY <2>1, <2>2
<1>4. CASE Die(p)
  <2>1. leader'[p] = "dead" /\ \A q \in Pipelines : q # p => leader'[q] = leader[q]
    BY <1>1, <1>4 DEF Die
  <2>2. port' = IF port = p THEN 0 ELSE port
    BY <1>4 DEF Die
  <2>3. 0 \in 0..Launches
    BY PipelinesFact
  <2> QED
    BY <1>1, <1>4, <2>1, <2>2, <2>3, LeadersMove DEF Die, Past
<1> QED
  BY <1>2, <1>3, <1>4

-----------------------------------------------------------------------------
(* Launches.                                                               *)

LEMMA StartKeeps ==
  ASSUME RunnerInv, Start
  PROVE  RunnerInv'
<1>1. /\ program = "running" /\ frames = <<>> /\ port = 0 /\ launched' = launched + 1
      /\ frames' = <<Frame("start", launched + 1, "popen")>>
      /\ leader' = [leader EXCEPT ![launched + 1] = "forked"]
      /\ UNCHANGED <<program, port, registered, handler, disturbed, killed>>
  BY DEF Start, is_port_in_use
<1>2. launched \in Nat /\ launched + 1 \in Pipelines /\ launched + 1 \in 0..Launches
  BY PipelinesFact DEF RunnerInv, RunnerTypeOK, Start, Pipelines
<1>3. /\ leader'[launched + 1] = "forked"
      /\ \A p \in Pipelines : p # launched + 1 => leader'[p] = leader[p]
  BY <1>1, <1>2 DEF RunnerInv, RunnerTypeOK
<1>4. Frame("start", launched + 1, "popen") \in FrameType
  BY <1>2 DEF Frame, FrameType
<1>5. frames' \in Seq(FrameType) /\ DOMAIN frames' = {1} /\ frames'[1] = Frame("start", launched + 1, "popen")
      /\ frames' # <<>>
  BY <1>1, <1>4, EmptySeq
<1>6. RunnerTypeOK'
  BY <1>1, <1>2, <1>5 DEF RunnerInv, RunnerTypeOK
<1>7. handler = launched
  BY <1>1 DEF RunnerInv, Launching
<1>8. \A p \in Pipelines : p \in Nat
  BY PipelinesFact
<1>9. leader[launched + 1] = "none"
  BY <1>2 DEF RunnerInv, Known, RunnerTypeOK
<1>10. \A p \in Pipelines : Past(p) => Past(p)'
  BY <1>3, <1>9 DEF Past
<1>11. Known'
  <2>1. \A p \in Pipelines : p <= launched + 1 <=> p <= launched \/ p = launched + 1
    BY <1>2, <1>8
  <2>2. \A p \in Pipelines : p <= launched + 1 <=> leader'[p] # "none"
    BY <1>3, <2>1 DEF RunnerInv, Known
  <2>3. \A i \in DOMAIN registered : registered[i] \in Pipelines
    BY ElementOfSeq, LenProperties DEF RunnerInv, RunnerTypeOK
  <2> QED
    BY <1>1, <1>10, <2>2, <2>3 DEF RunnerInv, Known
<1>12. Stacked'
  BY <1>5 DEF Stacked, Frame
<1>13. Launching'
  <2>1. Base' = Frame("start", launched + 1, "popen")
    BY <1>5 DEF Base
  <2>2. Base'.do = "start" /\ Base'.p = launched + 1 /\ Base'.step = "popen"
    BY <2>1 DEF Frame
  <2>3. handler' = launched' - 1
    BY <1>1, <1>2, <1>7
  <2> QED
    BY <1>1, <2>2, <2>3 DEF RunnerInv, Launching, Registered
<1>14. Exiting' /\ NoneOutlives'
  BY <1>1 DEF RunnerInv, Exiting, NoneOutlives
<1> QED
  BY <1>6, <1>11, <1>12, <1>13, <1>14 DEF RunnerInv

\* A launch goes on: the pipeline has been executed, and its callback registered.
LEMMA LaunchGoesOn ==
  ASSUME RunnerInv, Popen \/ RegisterAtexit
  PROVE  RunnerInv'
<1>1. PICK step \in {"atexit", "signals"} :
        /\ Goto(step)
        /\ step = "atexit" => In("start", "popen") /\ leader[Top.p] # "forked" /\ UNCHANGED registered
        /\ step = "signals" => In("start", "atexit") /\ registered' = Append(registered, Top.p)
  BY DEF Popen, RegisterAtexit
<1>2. UNCHANGED <<program, launched, leader, port, handler, disturbed, killed>>
  BY DEF Popen, RegisterAtexit
<1>3. /\ Len(frames) = 1 /\ Top = Base /\ Base.do = "start" /\ frames # <<>>
      /\ program = "running" /\ DOMAIN frames = {1}
      /\ Base.p = launched /\ handler = launched - 1 /\ launched \in Pipelines
      /\ step = "signals" => Base.step = "atexit"
  BY <1>1, OnlyFrame
<1>5. /\ frames' \in Seq(FrameType) /\ DOMAIN frames' = {1} /\ frames' # <<>>
      /\ frames'[1].do = "start" /\ frames'[1].p = launched /\ frames'[1].step = step
  BY <1>1, <1>3, StepSet DEF RunnerInv
<1>6. registered \in Seq(Pipelines) /\ registered' \in Seq(Pipelines)
  BY <1>1, <1>3, AppendProperties DEF RunnerInv, RunnerTypeOK
<1>7. Past(launched)
  <2>1. leader[launched] # "none"
    BY <1>3, PipelinesFact DEF RunnerInv, Known
  <2> QED
    BY <1>1, <1>3, <2>1 DEF RunnerInv, RunnerTypeOK, Past, Launching
<1>8. /\ \A p : Registered(p) => Registered(p)'
      /\ \A i \in DOMAIN registered' : Past(registered'[i])
      /\ step = "signals" => Registered(launched)'
  <2>1. CASE step = "atexit"
    <3>1. UNCHANGED registered /\ step # "signals"
      BY <1>1, <2>1
    <3> QED
      BY <3>1 DEF Registered, RunnerInv, Known
  <2>2. CASE step = "signals"
    <3>1. /\ DOMAIN registered = 1..Len(registered) /\ Len(registered) \in Nat
          /\ DOMAIN registered' = 1..(Len(registered) + 1)
          /\ \A i \in 1..Len(registered) : registered'[i] = registered[i]
          /\ registered'[Len(registered) + 1] = launched
      BY <1>1, <1>3, <1>6, <2>2, AppendProperties, LenProperties
    <3>2. \A i \in DOMAIN registered : i \in DOMAIN registered'
      BY <3>1
    <3>3. Len(registered) + 1 \in DOMAIN registered'
      BY <3>1
    <3>4. \A i \in DOMAIN registered' : registered'[i] = launched \/ \E k \in DOMAIN registered : registered'[i] = registered[k]
      BY <3>1
    <3>5. \A p : Registered(p) => Registered(p)'
      BY <3>1, <3>2 DEF Registered
    <3>6. \A i \in DOMAIN registered' : Past(registered'[i])
      BY <1>7, <3>4 DEF RunnerInv, Known
    <3>7. Registered(launched)'
      BY <1>2, <3>1, <3>3 DEF Registered
    <3> QED
      BY <3>5, <3>6, <3>7
  <2> QED
    BY <2>1, <2>2
<1>9. RunnerTypeOK'
  BY <1>2, <1>5, <1>6 DEF RunnerInv, RunnerTypeOK
<1>10. Stacked'
  BY <1>5 DEF Stacked
<1>11. Launching'
  <2>1. Base'.do = "start" /\ Base'.p = launched /\ Base'.step = step
    BY <1>5 DEF Base
  <2>2. Past(launched)'
    BY <1>2, <1>7 DEF Past
  <2> QED
    BY <1>2, <1>3, <1>5, <1>8, <2>1, <2>2 DEF RunnerInv, Launching
<1>12. Exiting' /\ NoneOutlives'
  BY <1>2, <1>3 DEF RunnerInv, Exiting, NoneOutlives
<1>13. Known'
  BY <1>2, <1>8 DEF RunnerInv, Known, Past
<1> QED
  BY <1>9, <1>10, <1>11, <1>12, <1>13 DEF RunnerInv

LEMMA RegisterSignalsKeeps ==
  ASSUME RunnerInv, RegisterSignals
  PROVE  RunnerInv'
<1>1. In("start", "signals") /\ handler' = Top.p /\ frames' = Front(frames)
      /\ UNCHANGED <<program, launched, leader, port, registered, disturbed, killed>>
  BY DEF RegisterSignals, Leave
<1>2. /\ Len(frames) = 1 /\ Top = Base /\ Base.do = "start" /\ Base.step = "signals" /\ frames # <<>>
      /\ program = "running" /\ Base.p = launched /\ handler = launched - 1 /\ launched \in Pipelines
  BY <1>1, OnlyFrame
<1>3. frames' \in Seq(FrameType) /\ Len(frames') = 0
  BY <1>1, <1>2, LastOut DEF RunnerInv, RunnerTypeOK
<1>4. frames' = <<>> /\ DOMAIN frames' = {}
  BY <1>3, EmptySeq
<1>5. RunnerTypeOK'
  BY <1>1, <1>2, <1>3, PipelinesFact DEF RunnerInv, RunnerTypeOK
<1>6. Registered(launched) /\ Past(launched)
  BY <1>2 DEF RunnerInv, Launching
<1>7. \A p \in Pipelines : p <= launched => p <= handler \/ p = launched
  BY <1>2, PipelinesFact
<1>8. handler' = launched
  BY <1>1, <1>2
<1>9. Launching'
  BY <1>1, <1>2, <1>4, <1>6, <1>7, <1>8 DEF RunnerInv, Launching, Registered
<1>10. Known'
  BY <1>1, <1>6, <1>7, <1>8 DEF RunnerInv, Known, Past
<1>11. Stacked' /\ Exiting' /\ NoneOutlives'
  BY <1>1, <1>2, <1>4 DEF RunnerInv, Stacked, Exiting, NoneOutlives
<1> QED
  BY <1>5, <1>9, <1>10, <1>11 DEF RunnerInv

-----------------------------------------------------------------------------
(* Terminating a pipeline.                                                 *)

\* A termination is over: its pipeline is dead, and so may the handler below it
\* come to its exit.
LEMMA LeaveKeeps ==
  ASSUME RunnerInv, frames # <<>>, Top.do = "terminate", frames' = Front(frames),
         leader' = [leader EXCEPT ![Top.p] = "dead"],
         port' = IF port = Top.p THEN 0 ELSE port,
         UNCHANGED <<program, launched, registered, handler, disturbed, killed>>
  PROVE  RunnerInv'
<1>1. PICK n \in Nat \ {0} : n = Len(frames)
  BY FramesFact DEF RunnerInv
<1>2. /\ frames' \in Seq(FrameType) /\ Len(frames') = n - 1 /\ DOMAIN frames' = 1..(n - 1)
      /\ \A i \in 1..(n - 1) : frames'[i] = frames[i]
      /\ DOMAIN frames = 1..n /\ n \in DOMAIN frames /\ 1 \in DOMAIN frames
  BY <1>1, LastOut, FramesFact DEF RunnerInv, RunnerTypeOK
<1>3. PICK p \in Pipelines : p = Top.p /\ frames[n].p = p /\ frames[n].do = "terminate"
  BY <1>1, FramesFact DEF RunnerInv
<1>4. Past(p)
  BY <1>2, <1>3 DEF RunnerInv, Stacked
<1>5. leader'[p] = "dead" /\ \A q \in Pipelines : q # p => leader'[q] = leader[q]
  BY <1>3 DEF RunnerInv, RunnerTypeOK
<1>6. /\ \A q \in Pipelines : Past(q) => Past(q)'
      /\ \A q \in Pipelines : leader[q] = "dead" => leader'[q] = "dead"
      /\ \A q \in Pipelines : leader'[q] = "none" <=> leader[q] = "none"
  BY <1>4, <1>5 DEF Past
<1>7. RunnerTypeOK'
  <2>1. port' \in 0..Launches
    BY PipelinesFact DEF RunnerInv, RunnerTypeOK
  <2> QED
    BY <1>2, <2>1 DEF RunnerInv, RunnerTypeOK
<1>8. \A i \in DOMAIN frames : frames[i].p \in Pipelines
  BY FramesFact DEF RunnerInv
<1>9. Stacked'
  <2> SUFFICES ASSUME NEW i \in 1..(n - 1)
               PROVE  /\ frames[i].do = "start" => i = 1 /\ frames[i].step \in {"popen", "atexit", "signals"}
                      /\ frames[i].do = "handler" => frames[i].step = "exit"
                      /\ frames[i].do = "terminate" =>
                           frames[i].step \in {"poll", "sleep"} /\ leader'[frames[i].p] \in {"running", "told", "dead"}
                      /\ i > 1 \/ frames[i].do = "handler" => frames[i].p = handler
                      /\ frames[i].do = "handler" /\ i = n - 1 => leader'[handler] = "dead"
    BY <1>2 DEF Stacked, Past
  <2>1. i \in DOMAIN frames
    BY <1>1, <1>2
  <2>2. ASSUME i = n - 1 PROVE leader'[handler] = "dead"
    <3>1. n > 1
      BY <1>1, <2>2
    <3>2. p = handler
      BY <1>2, <1>3, <3>1 DEF RunnerInv, Stacked
    <3> QED
      BY <1>5, <3>2
  <2> QED
    BY <1>6, <1>8, <2>1, <2>2 DEF RunnerInv, Stacked, Past
<1>10. frames' # <<>> => n # 1 /\ Base' = Base
  <2>1. n = 1 => frames' = <<>>
    BY <1>2, EmptySeq
  <2>2. n # 1 => 1 \in 1..(n - 1)
    BY <1>1
  <2> QED
    BY <1>2, <2>1, <2>2 DEF Base
<1>11. frames' = <<>> => Base.do = "terminate" /\ Base.p = p
  <2>1. frames' = <<>> => n - 1 = 0
    BY <1>2, EmptySeq
  <2>2. n - 1 = 0 => n = 1
    OBVIOUS
  <2> QED
    BY <1>3, <2>1, <2>2 DEF Base
<1>12. Launching'
  <2>1. program = "running" /\ Base.do = "start" => launched \in Pipelines
    BY <1>2, <1>8 DEF RunnerInv, Launching, Base
  <2> QED
    BY <1>6, <1>10, <1>11, <2>1 DEF RunnerInv, Launching, Registered
<1>13. Exiting'
  <2>1. program # "ended"
    BY DEF RunnerInv, Exiting
  <2>2. \A i \in DOMAIN frames' : i \in DOMAIN frames /\ frames'[i] = frames[i]
    BY <1>1, <1>2
  <2>3. ASSUME program = "exiting", NEW q \in Pipelines, q <= handler, ~disturbed \/ q = handler
        PROVE  \/ Registered(q)' \/ leader'[q] = "dead"
               \/ frames' # <<>> /\ Base'.do = "terminate" /\ Base'.p = q
    <3>1. \/ Registered(q) \/ leader[q] = "dead"
          \/ frames # <<>> /\ Base.do = "terminate" /\ Base.p = q
      BY <2>3 DEF RunnerInv, Exiting
    <3>2. CASE Registered(q) \/ leader[q] = "dead"
      BY <1>6, <3>2 DEF Registered
    <3>3. CASE Base.do = "terminate" /\ Base.p = q
      BY <1>5, <1>10, <1>11, <3>3
    <3> QED
      BY <3>1, <3>2, <3>3
  <2> QED
    BY <1>10, <2>1, <2>2, <2>3 DEF RunnerInv, Exiting
<1>14. \A i \in DOMAIN registered : registered[i] \in Pipelines
  BY ElementOfSeq, LenProperties DEF RunnerInv, RunnerTypeOK
<1>15. Known'
  BY <1>6, <1>14 DEF RunnerInv, Known
<1>16. NoneOutlives'
  <2>1. port' # 0 => port' = port /\ port # p /\ port \in Pipelines
    BY <1>3, PipelinesFact DEF RunnerInv, RunnerTypeOK, Pipelines
  <2>2. port' # 0 => leader'[port'] \in {"running", "told"}
    BY <1>5, <2>1 DEF RunnerInv, NoneOutlives
  <2> QED
    BY <2>2 DEF RunnerInv, Exiting, NoneOutlives
<1> QED
  BY <1>7, <1>9, <1>12, <1>13, <1>15, <1>16 DEF RunnerInv

LEMMA TellKeeps ==
  ASSUME RunnerInv, Tell
  PROVE  RunnerInv'
<1>1. /\ frames # <<>> /\ Top.do = "terminate" /\ Top.step = "poll"
      /\ UNCHANGED <<program, launched, port, registered, handler, disturbed, killed>>
  BY DEF Tell, In
<1>2. PICK n \in Nat \ {0} : n = Len(frames)
  BY <1>1, FramesFact DEF RunnerInv
<1>3. n \in DOMAIN frames /\ DOMAIN frames = 1..n /\ 1 \in DOMAIN frames
  BY <1>1, <1>2, FramesFact DEF RunnerInv
<1>4. PICK p \in Pipelines : p = Top.p /\ frames[n].p = p /\ frames[n].do = "terminate"
  BY <1>1, <1>2, FramesFact DEF RunnerInv
<1>5. Past(p)
  BY <1>3, <1>4 DEF RunnerInv, Stacked
<1>6. CASE leader[p] = "dead"
  <2>1. frames' = Front(frames) /\ UNCHANGED leader
    BY <1>4, <1>6 DEF Tell, Leave
  <2>2. leader' = [leader EXCEPT ![Top.p] = "dead"]
    BY <1>4, <1>6, <2>1 DEF RunnerInv, RunnerTypeOK
  <2>3. port # p
    BY <1>6, PipelinesFact DEF RunnerInv, NoneOutlives
  <2>4. port' = IF port = Top.p THEN 0 ELSE port
    BY <1>1, <1>4, <2>3
  <2> QED
    BY <1>1, <2>1, <2>2, <2>4, LeaveKeeps
<1>7. CASE leader[p] # "dead"
  <2>1. Goto("sleep") /\ leader' = [leader EXCEPT ![p] = "told"]
    BY <1>4, <1>7 DEF Tell
  <2>2. leader'[p] = "told" /\ \A q \in Pipelines : q # p => leader'[q] = leader[q]
    BY <1>4, <2>1 DEF RunnerInv, RunnerTypeOK
  <2>3. /\ frames' \in Seq(FrameType) /\ Len(frames') = n /\ DOMAIN frames' = DOMAIN frames
        /\ frames' # <<>>
        /\ \A i \in DOMAIN frames : i # n => frames'[i] = frames[i]
        /\ frames'[n].do = "terminate" /\ frames'[n].p = p /\ frames'[n].step = "sleep"
    BY <1>1, <1>2, <1>4, <2>1, StepSet DEF RunnerInv
  <2>4. /\ \A q \in Pipelines : Past(q) => Past(q)'
        /\ \A q \in Pipelines : leader[q] = "dead" => leader'[q] = "dead"
        /\ \A q \in Pipelines : leader'[q] = "none" <=> leader[q] = "none"
    BY <1>5, <1>7, <2>2 DEF Past
  <2>5. RunnerTypeOK'
    BY <1>1, <2>1, <2>3 DEF RunnerInv, RunnerTypeOK
  <2>6. \A i \in DOMAIN frames : frames[i].p \in Pipelines
    BY <1>1, FramesFact DEF RunnerInv
  <2>7. Stacked'
    <3> SUFFICES ASSUME NEW i \in DOMAIN frames
                 PROVE  /\ frames'[i].do = "start" => i = 1 /\ frames'[i].step \in {"popen", "atexit", "signals"}
                        /\ frames'[i].do = "handler" => frames'[i].step = "exit"
                        /\ frames'[i].do = "terminate" =>
                             frames'[i].step \in {"poll", "sleep"} /\ leader'[frames'[i].p] \in {"running", "told", "dead"}
                        /\ i > 1 \/ frames'[i].do = "handler" => frames'[i].p = handler
                        /\ ~(frames'[i].do = "handler" /\ i = n)
      BY <1>1, <2>3 DEF Stacked, Past
    <3>1. CASE i = n
      BY <1>4, <1>5, <2>2, <2>3, <3>1 DEF RunnerInv, Stacked
    <3>2. CASE i # n
      BY <2>3, <2>4, <2>6, <3>2 DEF RunnerInv, Stacked, Past
    <3> QED
      BY <3>1, <3>2
  <2>8. Base'.do = Base.do /\ Base'.p = Base.p /\ (Base.do = "start" => Base' = Base)
    <3>1. CASE n = 1
      BY <1>4, <2>3, <3>1 DEF Base
    <3>2. CASE n # 1
      BY <1>3, <2>3, <3>2 DEF Base
    <3> QED
      BY <3>1, <3>2
  <2>9. Launching'
    <3>1. program = "running" /\ Base.do = "start" => launched \in Pipelines
      BY <1>1, <1>3, <2>6 DEF RunnerInv, Launching, Base
    <3> QED
      BY <1>1, <2>3, <2>4, <2>8, <3>1 DEF RunnerInv, Launching, Registered
  <2>10. Exiting'
    <3>1. program # "ended"
      BY <1>1 DEF RunnerInv, Exiting
    <3>2. \A i \in DOMAIN frames' : i \in DOMAIN frames /\ frames'[i].do = frames[i].do
      BY <1>4, <2>3
    <3> QED
      BY <1>1, <2>3, <2>4, <2>8, <3>1, <3>2 DEF RunnerInv, Exiting, Registered
  <2>11. \A i \in DOMAIN registered : registered[i] \in Pipelines
    BY ElementOfSeq, LenProperties DEF RunnerInv, RunnerTypeOK
  <2>12. Known'
    BY <1>1, <2>4, <2>11 DEF RunnerInv, Known
  <2>13. NoneOutlives'
    <3>1. port # 0 => leader'[port] \in {"running", "told"}
      <4>1. port # 0 => port \in Pipelines
        BY PipelinesFact DEF RunnerInv, RunnerTypeOK, Pipelines
      <4> QED
        BY <2>2, <4>1 DEF RunnerInv, NoneOutlives
    <3> QED
      BY <1>1, <3>1 DEF RunnerInv, Exiting, NoneOutlives
  <2> QED
    BY <2>5, <2>7, <2>9, <2>10, <2>12, <2>13 DEF RunnerInv
<1> QED
  BY <1>6, <1>7

LEMMA KillKeeps ==
  ASSUME RunnerInv, Kill
  PROVE  RunnerInv'
<1>1. /\ frames # <<>> /\ Top.do = "terminate" /\ frames' = Front(frames)
      /\ leader' = [leader EXCEPT ![Top.p] = "dead"]
      /\ port' = IF port = Top.p THEN 0 ELSE port
      /\ UNCHANGED <<program, launched, registered, handler, disturbed, killed>>
  BY DEF Kill, In, Leave, AfterGrace
<1> QED
  BY <1>1, LeaveKeeps

-----------------------------------------------------------------------------
(* Signals and the end of the program.                                     *)

LEMMA SignalKeeps ==
  ASSUME RunnerInv, Signal
  PROVE  RunnerInv'
<1>1. /\ program # "ended" /\ handler # 0
      /\ frames' = frames \o <<Frame("handler", handler, "exit"), Frame("terminate", handler, "poll")>>
      /\ disturbed' = (disturbed \/ program = "exiting")
      /\ UNCHANGED <<program, launched, leader, port, registered, handler, killed>>
  BY DEF Signal
<1> DEFINE more == <<Frame("handler", handler, "exit"), Frame("terminate", handler, "poll")>>
<1>2. handler \in Pipelines
  BY <1>1, PipelinesFact DEF RunnerInv, RunnerTypeOK, Pipelines
<1>3. Frame("handler", handler, "exit") \in FrameType /\ Frame("terminate", handler, "poll") \in FrameType
  BY <1>2 DEF Frame, FrameType
<1>4. /\ more \in Seq(FrameType) /\ Len(more) = 2
      /\ more[1] = Frame("handler", handler, "exit") /\ more[2] = Frame("terminate", handler, "poll")
  BY <1>3
<1>5. PICK n \in Nat : n = Len(frames) /\ DOMAIN frames = 1..n
  BY LenProperties DEF RunnerInv, RunnerTypeOK
<1> HIDE DEF more
<1>6. /\ frames' \in Seq(FrameType) /\ Len(frames') = n + 2
      /\ \A i \in 1..(n + 2) : frames'[i] = IF i <= n THEN frames[i] ELSE more[i - n]
  BY <1>1, <1>4, <1>5, ConcatProperties DEF RunnerInv, RunnerTypeOK, more
<1>7. DOMAIN frames' = 1..(n + 2) /\ frames' # <<>>
  BY <1>6, LenProperties, EmptySeq
<1>8. \A i \in 1..n : frames'[i] = frames[i] /\ i # n + 2
  BY <1>6
<1>9. frames'[n + 1] = Frame("handler", handler, "exit") /\ frames'[n + 2] = Frame("terminate", handler, "poll")
  <2>1. n + 1 \in 1..(n + 2) /\ ~(n + 1 <= n) /\ (n + 1) - n = 1
    OBVIOUS
  <2>2. n + 2 \in 1..(n + 2) /\ ~(n + 2 <= n) /\ (n + 2) - n = 2
    OBVIOUS
  <2> QED
    BY <1>4, <1>6, <2>1, <2>2
<1>10. RunnerTypeOK'
  BY <1>1, <1>6 DEF RunnerInv, RunnerTypeOK
<1>11. Past(handler)
  <2>1. handler <= handler
    BY <1>2, PipelinesFact
  <2> QED
    BY <1>2, <2>1 DEF RunnerInv, Known
<1>12. Stacked'
  <2> SUFFICES ASSUME NEW i \in 1..(n + 2)
               PROVE  /\ frames'[i].do = "start" => i = 1 /\ frames'[i].step \in {"popen", "atexit", "signals"}
                      /\ frames'[i].do = "handler" => frames'[i].step = "exit"
                      /\ frames'[i].do = "terminate" => frames'[i].step \in {"poll", "sleep"} /\ leader'[frames'[i].p] \in {"running", "told", "dead"}
                      /\ i > 1 \/ frames'[i].do = "handler" => frames'[i].p = handler
                      /\ ~(frames'[i].do = "handler" /\ i = n + 2)
    BY <1>1, <1>6, <1>7 DEF Stacked, Past
  <2>1. CASE i \in 1..n
    BY <1>1, <1>5, <1>8, <2>1 DEF RunnerInv, Stacked, Past
  <2>2. CASE i = n + 1
    <3>1. i # n + 2
      BY <2>2
    <3> QED
      BY <1>9, <2>2, <3>1 DEF Frame
  <2>3. CASE i = n + 2
    <3>1. frames'[i].do = "terminate" /\ frames'[i].p = handler /\ frames'[i].step = "poll" /\ i # 1
      BY <1>9, <2>3 DEF Frame
    <3> QED
      BY <1>1, <1>11, <3>1 DEF Past
  <2> QED
    BY <2>1, <2>2, <2>3
<1>13. /\ frames # <<>> => Base' = Base
       /\ frames = <<>> => Base'.do = "handler"
  <2>1. frames # <<>> => 1 \in 1..n
    BY <1>5, EmptySeq DEF RunnerInv, RunnerTypeOK
  <2>2. frames = <<>> => n = 0
    BY <1>5
  <2>3. n = 0 => n + 1 = 1
    OBVIOUS
  <2> QED
    BY <1>8, <1>9, <2>1, <2>2, <2>3 DEF Base, Frame
<1>14. Launching'
  BY <1>1, <1>7, <1>13 DEF RunnerInv, Launching, Registered, Past
<1>15. Exiting'
  BY <1>1, <1>7, <1>13 DEF RunnerInv, Exiting, Registered
<1>16. Known' /\ NoneOutlives'
  BY <1>1 DEF RunnerInv, Known, Past, NoneOutlives
<1> QED
  BY <1>10, <1>12, <1>14, <1>15, <1>16 DEF RunnerInv

\* The program begins to exit, or goes on to exit with its callback cut short.
LEMMA ExitKeeps ==
  ASSUME RunnerInv, SysExit \/ Exit
  PROVE  RunnerInv'
<1>1. /\ frames' = <<>> /\ program' = "exiting"
      /\ UNCHANGED <<launched, leader, port, registered, handler, disturbed, killed>>
  BY DEF SysExit, Exit
<1>2. program # "ended"
  BY DEF SysExit, Exit, In, RunnerInv, Exiting
<1>3. frames' \in Seq(FrameType) /\ DOMAIN frames' = {}
  BY <1>1, EmptySeq
<1>4. RunnerTypeOK' /\ Stacked' /\ Launching' /\ Known' /\ NoneOutlives'
  BY <1>1, <1>2, <1>3 DEF RunnerInv, RunnerTypeOK, Stacked, Launching, Known, Past, NoneOutlives
<1>5. ASSUME NEW p \in Pipelines, p <= handler, ~disturbed \/ p = handler
      PROVE  Registered(p) \/ leader[p] = "dead"
  <2>1. CASE program = "running"
    BY <1>5, <2>1 DEF RunnerInv, Launching
  <2>2. CASE program = "exiting"
    <3>1. frames # <<>> /\ Top.do = "handler"
      BY <2>2 DEF SysExit, Exit, In
    <3>2. Len(frames) \in DOMAIN frames /\ frames[Len(frames)].do = "handler"
      BY <3>1, FramesFact DEF RunnerInv
    <3>3. disturbed /\ leader[handler] = "dead"
      BY <2>2, <3>2 DEF RunnerInv, Exiting, Stacked
    <3> QED
      BY <1>5, <3>3
  <2> QED
    BY <1>2, <2>1, <2>2 DEF RunnerInv, RunnerTypeOK
<1>6. Exiting'
  BY <1>1, <1>2, <1>3, <1>5 DEF RunnerInv, Exiting, Registered
<1> QED
  BY <1>4, <1>6 DEF RunnerInv

LEMMA AtexitKeeps ==
  ASSUME RunnerInv, Atexit
  PROVE  RunnerInv'
<1>1. /\ program = "exiting" /\ frames = <<>> /\ registered # <<>>
      /\ frames' = <<Frame("terminate", Last(registered), "poll")>> /\ registered' = Front(registered)
      /\ UNCHANGED <<program, launched, leader, port, handler, disturbed, killed>>
  BY DEF Atexit
<1>2. PICK n \in Nat \ {0} : n = Len(registered)
  BY <1>1, LastOut DEF RunnerInv, RunnerTypeOK
<1>3. /\ DOMAIN registered = 1..n /\ Last(registered) = registered[n] /\ Last(registered) \in Pipelines
      /\ registered' \in Seq(Pipelines) /\ DOMAIN registered' = 1..(n - 1)
      /\ \A i \in 1..(n - 1) : registered'[i] = registered[i]
  BY <1>1, <1>2, LastOut DEF RunnerInv, RunnerTypeOK
<1>4. PICK p \in Pipelines : p = Last(registered) /\ p = registered[n]
  BY <1>3
<1>5. Frame("terminate", p, "poll") \in FrameType
  BY DEF Frame, FrameType
<1>6. frames' \in Seq(FrameType) /\ DOMAIN frames' = {1} /\ frames'[1] = Frame("terminate", p, "poll")
      /\ frames' # <<>>
  BY <1>1, <1>4, <1>5, EmptySeq
<1>7. RunnerTypeOK'
  BY <1>1, <1>3, <1>6 DEF RunnerInv, RunnerTypeOK
<1>8. n \in 1..n /\ \A i \in 1..n : i = n \/ i \in 1..(n - 1)
  BY <1>2
<1>9. Past(p)
  BY <1>3, <1>4, <1>8 DEF RunnerInv, Known
<1>10. Stacked'
  BY <1>1, <1>6, <1>9 DEF Stacked, Frame, Past
<1>11. \A q : Registered(q) => Registered(q)' \/ q = p
  BY <1>3, <1>4, <1>8 DEF Registered
<1>12. \A i \in DOMAIN registered' : i \in DOMAIN registered /\ registered'[i] = registered[i]
  BY <1>2, <1>3
<1>13. Known'
  BY <1>1, <1>12 DEF RunnerInv, Known, Past
<1>14. Base'.do = "terminate" /\ Base'.p = p
  BY <1>6 DEF Base, Frame
<1>15. Exiting'
  BY <1>1, <1>6, <1>11, <1>14 DEF RunnerInv, Exiting, Base
<1>16. Launching' /\ NoneOutlives'
  BY <1>1 DEF RunnerInv, Launching, NoneOutlives
<1> QED
  BY <1>7, <1>10, <1>13, <1>15, <1>16 DEF RunnerInv

\* The end of the program tells the pipelines that run.
LEMMA EndKeeps ==
  ASSUME RunnerInv, End \/ Killed
  PROVE  RunnerInv'
<1>1. /\ program # "ended" /\ program' = "ended" /\ leader' = Told /\ frames' = <<>>
      /\ UNCHANGED <<launched, port, registered, handler, disturbed>>
      /\ killed' \/ (program = "exiting" /\ frames = <<>> /\ registered = <<>>)
      /\ killed' \in BOOLEAN
  BY DEF End, Killed, RunnerInv, RunnerTypeOK
<1>2. \A p \in Pipelines : leader'[p] = IF leader[p] = "running" THEN "told" ELSE leader[p]
  BY <1>1 DEF Told
<1>3. leader' \in [Pipelines -> {"none", "forked", "running", "told", "dead"}]
  BY <1>1 DEF Told, RunnerInv, RunnerTypeOK
<1>4. frames' \in Seq(FrameType) /\ DOMAIN frames' = {}
  BY <1>1, EmptySeq
<1>5. RunnerTypeOK' /\ Stacked' /\ Launching' /\ Exiting'
  BY <1>1, <1>3, <1>4 DEF RunnerInv, RunnerTypeOK, Stacked, Launching, Exiting
<1>6. \A i \in DOMAIN registered : registered[i] \in Pipelines
  BY ElementOfSeq, LenProperties DEF RunnerInv, RunnerTypeOK
<1>7. \A p \in Pipelines : Past(p) => leader'[p] \in {"told", "dead"}
  BY <1>2 DEF Past
<1>8. Known'
  BY <1>1, <1>2, <1>6, <1>7 DEF RunnerInv, Known, Past
<1>9. \A p \in Pipelines : p <= handler => leader'[p] \in {"told", "dead"}
  BY <1>7 DEF RunnerInv, Known
<1>10. ASSUME NEW p \in Pipelines, p <= handler, ~killed', ~disturbed \/ p = handler
       PROVE  leader'[p] = "dead"
  <2>1. ~Registered(p)
    BY <1>1, <1>10, EmptySeq DEF Registered
  <2>2. leader[p] = "dead"
    BY <1>1, <1>10, <2>1 DEF RunnerInv, Exiting
  <2> QED
    BY <1>2, <2>2
<1>11. \A p \in Pipelines : handler >= p => p <= handler
  BY PipelinesFact DEF RunnerInv, RunnerTypeOK
<1>12. port # 0 => leader'[port] \in {"running", "told"}
  <2>1. port # 0 => port \in Pipelines
    BY PipelinesFact DEF RunnerInv, RunnerTypeOK, Pipelines
  <2> QED
    BY <1>2, <2>1 DEF RunnerInv, NoneOutlives
<1>13. NoneOutlives'
  BY <1>1, <1>9, <1>10, <1>11, <1>12 DEF NoneOutlives
<1> QED
  BY <1>5, <1>8, <1>13 DEF RunnerInv

LEMMA RunnerSteps ==
  ASSUME RunnerInv, [RunnerNext]_runnerVars
  PROVE  RunnerInv'
<1>1. CASE UNCHANGED runnerVars
  BY <1>1 DEF runnerVars, RunnerInv, RunnerTypeOK, Stacked, Launching, Exiting, Known, NoneOutlives,
              Past, Registered, Base
<1>2. ASSUME NEW p \in Pipelines, Exec(p) \/ Listen(p) \/ Die(p) PROVE RunnerInv'
  BY <1>2, PipelineKeeps
<1> QED
  BY <1>1, <1>2, StartKeeps, LaunchGoesOn, RegisterSignalsKeeps, TellKeeps, KillKeeps, SignalKeeps,
     ExitKeeps, AtexitKeeps, EndKeeps DEF RunnerNext

\* NoneOutlives: for any number of pipelines and of signals, and whenever they
\* arrive, no pipeline that was launched goes on unknowing when the program has
\* ended (start_pipeline_subprocess, _terminate_subprocess).
THEOREM NoPipelineOutlives == RunnerSpec => []NoneOutlives
<1>1. RunnerInit => RunnerInv
  BY RunnerStarts
<1>2. RunnerInv /\ [RunnerNext]_runnerVars => RunnerInv'
  BY RunnerSteps
<1>3. RunnerInv => NoneOutlives
  BY DEF RunnerInv
<1> QED
  BY <1>1, <1>2, <1>3, PTL DEF RunnerSpec

-----------------------------------------------------------------------------
(* Numbers and recursive functions of numbers.                             *)

LEMMA LeastNumber ==
  ASSUME NEW T, T \subseteq Nat, T # {}
  PROVE  \E x \in T : \A y \in T : x <= y
<1> DEFINE R == OpToRel(<, Nat)
<1>1. IsWellFoundedOn(R, Nat)
  BY NatLessThanWellFounded
<1> HIDE DEF R
<1>2. PICK x \in T : \A y \in T : ~ (<<y, x>> \in R)
  BY <1>1, WFMin
<1>3. \A y \in T : ~ (y < x)
  BY <1>2 DEF R, OpToRel
<1> QED
  BY <1>2, <1>3

LEMMA SetInduction ==
  ASSUME NEW S, 0 \in S, \A n \in Nat : n \in S => n + 1 \in S
  PROVE  \A n \in Nat : n \in S
<1> SUFFICES ASSUME Nat \ S # {} PROVE FALSE
  OBVIOUS
<1>1. PICK x \in Nat \ S : \A y \in Nat \ S : x <= y
  BY LeastNumber
<1>2. x # 0 /\ x - 1 \in Nat
  BY <1>1
<1>3. x - 1 \in S
  BY <1>1, <1>2
<1>4. x - 1 + 1 = x
  BY <1>1
<1> QED
  BY <1>1, <1>2, <1>3, <1>4

\* f is what a recursion over 0..n has for values.
Solves(f, base, rule, A, n) ==
  f \in [0..n -> A] /\ f[0] = base /\ \A k \in 1..n : f[k] = rule[k][f[k - 1]]
Steps(rule, A, n) == rule \in [1..n -> [A -> A]]

\* What a recursion over 0..n is given in steps, some function is.
LEMMA Recursion ==
  ASSUME NEW A, NEW base \in A, NEW n \in Nat, NEW rule, Steps(rule, A, n)
  PROVE  \E f : Solves(f, base, rule, A, n)
<1> USE DEF Steps
<1> DEFINE Solved(m) == \E f \in [0..m -> A] : f[0] = base /\ \A k \in 1..m : f[k] = rule[k][f[k - 1]]
           S == {m \in Nat : m <= n => Solved(m)}
<1>1. 0 \in S
  <2> DEFINE f == [k \in 0..0 |-> base]
  <2>1. f \in [0..0 -> A] /\ f[0] = base /\ \A k \in 1..0 : f[k] = rule[k][f[k - 1]]
    OBVIOUS
  <2> QED BY <2>1
<1>2. ASSUME NEW m \in Nat, m \in S PROVE m + 1 \in S
  <2> SUFFICES ASSUME m + 1 <= n PROVE Solved(m + 1)
    OBVIOUS
  <2>1. PICK f \in [0..m -> A] : f[0] = base /\ \A k \in 1..m : f[k] = rule[k][f[k - 1]]
    BY <1>2
  <2> DEFINE g == [k \in 0..(m + 1) |-> IF k = m + 1 THEN rule[m + 1][f[m]] ELSE f[k]]
  <2>2. m \in 0..m /\ m + 1 \in 1..n /\ 0 \in 0..m
    OBVIOUS
  <2>3. rule[m + 1][f[m]] \in A
    BY <2>1, <2>2
  <2>4. \A k \in 0..(m + 1) : k = m + 1 \/ k \in 0..m
    OBVIOUS
  <2>5. g \in [0..(m + 1) -> A]
    BY <2>1, <2>3, <2>4
  <2>6. \A k \in 0..m : k # m + 1 /\ k \in 0..(m + 1)
    OBVIOUS
  <2>7. g[m + 1] = rule[m + 1][f[m]] /\ \A k \in 0..m : g[k] = f[k]
    BY <2>6
  <2>8. \A k \in 1..(m + 1) : g[k] = rule[k][g[k - 1]]
    <3> SUFFICES ASSUME NEW k \in 1..(m + 1) PROVE g[k] = rule[k][g[k - 1]]
      OBVIOUS
    <3> HIDE DEF g
    <3>1. CASE k = m + 1
      <4>1. k - 1 = m
        BY <3>1
      <4> QED BY <3>1, <4>1, <2>2, <2>7
    <3>2. CASE k # m + 1
      <4>1. k \in 1..m /\ k - 1 \in 0..m /\ k \in 0..m
        BY <3>2
      <4> QED BY <4>1, <2>1, <2>7
    <3> QED BY <3>1, <3>2
  <2>9. g[0] = base
    BY <2>1, <2>2, <2>7
  <2> QED BY <2>5, <2>8, <2>9
<1> HIDE DEF S
<1>3. n \in S
  BY <1>1, <1>2, SetInduction
<1> QED BY <1>3 DEF S, Solves

-----------------------------------------------------------------------------
(* Flattened sequences.                                                    *)

\* flatten, as FlattenSeq uses it.
Flattening(f, seqs) ==
  f = [i \in 1..Len(seqs) |-> IF i = 1 THEN seqs[i] ELSE f[i - 1] \o seqs[i]]

LEMMA FlatteningExists ==
  ASSUME NEW T, NEW seqs \in Seq(Seq(T)), Len(seqs) # 0
  PROVE  \E f : Flattening(f, seqs) /\ \A i \in 1..Len(seqs) : f[i] \in Seq(T)
<1> DEFINE A == Seq(T)
<1>1. PICK n \in Nat : n = Len(seqs)
  BY LenProperties
<1>2. \A k \in 1..n : seqs[k] \in A
  BY <1>1, ElementOfSeq
<1> DEFINE rule == [k \in 1..n |-> [x \in A |-> IF k = 1 THEN seqs[k] ELSE x \o seqs[k]]]
<1>3. Steps(rule, A, n)
  <2> USE DEF Steps
  <2> SUFFICES ASSUME NEW k \in 1..n, NEW x \in A PROVE (IF k = 1 THEN seqs[k] ELSE x \o seqs[k]) \in A
    OBVIOUS
  <2> QED BY <1>2, ConcatProperties
<1>4. \A k \in 1..n, x \in A : rule[k][x] = IF k = 1 THEN seqs[k] ELSE x \o seqs[k]
  OBVIOUS
<1> DEFINE base == <<>>
<1>5. base \in A
  BY EmptySeq
<1> HIDE DEF rule, A, base
<1>6. PICK g : Solves(g, base, rule, A, n)
  BY <1>3, <1>5, Recursion
<1> DEFINE f == [i \in 1..n |-> g[i]]
           h == [i \in 1..n |-> IF i = 1 THEN seqs[i] ELSE f[i - 1] \o seqs[i]]
<1>7. ASSUME NEW k \in 1..n PROVE f[k] = h[k]
  <2>1. k - 1 \in 0..n /\ (k # 1 => k - 1 \in 1..n)
    OBVIOUS
  <2>2. g[k] = IF k = 1 THEN seqs[k] ELSE g[k - 1] \o seqs[k]
    <3>1. g[k - 1] \in A /\ g[k] = rule[k][g[k - 1]]
      BY <2>1, <1>6 DEF Solves
    <3> QED BY <3>1, <1>4
  <2> QED BY <2>1, <2>2
<1>8. f = h
  BY <1>7
<1>9. Flattening(f, seqs)
  BY <1>1, <1>8 DEF Flattening
<1>10. \A k \in 1..n : k \in 0..n
  OBVIOUS
<1>11. \A k \in 1..n : f[k] \in Seq(T)
  BY <1>6, <1>10 DEF Solves, A
<1> QED BY <1>1, <1>9, <1>11

\* Two flattenings agree on what their sequences have in common.
Begins(s, t) ==
  Len(s) \in Nat /\ Len(t) \in Nat /\ Len(s) <= Len(t) /\ \A i \in 1..Len(s) : s[i] = t[i]
Agree(f, g, s) == \A i \in 1..Len(s) : f[i] = g[i]

LEMMA FlatteningsAgree ==
  ASSUME NEW s, NEW t, NEW f, NEW g, Flattening(f, s), Flattening(g, t), Begins(s, t)
  PROVE  Agree(f, g, s)
<1> USE DEF Begins
<1> DEFINE S == {i \in Nat : i + 1 \in 1..Len(s) => f[i + 1] = g[i + 1]}
<1>1. 0 \in S
  <2> SUFFICES ASSUME 1 \in 1..Len(s) PROVE f[1] = g[1]
    OBVIOUS
  <2>1. 1 \in 1..Len(t)
    OBVIOUS
  <2> QED BY <2>1 DEF Flattening
<1>2. ASSUME NEW i \in Nat, i \in S PROVE i + 1 \in S
  <2> DEFINE k == i + 2
  <2> SUFFICES ASSUME k \in 1..Len(s) PROVE f[k] = g[k]
    OBVIOUS
  <2>1. k \in 1..Len(t) /\ k # 1 /\ k - 1 = i + 1 /\ i + 1 \in 1..Len(s)
    OBVIOUS
  <2>2. f[i + 1] = g[i + 1]
    BY <1>2, <2>1
  <2>3. f[k] = f[i + 1] \o s[k] /\ g[k] = g[i + 1] \o t[k]
    <3> HIDE DEF k
    <3> QED BY <2>1 DEF Flattening
  <2> QED BY <2>2, <2>3
<1> HIDE DEF S
<1>3. \A i \in Nat : i \in S
  BY <1>1, <1>2, SetInduction
<1>4. ASSUME NEW i \in 1..Len(s) PROVE f[i] = g[i]
  <2>1. i - 1 \in Nat /\ (i - 1) + 1 = i
    OBVIOUS
  <2>2. i - 1 \in S
    BY <1>3, <2>1
  <2> QED BY <2>1, <2>2 DEF S
<1> QED BY <1>4 DEF Agree

LEMMA FlattenIs ==
  ASSUME NEW T, NEW seqs \in Seq(Seq(T)), NEW f, Flattening(f, seqs), Len(seqs) # 0
  PROVE  FlattenSeq(seqs) = f[Len(seqs)]
<1> DEFINE g == CHOOSE g : Flattening(g, seqs)
<1>1. Flattening(g, seqs)
  OBVIOUS
<1>2. FlattenSeq(seqs) = g[Len(seqs)]
  BY DEF FlattenSeq, Flattening
<1> HIDE DEF g
<1>3. Len(seqs) \in Nat /\ Len(seqs) \in 1..Len(seqs)
  BY LenProperties
<1>4. Begins(seqs, seqs)
  BY <1>3 DEF Begins
<1>5. Agree(g, f, seqs)
  BY <1>1, <1>4, FlatteningsAgree
<1> QED BY <1>2, <1>3, <1>5 DEF Agree

LEMMA FlattenEmpty == FlattenSeq(<<>>) = <<>>
<1>1. Len(<<>>) = 0
  BY EmptySeq
<1> QED BY <1>1 DEF FlattenSeq

LEMMA FlattenAppend ==
  ASSUME NEW T, NEW seqs \in Seq(Seq(T)), NEW s \in Seq(T), FlattenSeq(seqs) \in Seq(T)
  PROVE  FlattenSeq(Append(seqs, s)) = FlattenSeq(seqs) \o s
<1> DEFINE more == Append(seqs, s)
<1>1. PICK n \in Nat : n = Len(seqs)
  BY LenProperties
<1>2. more \in Seq(Seq(T)) /\ Len(more) = n + 1 /\ (\A i \in 1..n : more[i] = seqs[i]) /\ more[n + 1] = s
  BY <1>1, AppendProperties
<1> HIDE DEF more
<1>3. PICK g : Flattening(g, more)
  BY <1>2, FlatteningExists
<1>4. FlattenSeq(more) = g[n + 1]
  BY <1>2, <1>3, FlattenIs
<1>5. CASE n = 0
  <2>1. seqs = <<>>
    BY <1>1, <1>5, EmptySeq
  <2>2. FlattenSeq(seqs) = <<>>
    BY <2>1, FlattenEmpty
  <2>3. g[1] = s
    BY <1>2, <1>3, <1>5 DEF Flattening
  <2>4. <<>> \o s = s
    OBVIOUS
  <2> QED BY <2>2, <2>3, <2>4, <1>4, <1>5 DEF more
<1>6. CASE n # 0
  <2>1. PICK f : Flattening(f, seqs)
    BY <1>1, <1>6, FlatteningExists
  <2>2. FlattenSeq(seqs) = f[n]
    BY <2>1, <1>1, <1>6, FlattenIs
  <2>3. n \in 1..n /\ n + 1 \in 1..(n + 1) /\ n + 1 # 1 /\ (n + 1) - 1 = n
    BY <1>6
  <2>4. f[n] = g[n]
    <3>1. Begins(seqs, more)
      BY <1>1, <1>2 DEF Begins
    <3>2. Agree(f, g, seqs)
      BY <3>1, <2>1, <1>3, FlatteningsAgree
    <3> QED BY <3>2, <2>3, <1>1 DEF Agree
  <2>5. g[n + 1] = g[n] \o s
    BY <2>3, <1>2, <1>3 DEF Flattening
  <2> QED BY <2>2, <2>4, <2>5, <1>4 DEF more
<1> QED BY <1>5, <1>6

LEMMA FlattenTyped ==
  ASSUME NEW T, NEW seqs \in Seq(Seq(T))
  PROVE  FlattenSeq(seqs) \in Seq(T)
<1>1. PICK n \in Nat : n = Len(seqs)
  BY LenProperties
<1>2. CASE n = 0
  <2>1. seqs = <<>>
    BY <1>1, <1>2, EmptySeq
  <2>2. <<>> \in Seq(T)
    OBVIOUS
  <2> QED BY <2>1, <2>2, FlattenEmpty
<1>3. CASE n # 0
  <2>1. Len(seqs) # 0
    BY <1>1, <1>3
  <2>2. PICK f : Flattening(f, seqs) /\ \A i \in 1..Len(seqs) : f[i] \in Seq(T)
    BY <2>1, FlatteningExists
  <2>3. FlattenSeq(seqs) = f[Len(seqs)]
    BY <2>1, <2>2, FlattenIs
  <2>4. Len(seqs) \in 1..Len(seqs)
    BY <1>1, <1>3
  <2> QED BY <2>2, <2>3, <2>4
<1> QED BY <1>2, <1>3

-----------------------------------------------------------------------------
(* Places counted and sorted.                                              *)

LEMMA CountToN ==
  ASSUME NEW n \in Nat
  PROVE  IsFiniteSet(1..n) /\ Cardinality(1..n) = n
<1>1. 1 \in Int /\ n \in Int
  OBVIOUS
<1> QED BY <1>1, FS_Interval

\* As many numbers below n have a place as there are places for them.
LEMMA EveryRankIsTaken ==
  ASSUME NEW n \in Nat, NEW f \in [1..n -> 0..(n - 1)],
         \A i \in 1..n, k \in 1..n : f[i] = f[k] => i = k
  PROVE  \A m \in 0..(n - 1) : \E i \in 1..n : f[i] = m
<1>1. IsFiniteSet(1..n) /\ Cardinality(1..n) = n
  BY CountToN
<1>2. IsFiniteSet(0..(n - 1)) /\ Cardinality(0..(n - 1)) = n
  <2>1. 0 \in Int /\ n - 1 \in Int
    OBVIOUS
  <2>2. IsFiniteSet(0..(n - 1)) /\ Cardinality(0..(n - 1)) = IF 0 > n - 1 THEN 0 ELSE (n - 1) - 0 + 1
    BY <2>1, FS_Interval
  <2>3. (IF 0 > n - 1 THEN 0 ELSE (n - 1) - 0 + 1) = n
    OBVIOUS
  <2> QED BY <2>2, <2>3
<1> DEFINE S == 1..n
           T == 0..(n - 1)
<1>3. f \in Injection(S, T)
  BY DEF Injection, IsInjective
<1>4. IsFiniteSet(T) /\ Cardinality(S) = Cardinality(T)
  BY <1>1, <1>2
<1> HIDE DEF S, T
<1>5. f \in Surjection(S, T)
  BY <1>3, <1>4, FS_Injection
<1> QED BY <1>5 DEF Surjection, S, T

\* The places that come before i when places are sorted by their keys, those of
\* equal keys as they stand.
Earlier(key, i) == {k \in DOMAIN key : key[k] < key[i] \/ (key[k] = key[i] /\ k < i)}

LEMMA RankFact ==
  ASSUME NEW n \in Nat, NEW key \in [1..n -> Nat]
  PROVE  \A m \in 1..n : \E i \in 1..n : Cardinality(Earlier(key, i)) = m - 1
<1> DEFINE rank == [i \in 1..n |-> Cardinality(Earlier(key, i))]
<1>1. IsFiniteSet(1..n) /\ Cardinality(1..n) = n
  BY CountToN
<1>2. ASSUME NEW i \in 1..n
      PROVE  IsFiniteSet(Earlier(key, i)) /\ Cardinality(Earlier(key, i)) \in 0..(n - 1)
  <2>1. Earlier(key, i) \subseteq 1..n /\ i \notin Earlier(key, i)
    BY DEF Earlier
  <2>2. IsFiniteSet(Earlier(key, i)) /\ Cardinality(Earlier(key, i)) <= n
    BY <2>1, <1>1, FS_Subset
  <2>3. Cardinality(Earlier(key, i)) # n
    BY <2>1, <1>1, FS_Subset
  <2>4. Cardinality(Earlier(key, i)) \in Nat
    BY <2>2, FS_CardinalityType
  <2> QED BY <2>2, <2>3, <2>4
<1>3. ASSUME NEW i \in 1..n, NEW k \in 1..n, i \in Earlier(key, k)
      PROVE  Cardinality(Earlier(key, i)) # Cardinality(Earlier(key, k))
  <2>1. Earlier(key, i) \subseteq Earlier(key, k)
    BY <1>3 DEF Earlier
  <2>2. i \notin Earlier(key, i)
    BY DEF Earlier
  <2> QED BY <2>1, <2>2, <1>2, <1>3, FS_Subset
<1>4. \A i \in 1..n, k \in 1..n : rank[i] = rank[k] => i = k
  <2> SUFFICES ASSUME NEW i \in 1..n, NEW k \in 1..n, i # k PROVE rank[i] # rank[k]
    OBVIOUS
  <2>1. i \in Earlier(key, k) \/ k \in Earlier(key, i)
    BY DEF Earlier
  <2> QED BY <2>1, <1>3
<1>5. rank \in [1..n -> 0..(n - 1)]
  BY <1>2
<1>6. \A i \in 1..n : rank[i] = Cardinality(Earlier(key, i))
  OBVIOUS
<1> HIDE DEF rank
<1>7. \A m \in 0..(n - 1) : \E i \in 1..n : rank[i] = m
  BY <1>4, <1>5, EveryRankIsTaken
<1>8. \A m \in 1..n : m - 1 \in 0..(n - 1)
  OBVIOUS
<1> QED BY <1>6, <1>7, <1>8

-----------------------------------------------------------------------------
(* Sequences: positions, arrangements and joins.                           *)

\* A function on the first numbers is a sequence.
LEMMA FunctionIsSeq ==
  ASSUME NEW U, NEW n \in Nat, NEW f, f = [i \in 1 .. n |-> f[i]], \A i \in 1 .. n : f[i] \in U
  PROVE  f \in Seq(U) /\ Len(f) = n /\ DOMAIN f = 1 .. n
<1>1. f \in [1 .. n -> U]
  OBVIOUS
<1>2. f \in Seq(U)
  BY <1>1, SeqDef
<1> QED BY <1>1, <1>2, LenProperties

\* InOrder puts each member of a set of positions at one place.
LEMMA InOrderFact ==
  ASSUME NEW n \in Nat, NEW S, S \subseteq 1 .. n
  PROVE  /\ Cardinality(S) \in Nat /\ DOMAIN InOrder(S) = 1 .. Cardinality(S)
         /\ \A k \in 1 .. Cardinality(S) : InOrder(S)[k] \in S
         /\ \A i \in S : \E k \in 1 .. Cardinality(S) : InOrder(S)[k] = i
         /\ \A k, m \in 1 .. Cardinality(S) : InOrder(S)[k] = InOrder(S)[m] => k = m
<1> DEFINE Below(i) == {j \in S : j < i}
           rank == [i \in S |-> Cardinality(Below(i))]
           T == 0 .. (Cardinality(S) - 1)
<1>1. IsFiniteSet(S) /\ Cardinality(S) \in Nat
  <2>1. IsFiniteSet(1 .. n)
    BY CountToN
  <2> QED BY <2>1, FS_Subset, FS_CardinalityType
<1>2. ASSUME NEW i \in S
      PROVE  IsFiniteSet(Below(i)) /\ Cardinality(Below(i)) \in T
  <2>1. Below(i) \subseteq S /\ i \notin Below(i)
    OBVIOUS
  <2> HIDE DEF Below
  <2>2. IsFiniteSet(Below(i)) /\ Cardinality(Below(i)) <= Cardinality(S)
        /\ (Cardinality(Below(i)) = Cardinality(S) => Below(i) = S)
    BY <2>1, <1>1, FS_Subset
  <2>3. Cardinality(Below(i)) \in Nat
    BY <2>2, FS_CardinalityType
  <2> QED BY <2>1, <2>2, <2>3, <1>1
<1>3. ASSUME NEW i \in S, NEW k \in S, i < k
      PROVE  Cardinality(Below(i)) # Cardinality(Below(k))
  <2>1. \A j \in S : j \in Nat
    OBVIOUS
  <2>2. i \in Nat /\ k \in Nat /\ i < k
    BY <2>1, <1>3
  <2>3. \A j \in S : j < i => j < k
    BY <2>1, <2>2
  <2>4. ~ (i < i)
    BY <2>2
  <2>5. Below(i) \subseteq Below(k) /\ i \in Below(k) /\ i \notin Below(i)
    BY <2>2, <2>3, <2>4
  <2> HIDE DEF Below
  <2> QED BY <2>5, <1>2, FS_Subset
<1>4. \A i, k \in S : Cardinality(Below(i)) = Cardinality(Below(k)) => i = k
  <2> SUFFICES ASSUME NEW i \in S, NEW k \in S, i # k PROVE Cardinality(Below(i)) # Cardinality(Below(k))
    OBVIOUS
  <2>1. i < k \/ k < i
    OBVIOUS
  <2> HIDE DEF Below
  <2> QED BY <2>1, <1>3
<1>5. rank \in Surjection(S, T)
  <2>1. rank \in Injection(S, T)
    <3> HIDE DEF Below
    <3> QED BY <1>2, <1>4 DEF Injection, IsInjective
  <2>2. IsFiniteSet(T) /\ Cardinality(T) = Cardinality(S)
    <3>1. 0 \in Int /\ Cardinality(S) - 1 \in Int
      BY <1>1
    <3>2. IsFiniteSet(T) /\ Cardinality(T) = IF 0 > Cardinality(S) - 1 THEN 0 ELSE (Cardinality(S) - 1) - 0 + 1
      BY <3>1, FS_Interval
    <3> QED BY <3>2, <1>1
  <2> HIDE DEF rank, T
  <2> QED BY <2>1, <2>2, <1>1, FS_Injection
<1>6. \A m \in T : \E i \in S : Cardinality(Below(i)) = m
  <2>1. \A i \in S : rank[i] = Cardinality(Below(i))
    OBVIOUS
  <2> HIDE DEF rank, Below
  <2> QED BY <2>1, <1>5 DEF Surjection
<1>7. \A k \in 1 .. Cardinality(S) : InOrder(S)[k] = CHOOSE i \in S : Cardinality(Below(i)) = k - 1
  BY DEF InOrder
<1>8. DOMAIN InOrder(S) = 1 .. Cardinality(S)
  BY DEF InOrder
<1>9. \A k \in 1 .. Cardinality(S) : InOrder(S)[k] \in S /\ Cardinality(Below(InOrder(S)[k])) = k - 1
  <2> SUFFICES ASSUME NEW k \in 1 .. Cardinality(S)
               PROVE  InOrder(S)[k] \in S /\ Cardinality(Below(InOrder(S)[k])) = k - 1
    OBVIOUS
  <2>1. k - 1 \in T
    BY <1>1
  <2> HIDE DEF Below, T
  <2> QED BY <2>1, <1>6, <1>7
<1>10. \A i \in S : \E k \in 1 .. Cardinality(S) : InOrder(S)[k] = i
  <2> SUFFICES ASSUME NEW i \in S PROVE \E k \in 1 .. Cardinality(S) : InOrder(S)[k] = i
    OBVIOUS
  <2> DEFINE k == Cardinality(Below(i)) + 1
  <2>1. k \in 1 .. Cardinality(S) /\ k - 1 = Cardinality(Below(i))
    <3> HIDE DEF Below
    <3> QED BY <1>1, <1>2
  <2> HIDE DEF k, Below
  <2> QED BY <2>1, <1>4, <1>9
<1>11. \A k, m \in 1 .. Cardinality(S) : InOrder(S)[k] = InOrder(S)[m] => k = m
  <2> SUFFICES ASSUME NEW k \in 1 .. Cardinality(S), NEW m \in 1 .. Cardinality(S), InOrder(S)[k] = InOrder(S)[m]
               PROVE  k = m
    OBVIOUS
  <2>1. k - 1 = m - 1
    <3> HIDE DEF Below
    <3> QED BY <1>9
  <2> QED BY <2>1, <1>1
<1> QED BY <1>1, <1>8, <1>9, <1>10, <1>11

\* new has just the rows of old at the positions in S, in some order, and what
\* tells where a row is from is as it was.
SamePlace(r, s) == r.part = s.part /\ r.raw = s.raw /\ r.lo = s.lo /\ r.hi = s.hi
Arranges(f, new, old, S) ==
  /\ f \in [DOMAIN new -> S]
  /\ \A i \in S : \E k \in DOMAIN new : f[k] = i
  /\ \A k, m \in DOMAIN new : f[k] = f[m] => k = m
  /\ \A k \in DOMAIN new : SamePlace(new[k], old[f[k]])
Arranged(new, old, S) == \E f : Arranges(f, new, old, S)

\* What a sequence has at a set of positions.
Picks(new, T, rs, S) ==
  new \in Seq(T) /\ Arranged(new, rs, S) /\ \A k \in DOMAIN new : \E i \in S : new[k] = rs[i]

\* What AtPositions takes of a sequence, arranged by the positions.
LEMMA PickedFact ==
  ASSUME NEW T, NEW rs \in Seq(T), NEW S, S \subseteq DOMAIN rs
  PROVE  Picks(AtPositions(rs, S), T, rs, S)
<1> DEFINE n == Cardinality(S)
           picked == [k \in 1 .. n |-> rs[InOrder(S)[k]]]
<1>1. PICK m \in Nat : DOMAIN rs = 1 .. m
  BY LenProperties
<1>2. /\ n \in Nat /\ DOMAIN InOrder(S) = 1 .. n
      /\ \A k \in 1 .. n : InOrder(S)[k] \in S
      /\ \A i \in S : \E k \in 1 .. n : InOrder(S)[k] = i
      /\ \A k, l \in 1 .. n : InOrder(S)[k] = InOrder(S)[l] => k = l
  BY <1>1, InOrderFact
<1>3. AtPositions(rs, S) = picked
  BY <1>2 DEF AtPositions
<1>4. \A k \in 1 .. n : rs[InOrder(S)[k]] \in T
  BY <1>2, ElementOfSeq
<1>5. picked \in Seq(T)
  BY <1>2, <1>4
<1>6. DOMAIN picked = 1 .. n /\ \A k \in 1 .. n : picked[k] = rs[InOrder(S)[k]]
  OBVIOUS
<1> DEFINE f == [k \in 1 .. n |-> InOrder(S)[k]]
<1>7. Arranges(f, picked, rs, S)
  <2>1. f \in [1 .. n -> S] /\ \A k \in 1 .. n : f[k] = InOrder(S)[k]
    BY <1>2
  <2> HIDE DEF f, picked, n
  <2> QED BY <2>1, <1>2, <1>6 DEF Arranges, SamePlace
<1> HIDE DEF f, picked, n
<1> QED BY <1>2, <1>3, <1>5, <1>6, <1>7 DEF Arranged, Picks

\* The elements of two sequences put together.
LEMMA JoinFact ==
  ASSUME NEW T, NEW a \in Seq(T), NEW b \in Seq(T)
  PROVE  /\ a \o b \in Seq(T) /\ Len(a \o b) = Len(a) + Len(b)
         /\ DOMAIN (a \o b) = 1 .. (Len(a) + Len(b))
         /\ \A k \in DOMAIN a : k \in DOMAIN (a \o b) /\ (a \o b)[k] = a[k]
         /\ \A k \in DOMAIN b : Len(a) + k \in DOMAIN (a \o b) /\ (a \o b)[Len(a) + k] = b[k]
         /\ \A k \in DOMAIN (a \o b) : k \in DOMAIN a \/ (k - Len(a) \in DOMAIN b /\ (a \o b)[k] = b[k - Len(a)])
<1>1. a \o b \in Seq(T) /\ Len(a \o b) = Len(a) + Len(b)
  BY ConcatProperties
<1>2. \A i \in 1 .. (Len(a) + Len(b)) : (a \o b)[i] = IF i <= Len(a) THEN a[i] ELSE b[i - Len(a)]
  BY ConcatProperties
<1>3. Len(a) \in Nat /\ Len(b) \in Nat /\ DOMAIN a = 1 .. Len(a) /\ DOMAIN b = 1 .. Len(b)
  BY LenProperties
<1>4. DOMAIN (a \o b) = 1 .. (Len(a) + Len(b))
  BY <1>1, LenProperties
<1> DEFINE c == a \o b
<1> HIDE DEF c
<1>5. \A k \in DOMAIN a : k \in DOMAIN c /\ c[k] = a[k]
  BY <1>2, <1>3, <1>4 DEF c
<1>6. \A k \in DOMAIN b : Len(a) + k \in DOMAIN c /\ c[Len(a) + k] = b[k]
  BY <1>2, <1>3, <1>4 DEF c
<1>7. \A k \in DOMAIN c : k \in DOMAIN a \/ (k - Len(a) \in DOMAIN b /\ c[k] = b[k - Len(a)])
  BY <1>2, <1>3, <1>4 DEF c
<1> QED BY <1>1, <1>4, <1>5, <1>6, <1>7 DEF c

\* Two arrangements of different rows make one of all of them.
LEMMA ArrangedJoin ==
  ASSUME NEW R, NEW a \in Seq(R), NEW b \in Seq(R), NEW old, NEW S, NEW T, S \cap T = {},
         Arranged(a, old, S), Arranged(b, old, T)
  PROVE  Arranged(a \o b, old, S \cup T)
<1>1. PICK f : Arranges(f, a, old, S)
  BY DEF Arranged
<1>2. PICK g : Arranges(g, b, old, T)
  BY DEF Arranged
<1> DEFINE c == a \o b
           n == Len(a)
           h == [k \in DOMAIN c |-> IF k \in DOMAIN a THEN f[k] ELSE g[k - n]]
<1>3. /\ \A k \in DOMAIN a : k \in DOMAIN c /\ c[k] = a[k]
      /\ \A k \in DOMAIN b : n + k \in DOMAIN c /\ c[n + k] = b[k]
      /\ \A k \in DOMAIN c : k \in DOMAIN a \/ (k - n \in DOMAIN b /\ c[k] = b[k - n])
      /\ DOMAIN c = 1 .. (n + Len(b))
  BY JoinFact
<1>4. n \in Nat /\ Len(b) \in Nat /\ DOMAIN a = 1 .. n /\ DOMAIN b = 1 .. Len(b)
  BY LenProperties
<1>5. \A k \in DOMAIN a : h[k] = f[k] /\ f[k] \in S
  BY <1>1, <1>3 DEF Arranges
<1>6. \A k \in DOMAIN c : k \notin DOMAIN a => h[k] = g[k - n] /\ g[k - n] \in T /\ k - n \in DOMAIN b
  <2> HIDE DEF c, n
  <2> QED BY <1>2, <1>3 DEF Arranges
<1>7. \A k \in DOMAIN b : n + k \in DOMAIN c /\ n + k \notin DOMAIN a /\ (n + k) - n = k
  <2> HIDE DEF c, n
  <2> QED BY <1>3, <1>4
<1>8. h \in [DOMAIN c -> S \cup T]
  <2> HIDE DEF c, n
  <2> QED BY <1>5, <1>6
<1> HIDE DEF h, c, n
<1>9. \A i \in S \cup T : \E k \in DOMAIN c : h[k] = i
  <2> SUFFICES ASSUME NEW i \in S \cup T PROVE \E k \in DOMAIN c : h[k] = i
    OBVIOUS
  <2>1. CASE i \in S
    <3>1. PICK k \in DOMAIN a : f[k] = i
      BY <2>1, <1>1 DEF Arranges
    <3> QED BY <3>1, <1>3, <1>5
  <2>2. CASE i \in T
    <3>1. PICK k \in DOMAIN b : g[k] = i
      BY <2>2, <1>2 DEF Arranges
    <3> QED BY <3>1, <1>6, <1>7
  <2> QED BY <2>1, <2>2
<1>10. ASSUME NEW k \in DOMAIN c, NEW m \in DOMAIN c, h[k] = h[m] PROVE k = m
  <2>1. CASE k \in DOMAIN a
    <3>1. m \in DOMAIN a
      BY <2>1, <1>5, <1>6, <1>10
    <3> QED BY <2>1, <3>1, <1>5, <1>10, <1>1 DEF Arranges
  <2>2. CASE k \notin DOMAIN a
    <3>1. m \notin DOMAIN a
      BY <2>2, <1>5, <1>6, <1>10
    <3>2. k - n = m - n
      BY <2>2, <3>1, <1>6, <1>10, <1>2 DEF Arranges
    <3> QED BY <3>2, <1>3, <1>4
  <2> QED BY <2>1, <2>2
<1>11. \A k \in DOMAIN c : SamePlace(c[k], old[h[k]])
  <2> SUFFICES ASSUME NEW k \in DOMAIN c PROVE SamePlace(c[k], old[h[k]])
    OBVIOUS
  <2>1. CASE k \in DOMAIN a
    BY <2>1, <1>1, <1>3, <1>5 DEF Arranges
  <2>2. CASE k \notin DOMAIN a
    BY <2>2, <1>2, <1>3, <1>6 DEF Arranges
  <2> QED BY <2>1, <2>2
<1>12. Arranges(h, c, old, S \cup T)
  BY <1>8, <1>9, <1>10, <1>11 DEF Arranges
<1> QED BY <1>12 DEF Arranged, c

\* Min is the least of a set of numbers.
LEMMA MinFact ==
  ASSUME NEW T, T \subseteq Nat, T # {}
  PROVE  Min(T) \in T /\ \A y \in T : Min(T) <= y
<1>1. \E x \in T : \A y \in T : x <= y
  BY LeastNumber
<1> QED BY <1>1 DEF Min

-----------------------------------------------------------------------------
(* JobPipeline: one message through the stages.                            *)

SourceTypes == Extractable \cup {"html", "text", "mp3", "wav", "unknown"}
RowTypes == SourceTypes \cup {"image", "structured", "audio", "info_msg"}
RowType == [label : Nat, part : Nat, raw : BOOLEAN, document_type : RowTypes,
         lo : Nat, hi : Nat, content : BOOLEAN,
         table_content : Nat, caption : Nat, embedding : Nat \X Nat]

\* A stage on images runs on the job.
Asks(type) == \E i \in Asked(type) : document.tasks[i].content_type = "image"

\* What node n has before it: the parts that are gone, a copy that is marked, and
\* the texts that are split.
Gone(n, p) ==
  /\ p # 1
  /\ \/ n > 7 /\ Copy(p) /\ Applied("dedup", TRUE)
     \/ n > 8 /\ Small(p) /\ Applied("filter", TRUE) /\ ~(Copy(p) /\ Applied("dedup", FALSE))
MarkedCopy(n, p) == n > 7 /\ Copy(p) /\ Applied("dedup", FALSE)
Split(n, p) == n > 12 /\ document.parts[p].type = "text" /\ Asked("split") # {}

\* The kind of a row, as the stages choose by it.
KindRight(r, n) ==
  IF r.raw THEN r.document_type = document.document_type
  ELSE IF Type(r) # "image" THEN r.document_type = Type(r)
  ELSE IF n > 8 THEN r.document_type \in {"image", "info_msg"}
  ELSE r.document_type = IF MarkedCopy(n, r.part) THEN "info_msg" ELSE "image"

\* The enrichments of a row: of its part only, and there when asked for.
EnrichmentsRight(r, n) ==
  /\ r.table_content \in {0, r.part} /\ r.caption \in {0, r.part}
  /\ r.embedding \in {<<0, 0>>, <<r.part, r.lo>>}
  /\ n <= 14 => r.embedding = <<0, 0>>
  /\ n > 9 /\ Asked("table_data_extract") # {} /\ meets_criteria(r, "table") /\ ~Part(r).small =>
       r.table_content # 0
  /\ n > 13 /\ Asked("caption") # {} /\ Type(r) = "image" => r.caption # 0
  /\ n > 14 /\ Asked("embed") # {} /\ HasPrompt(r) => r.embedding # <<0, 0>>

\* The parts that are left, of the rows made by the source or by an extractor.
Remaining(raw) == IF raw THEN {1} ELSE {p \in 2 .. Len(document.parts) : ~Unwanted(p)}

\* A text after the splitter.
CutRight(r) ==
  LET t == document.tasks[Min(Asked("split"))] IN
  IF document.document_type \in t.split_source_types /\ r.part < 2 + Cardinality(Remaining(r.raw))
  THEN r.hi < r.lo + t.chunk_size
  ELSE r.lo = 1 /\ r.hi = Part(r).len

\* The label of a row before the splitter is the place it was made in.
PlaceRight(r, n) ==
  /\ n <= 12 => r.label + 2 = IF r.raw THEN 2 ELSE r.part
  /\ n > 12 /\ Type(r) = "text" /\ Asked("split") # {} => CutRight(r)

RowRight(r, n) ==
  /\ r \in RowType /\ r.part \in DOMAIN document.parts
  /\ r.raw <=> r.part = 1
  /\ r.lo >= 1 /\ r.hi <= Part(r).len
  /\ ~Split(n, r.part) => r.lo = 1 /\ r.hi = Part(r).len
  /\ KindRight(r, n) /\ PlaceRight(r, n)
  /\ n > 7 /\ Asks("dedup") /\ r.document_type = "image" => ~Copy(r.part)
  /\ EnrichmentsRight(r, n)

\* The parts that rows are to hold, and those which they do.
Held(rs) == IF \A i \in DOMAIN rs : ~rs[i].raw THEN 2 .. Len(document.parts) ELSE {1}
Missing(rs, p) == \A i \in DOMAIN rs : rs[i].part # p
Single(rs, p) == \E i \in DOMAIN rs : \A k \in DOMAIN rs : rs[k].part = p <=> k = i
Covers(rs, p) == \A x \in (1 .. document.parts[p].len) \ document.parts[p].blank :
                   \E i \in DOMAIN rs : rs[i].part = p /\ rs[i].lo <= x /\ x <= rs[i].hi
Covered(rs, n) ==
  \A p \in DOMAIN document.parts :
    IF p \notin Held(rs) \/ Gone(n, p) THEN Missing(rs, p)
    ELSE Covers(rs, p) /\ (Single(rs, p) \/ Split(n, p))

\* Up to the first filter the rows are as they were made.
Ordered(rs) ==
  \/ Len(rs) = 1 /\ rs[1].part = 1
  \/ Len(rs) = Len(document.parts) - 1 /\ \A i \in DOMAIN rs : rs[i].part = i + 1

RowsInv(rs, n) ==
  /\ rs \in Seq(RowType)
  /\ \A i \in DOMAIN rs : RowRight(rs[i], n)
  /\ Covered(rs, n)
  /\ n <= 7 => Ordered(rs)

\* The tasks of one type are those of the job, and the first is the same.
OfType(list, type) == {i \in DOMAIN list : list[i].type = type}
SameTasks(list, type) ==
  /\ {list[i] : i \in OfType(list, type)} = {document.tasks[i] : i \in Asked(type)}
  /\ Asked(type) # {} => list[Min(OfType(list, type))] = document.tasks[Min(Asked(type))]

\* The node that takes the tasks of a type.
TakenAt == [dedup |-> 7, filter |-> 8, table_data_extract |-> 9, split |-> 12,
            caption |-> 13, embed |-> 14, store |-> 15]

OneOfAType(list) == \A i, k \in DOMAIN list : list[i].type = list[k].type => i = k

\* The tasks that the nodes before n have taken.
Took(n, t) ==
  \/ t.type = "extract" /\ \/ n > 2 /\ t.document_type = "pdf"
                           \/ n > 3 /\ t.document_type \in Images \ {"svg"}
                           \/ n > 4 /\ t.document_type = "docx"
                           \/ n > 5 /\ t.document_type = "pptx"
  \/ n > 6 /\ t.type = "audio_data_extract"
  \/ n > 7 /\ t.type = "dedup" /\ t.content_type = "image"
  \/ n > 8 /\ t.type = "filter" /\ t.content_type = "image"
  \/ n > 9 /\ t.type = "table_data_extract"
  \/ n > 10 /\ t.type = "chart_data_extract"
  \/ n > 11 /\ t.type = "infographic_data_extract"
  \/ n > 12 /\ t.type = "split"
  \/ n > 13 /\ t.type = "caption"
  \/ n > 14 /\ t.type = "embed"
  \/ n > 15 /\ t.type = "store"
  \/ n > 16 /\ t.type = "store_embedding"

TasksInv(list, n) ==
  /\ list \in Seq(ToSet(document.tasks))
  /\ \A type \in DOMAIN TakenAt : n <= TakenAt[type] => SameTasks(list, type)
  /\ OneOfAType(document.tasks) => OneOfAType(list) /\ \A i \in DOMAIN list : ~Took(n, list[i])

PipelineInv ==
  /\ document \in Jobs /\ at \in 1 .. 19 /\ cm_failed \in BOOLEAN
  /\ stats = [submitted_jobs |-> 1, completed_jobs |-> IF at = 19 /\ ~cm_failed THEN 1 ELSE 0,
              failed_jobs |-> IF at = 19 /\ cm_failed THEN 1 ELSE 0]
  /\ answer = IF at <= 17 THEN "none" ELSE IF cm_failed THEN "failure" ELSE "success"
  /\ ~cm_failed => /\ TasksInv(tasks, at) /\ RowsInv(rows, at)
                   /\ at > 15 => Asked("store") = {}

-----------------------------------------------------------------------------
(* The job.                                                                *)

\* What PipelineAssumption says of the submitted job.
LEMMA JobFact ==
  ASSUME document \in Jobs
  PROVE  /\ IsJob(document)
         /\ Len(document.parts) \in Nat \ {0} /\ DOMAIN document.parts = 1 .. Len(document.parts)
         /\ \A p \in DOMAIN document.parts : document.parts[p] \in Parts
         /\ document.tasks \in Seq(ToSet(document.tasks))
         /\ \A type : Asked(type) \subseteq Nat
         /\ \A i \in DOMAIN document.tasks : IsTask(document.tasks[i])
<1>1. IsJob(document)
  BY PipelineAssumption
<1>2. document.parts \in Seq(Parts) /\ document.parts # <<>>
  BY <1>1 DEF IsJob
<1>3. Len(document.parts) \in Nat \ {0} /\ DOMAIN document.parts = 1 .. Len(document.parts)
  BY <1>2, LenProperties, EmptySeq
<1>4. \A p \in DOMAIN document.parts : document.parts[p] \in Parts
  BY <1>2, <1>3, ElementOfSeq
<1>5. document.tasks \in Seq(ToSet(document.tasks)) /\ \A t \in ToSet(document.tasks) : IsTask(t)
  BY <1>1 DEF IsJob
<1>6. \A i \in DOMAIN document.tasks : IsTask(document.tasks[i])
  BY <1>5 DEF ToSet
<1>7. \A type : Asked(type) \subseteq Nat
  <2>1. DOMAIN document.tasks \subseteq Nat
    BY <1>5, LenProperties
  <2> QED BY <2>1 DEF Asked
<1> QED BY <1>1, <1>3, <1>4, <1>5, <1>6, <1>7

\* The flag of the task that a stage on images takes.
LEMMA FlagFact ==
  ASSUME document \in Jobs, NEW type \in {"dedup", "filter"}, Asks(type)
  PROVE  /\ document.tasks[Min(Asked(type))].filter \in BOOLEAN
         /\ \A flag : Applied(type, flag) <=> document.tasks[Min(Asked(type))].filter = flag
<1>1. Asked(type) # {} /\ Asked(type) \subseteq Nat
  BY JobFact DEF Asks
<1>2. Min(Asked(type)) \in Asked(type)
  BY <1>1, MinFact
<1>3. IsTask(document.tasks[Min(Asked(type))]) /\ document.tasks[Min(Asked(type))].type = type
  BY <1>2, JobFact DEF Asked
<1> QED BY <1>3 DEF IsTask, Applied, Asks

\* A stage on images that the job does not ask for drops and marks none.
LEMMA NotAsked ==
  ASSUME NEW type, ~Asks(type)
  PROVE  \A flag : ~Applied(type, flag)
BY DEF Asks, Applied

-----------------------------------------------------------------------------
(* Rows that are moved about.                                              *)

Sources(rs) == \A i \in DOMAIN rs : /\ rs[i].part \in DOMAIN document.parts
                                    /\ rs[i].raw \in BOOLEAN /\ (rs[i].raw <=> rs[i].part = 1)

\* What is gone or split stays so.
LEMMA GoneGrows ==
  ASSUME NEW n \in Nat
  PROVE  \A p : (Gone(n, p) => Gone(n + 1, p)) /\ (Split(n, p) => Split(n + 1, p))
<1>1. (n > 7 => n + 1 > 7) /\ (n > 8 => n + 1 > 8) /\ (n > 12 => n + 1 > 12)
  OBVIOUS
<1> QED BY <1>1 DEF Gone, Split

\* Rows put in another order, without those that are to go, hold their parts.
LEMMA ArrangedCovers ==
  ASSUME document \in Jobs, NEW old, NEW new, NEW S, NEW n \in Nat, Sources(old), Covered(old, n),
         S \subseteq DOMAIN old, Arranged(new, old, S),
         \A i \in DOMAIN old : i \in S <=> ~Gone(n + 1, old[i].part)
  PROVE  Covered(new, n + 1)
<1>1. PICK f : Arranges(f, new, old, S)
  BY DEF Arranged
<1>2. /\ \A k \in DOMAIN new : /\ f[k] \in S /\ f[k] \in DOMAIN old /\ SamePlace(new[k], old[f[k]])
      /\ \A i \in S : \E k \in DOMAIN new : f[k] = i
      /\ \A k, m \in DOMAIN new : f[k] = f[m] => k = m
  BY <1>1 DEF Arranges
<1>3. Held(new) = Held(old)
  <2>1. ASSUME NEW i \in DOMAIN old, old[i].raw PROVE \E k \in DOMAIN new : new[k].raw
    <3>1. i \in S
      BY <2>1 DEF Sources, Gone
    <3>2. PICK k \in DOMAIN new : f[k] = i
      BY <3>1, <1>2
    <3> QED BY <3>2, <1>2, <2>1 DEF SamePlace
  <2>2. ASSUME NEW k \in DOMAIN new, new[k].raw PROVE \E i \in DOMAIN old : old[i].raw
    BY <1>2, <2>2 DEF SamePlace
  <2> QED BY <2>1, <2>2 DEF Held
<1>4. ASSUME NEW p \in DOMAIN document.parts, p \notin Held(new) \/ Gone(n + 1, p)
      PROVE  Missing(new, p)
  <2> SUFFICES ASSUME NEW k \in DOMAIN new, new[k].part = p PROVE FALSE
    BY DEF Missing
  <2>1. f[k] \in S /\ f[k] \in DOMAIN old /\ old[f[k]].part = p
    BY <1>2 DEF SamePlace
  <2>2. ~Gone(n + 1, p)
    BY <2>1
  <2>3. Missing(old, p)
    BY <2>2, <1>3, <1>4 DEF Covered
  <2> QED BY <2>1, <2>3 DEF Missing
<1>5. ASSUME NEW p \in DOMAIN document.parts, p \in Held(new), ~Gone(n + 1, p)
      PROVE  Covers(new, p) /\ (Single(new, p) \/ Split(n + 1, p))
  <2>1. ~Gone(n, p) /\ (Split(n, p) => Split(n + 1, p))
    BY <1>5, GoneGrows
  <2>2. Covers(old, p) /\ (Single(old, p) \/ Split(n, p))
    BY <2>1, <1>3, <1>5 DEF Covered
  <2>3. ASSUME NEW i \in DOMAIN old, old[i].part = p
        PROVE  \E k \in DOMAIN new : f[k] = i /\ SamePlace(new[k], old[i])
    <3>1. i \in S
      BY <2>3, <1>5
    <3> QED BY <3>1, <1>2
  <2>4. Covers(new, p)
    <3> SUFFICES ASSUME NEW x \in (1 .. document.parts[p].len) \ document.parts[p].blank
                 PROVE  \E k \in DOMAIN new : new[k].part = p /\ new[k].lo <= x /\ x <= new[k].hi
      BY DEF Covers
    <3>1. PICK i \in DOMAIN old : old[i].part = p /\ old[i].lo <= x /\ x <= old[i].hi
      BY <2>2 DEF Covers
    <3> QED BY <3>1, <2>3 DEF SamePlace
  <2>5. ASSUME Single(old, p) PROVE Single(new, p)
    <3>1. PICK i \in DOMAIN old : \A j \in DOMAIN old : old[j].part = p <=> j = i
      BY <2>5 DEF Single
    <3>2. PICK k \in DOMAIN new : f[k] = i /\ SamePlace(new[k], old[i])
      BY <3>1, <2>3
    <3>3. ASSUME NEW m \in DOMAIN new PROVE new[m].part = p <=> m = k
      <4>1. new[m].part = old[f[m]].part /\ f[m] \in DOMAIN old
        BY <1>2 DEF SamePlace
      <4>2. new[m].part = p <=> f[m] = i
        BY <4>1, <3>1
      <4>3. f[m] = f[k] <=> m = k
        BY <1>2
      <4> QED BY <4>2, <4>3, <3>2
    <3> QED BY <3>3 DEF Single
  <2> QED BY <2>1, <2>2, <2>4, <2>5
<1> QED BY <1>4, <1>5 DEF Covered

\* One row for each, in its place.
LEMMA MappedRows ==
  ASSUME document \in Jobs, NEW old, NEW new \in Seq(RowType), NEW n \in Nat, RowsInv(old, n),
         DOMAIN new = DOMAIN old, \A i \in DOMAIN old : SamePlace(new[i], old[i]),
         \A i \in DOMAIN old : RowRight(new[i], n + 1),
         \A i \in DOMAIN old : ~Gone(n + 1, old[i].part)
  PROVE  RowsInv(new, n + 1)
<1>1. /\ old \in Seq(RowType) /\ \A i \in DOMAIN old : RowRight(old[i], n)
      /\ Covered(old, n) /\ (n <= 7 => Ordered(old))
  BY DEF RowsInv
<1>2. Sources(old)
  BY <1>1 DEF Sources, RowRight, RowType
<1> DEFINE S == DOMAIN old
           f == [k \in DOMAIN new |-> k]
<1>3. Arranged(new, old, S)
  <2>1. Arranges(f, new, old, S)
    BY DEF Arranges
  <2> QED BY <2>1 DEF Arranged
<1>4. Covered(new, n + 1)
  BY <1>1, <1>2, <1>3, ArrangedCovers
<1>5. Len(new) = Len(old)
  BY <1>1, LenProperties
<1>6. n + 1 <= 7 => Ordered(new)
  <2> SUFFICES ASSUME n + 1 <= 7 PROVE Ordered(new)
    OBVIOUS
  <2>1. Ordered(old)
    BY <1>1
  <2>2. 1 \in DOMAIN old \/ Len(old) # 1
    BY <1>1, LenProperties
  <2> QED BY <2>1, <2>2, <1>5 DEF Ordered, SamePlace
<1> QED BY <1>4, <1>6 DEF RowsInv

\* There is no row of a part that is gone.
LEMMA NoneGone ==
  ASSUME NEW rs, NEW n, RowsInv(rs, n)
  PROVE  \A i \in DOMAIN rs : ~Gone(n, rs[i].part)
<1> SUFFICES ASSUME NEW i \in DOMAIN rs, Gone(n, rs[i].part) PROVE FALSE
  OBVIOUS
<1>1. rs[i].part \in DOMAIN document.parts
  BY DEF RowsInv, RowRight
<1>2. Missing(rs, rs[i].part)
  BY <1>1 DEF RowsInv, Covered
<1> QED BY <1>2 DEF Missing

\* The node has nothing to do with a row, but that it may cut a text.
Leaves(n) ==
  /\ n = 7 => ~Asks("dedup")
  /\ n = 9 => Asked("table_data_extract") = {}
  /\ n = 13 => Asked("caption") = {}
  /\ n = 14 => Asked("embed") = {}
Passes(n) == Leaves(n) /\ (n = 12 => Asked("split") = {})

\* A row that is not moved in its document has its place.
LEMMA PlaceStays ==
  ASSUME NEW n \in Nat, NEW m \in {n, n + 1}, NEW r, NEW s, PlaceRight(r, n), m = n \/ n # 12 \/ Asked("split") = {},
         s.part = r.part, s.raw = r.raw, s.lo = r.lo, s.hi = r.hi, n <= 12 => s.label = r.label
  PROVE  PlaceRight(s, m)
<1>1. Part(s) = Part(r) /\ Type(s) = Type(r)
  BY DEF Part, Type
<1>2. (m <= 12 => n <= 12) /\ (m > 12 => n > 12 \/ (n = 12 /\ m # n))
  OBVIOUS
<1>3. CutRight(r) => CutRight(s)
  BY <1>1 DEF CutRight
<1> QED BY <1>1, <1>2, <1>3 DEF PlaceRight

\* A row that a node leaves alone is right after it.
LEMMA RowLeft ==
  ASSUME NEW n \in Nat, NEW r, RowRight(r, n), Leaves(n), PlaceRight(r, n + 1)
  PROVE  RowRight(r, n + 1)
<1>1. /\ (n + 1 > 7 => n > 7 \/ n = 7) /\ (n > 7 => n + 1 > 7) /\ (n + 1 <= 8 => n <= 8)
      /\ (n > 8 => n + 1 > 8) /\ (n + 1 > 9 => n > 9 \/ n = 9) /\ (n + 1 > 13 => n > 13 \/ n = 13)
      /\ (n + 1 > 14 => n > 14 \/ n = 14) /\ (n + 1 <= 14 => n <= 14)
  OBVIOUS
<1>2. n + 1 > 8 \/ n > 8 \/ n + 1 <= 8
  OBVIOUS
<1>3. Split(n, r.part) => Split(n + 1, r.part)
  BY GoneGrows
<1>4. KindRight(r, n + 1)
  <2>1. KindRight(r, n)
    BY DEF RowRight
  <2>2. n = 7 => \A flag : ~Applied("dedup", flag)
    BY NotAsked DEF Leaves
  <2>3. MarkedCopy(n + 1, r.part) <=> MarkedCopy(n, r.part)
    BY <2>2, <1>1 DEF MarkedCopy
  <2>4. ~(n > 8) => n <= 8
    OBVIOUS
  <2> QED BY <2>1, <2>3, <1>1, <1>2 DEF KindRight
<1>5. EnrichmentsRight(r, n + 1)
  <2>1. EnrichmentsRight(r, n)
    BY DEF RowRight
  <2> QED BY <2>1, <1>1 DEF EnrichmentsRight, Leaves
<1>6. n + 1 > 7 /\ Asks("dedup") /\ r.document_type = "image" => ~Copy(r.part)
  BY <1>1 DEF RowRight, Leaves
<1> QED BY <1>3, <1>4, <1>5, <1>6 DEF RowRight

LEMMA RowPasses ==
  ASSUME NEW n \in Nat, NEW r, RowRight(r, n), Passes(n)
  PROVE  RowRight(r, n + 1)
<1>1. PlaceRight(r, n) /\ Leaves(n) /\ (n # 12 \/ Asked("split") = {})
  BY DEF RowRight, Passes
<1>2. PlaceRight(r, n + 1)
  BY <1>1, PlaceStays
<1> QED BY <1>1, <1>2, RowLeft

\* Only the stages on images drop rows.
LEMMA StillThere ==
  ASSUME NEW n \in Nat, NEW rs, RowsInv(rs, n),
         n = 7 => ~Applied("dedup", TRUE), n = 8 => ~Applied("filter", TRUE)
  PROVE  \A i \in DOMAIN rs : ~Gone(n + 1, rs[i].part)
<1>1. (n + 1 > 7 => n > 7 \/ n = 7) /\ (n + 1 > 8 => n > 8 \/ n = 8)
  OBVIOUS
<1>2. \A p : Gone(n + 1, p) => Gone(n, p)
  BY <1>1 DEF Gone
<1> QED BY <1>2, NoneGone

\* Rows that a node leaves alone are right after it.
LEMMA SameRows ==
  ASSUME document \in Jobs, NEW n \in Nat, NEW rs, RowsInv(rs, n), Passes(n), n = 8 => ~Asks("filter")
  PROVE  RowsInv(rs, n + 1)
<1>1. rs \in Seq(RowType) /\ \A i \in DOMAIN rs : RowRight(rs[i], n)
  BY DEF RowsInv
<1>2. \A i \in DOMAIN rs : RowRight(rs[i], n + 1)
  BY <1>1, RowPasses
<1>3. \A i \in DOMAIN rs : SamePlace(rs[i], rs[i])
  BY DEF SamePlace
<1>4. \A i \in DOMAIN rs : ~Gone(n + 1, rs[i].part)
  BY NotAsked, StillThere DEF Passes, Leaves
<1> QED BY <1>1, <1>2, <1>3, <1>4, MappedRows

\* What an outcome is.
LEMMA OkFact ==
  ASSUME NEW rs
  PROVE  Ok(rs).raised = FALSE /\ Ok(rs).rows = rs /\ Raised.raised = TRUE
BY DEF Ok, Raised

-----------------------------------------------------------------------------
(* The source and the extractors.                                          *)

IsRow(r, label, part, document_type, raw) ==
  /\ r \in RowType /\ r.label = label /\ r.part = part /\ r.raw = raw /\ r.document_type = document_type
  /\ r.lo = 1 /\ r.hi = document.parts[part].len /\ r.content = TRUE
  /\ r.table_content = 0 /\ r.caption = 0 /\ r.embedding = <<0, 0>>

\* A row as Row makes it.
LEMMA RowFact ==
  ASSUME document \in Jobs, NEW label \in Nat, NEW part \in DOMAIN document.parts,
         NEW document_type \in RowTypes, NEW raw \in BOOLEAN
  PROVE  IsRow(Row(label, part, document_type, raw), label, part, document_type, raw)
<1>1. document.parts[part].len \in Nat /\ part \in Nat
  BY JobFact DEF Parts
<1> QED BY <1>1 DEF Row, RowType, IsRow

\* Such a row is right before the first filter.
LEMMA MadeRow ==
  ASSUME document \in Jobs, NEW n \in 1 .. 7, NEW label \in Nat, NEW part \in DOMAIN document.parts,
         NEW document_type, NEW raw \in BOOLEAN, raw <=> part = 1,
         document_type = IF raw THEN document.document_type ELSE document.parts[part].type,
         label + 2 = IF raw THEN 2 ELSE part
  PROVE  RowRight(Row(label, part, document_type, raw), n)
<1> DEFINE r == Row(label, part, document_type, raw)
<1>1. document_type \in RowTypes
  <2>1. document.document_type \in SourceTypes
    BY JobFact DEF IsJob, SourceTypes
  <2>2. document.parts[part].type \in {"text", "image", "structured", "audio"}
    BY JobFact DEF Parts
  <2> QED BY <2>1, <2>2 DEF RowTypes, SourceTypes
<1>2. /\ r \in RowType /\ r.part = part /\ r.raw = raw /\ r.document_type = document_type /\ r.label = label
      /\ r.lo = 1 /\ r.hi = document.parts[part].len /\ r.table_content = 0 /\ r.caption = 0
      /\ r.embedding = <<0, 0>>
  <2>1. IsRow(r, label, part, document_type, raw)
    BY <1>1, RowFact
  <2> HIDE DEF r
  <2> QED BY <2>1 DEF IsRow
<1> HIDE DEF r
<1>3. Part(r) = document.parts[part] /\ document.parts[part].len \in Nat
  BY <1>2, JobFact DEF Part, Parts
<1>4. ~(n > 7) /\ ~(n > 8) /\ ~(n > 9) /\ ~(n > 12) /\ ~(n > 13) /\ ~(n > 14) /\ n <= 14
  OBVIOUS
<1>5. KindRight(r, n)
  BY <1>2, <1>3, <1>4 DEF KindRight, Type, MarkedCopy
<1>6. EnrichmentsRight(r, n)
  BY <1>2, <1>4 DEF EnrichmentsRight
<1>7. r.lo >= 1 /\ r.hi <= Part(r).len
  BY <1>2, <1>3
<1>8. PlaceRight(r, n)
  BY <1>2, <1>4 DEF PlaceRight
<1> QED BY <1>2, <1>3, <1>4, <1>5, <1>6, <1>7, <1>8 DEF RowRight, r

\* The one row of the source.
LEMMA SourceRows ==
  ASSUME document \in Jobs
  PROVE  RowsInv(<<Row(0, 1, document.document_type, TRUE)>>, 1)
<1> DEFINE r == Row(0, 1, document.document_type, TRUE)
           rs == <<r>>
<1>1. 1 \in DOMAIN document.parts
  BY JobFact
<1>2. RowRight(r, 1)
  <2>1. 1 \in 1 .. 7 /\ 0 \in Nat /\ 0 + 2 = 2 /\ TRUE \in BOOLEAN /\ (TRUE <=> 1 = 1)
    OBVIOUS
  <2> HIDE DEF r
  <2>2. RowRight(Row(0, 1, document.document_type, TRUE), 1)
    BY <1>1, <2>1, MadeRow
  <2> QED BY <2>2 DEF r
<1>3. r.part = 1 /\ r.raw = TRUE /\ r.lo = 1 /\ r.hi = document.parts[1].len
  BY DEF Row
<1>4. r \in RowType
  BY <1>2 DEF RowRight
<1> HIDE DEF r
<1>5. rs \in Seq(RowType) /\ Len(rs) = 1 /\ DOMAIN rs = {1} /\ rs[1] = r
  BY <1>4
<1> HIDE DEF rs
<1>6. Held(rs) = {1}
  BY <1>3, <1>5 DEF Held
<1>7. Covered(rs, 1)
  <2> SUFFICES ASSUME NEW p \in DOMAIN document.parts
               PROVE  IF p \notin Held(rs) \/ Gone(1, p) THEN Missing(rs, p)
                      ELSE Covers(rs, p) /\ (Single(rs, p) \/ Split(1, p))
    BY DEF Covered
  <2>1. CASE p # 1
    BY <2>1, <1>3, <1>5, <1>6 DEF Missing
  <2>2. CASE p = 1
    <3>1. ~Gone(1, p)
      BY <2>2 DEF Gone
    <3>2. Covers(rs, p)
      BY <2>2, <1>3, <1>5 DEF Covers
    <3>3. Single(rs, p)
      BY <2>2, <1>3, <1>5 DEF Single
    <3> QED BY <2>2, <3>1, <3>2, <3>3, <1>6
  <2> QED BY <2>1, <2>2
<1>8. Ordered(rs)
  BY <1>3, <1>5 DEF Ordered
<1> QED BY <1>2, <1>5, <1>7, <1>8 DEF RowsInv, rs, r

\* The rows of an extractor, one for each part it finds.
LEMMA ExtractedRows ==
  ASSUME document \in Jobs, NEW n \in 2 .. 5, NEW formats,
         NEW o \in decode_and_extract(formats), ~o.raised
  PROVE  RowsInv(o.rows, n + 1)
<1> DEFINE m == Len(document.parts) - 1
           rs == [i \in 1 .. m |-> Row(i - 1, i + 1, document.parts[i + 1].type, FALSE)]
<1>1. o.rows = rs
  BY OkFact DEF decode_and_extract
<1>2. m \in Nat /\ DOMAIN document.parts = 1 .. (m + 1) /\ n + 1 \in 1 .. 7
  BY JobFact
<1>3. ASSUME NEW i \in 1 .. m
      PROVE  /\ RowRight(rs[i], n + 1) /\ rs[i].part = i + 1 /\ rs[i].raw = FALSE
             /\ rs[i].lo = 1 /\ rs[i].hi = document.parts[i + 1].len
  <2>1. i - 1 \in Nat /\ i + 1 \in DOMAIN document.parts /\ i + 1 # 1 /\ (i - 1) + 2 = i + 1
    BY <1>2
  <2>2. rs[i] = Row(i - 1, i + 1, document.parts[i + 1].type, FALSE)
    OBVIOUS
  <2>3. RowRight(rs[i], n + 1)
    BY <2>1, <2>2, <1>2, MadeRow
  <2> HIDE DEF rs
  <2> QED BY <2>2, <2>3 DEF Row
<1>4. rs \in Seq(RowType) /\ DOMAIN rs = 1 .. m /\ Len(rs) = m
  <2>1. \A i \in 1 .. m : Row(i - 1, i + 1, document.parts[i + 1].type, FALSE) \in RowType
    BY <1>3 DEF RowRight
  <2> DEFINE F(i) == Row(i - 1, i + 1, document.parts[i + 1].type, FALSE)
  <2>2. rs = [i \in 1 .. m |-> F(i)]
    OBVIOUS
  <2>3. \A i \in 1 .. m : F(i) \in RowType
    BY <2>1
  <2> HIDE DEF rs, m, F
  <2> QED BY <2>2, <2>3, <1>2
<1> HIDE DEF rs, m
<1>5. Held(rs) = 2 .. (m + 1)
  <2>1. Len(document.parts) = m + 1
    BY JobFact DEF m
  <2>2. \A i \in DOMAIN rs : ~rs[i].raw
    BY <1>3, <1>4
  <2> QED BY <2>1, <2>2 DEF Held
<1>6. Covered(rs, n + 1)
  <2> SUFFICES ASSUME NEW p \in DOMAIN document.parts
               PROVE  IF p \notin Held(rs) \/ Gone(n + 1, p) THEN Missing(rs, p)
                      ELSE Covers(rs, p) /\ (Single(rs, p) \/ Split(n + 1, p))
    BY DEF Covered
  <2>1. CASE p = 1
    <3>1. p \notin Held(rs)
      BY <2>1, <1>2, <1>5
    <3>2. \A i \in 1 .. m : i + 1 # 1
      OBVIOUS
    <3>3. Missing(rs, p)
      BY <2>1, <3>2, <1>3, <1>4 DEF Missing
    <3> QED BY <3>1, <3>3
  <2>2. CASE p # 1
    <3>1. p - 1 \in 1 .. m /\ (p - 1) + 1 = p /\ p \in Held(rs)
      BY <2>2, <1>2, <1>5
    <3>2. ~Gone(n + 1, p)
      <4>1. ~(n + 1 > 7) /\ ~(n + 1 > 8)
        OBVIOUS
      <4> QED BY <4>1 DEF Gone
    <3>3. Covers(rs, p)
      <4>1. rs[p - 1].part = p /\ rs[p - 1].lo = 1 /\ rs[p - 1].hi = document.parts[p].len
        BY <3>1, <1>3
      <4>2. document.parts[p].len \in Nat
        BY JobFact DEF Parts
      <4> QED BY <3>1, <4>1, <4>2, <1>4 DEF Covers
    <3>4. Single(rs, p)
      <4>1. \A k \in DOMAIN rs : rs[k].part = p <=> k = p - 1
        <5> SUFFICES ASSUME NEW k \in 1 .. m PROVE rs[k].part = p <=> k = p - 1
          BY <1>4
        <5>1. rs[k].part = k + 1
          BY <1>3
        <5>2. p \in Nat /\ (k + 1 = p <=> k = p - 1)
          BY <1>2
        <5> QED BY <5>1, <5>2
      <4> QED BY <4>1, <3>1, <1>4 DEF Single
    <3> QED BY <3>1, <3>2, <3>3, <3>4
  <2> QED BY <2>1, <2>2
<1>7. Ordered(rs)
  BY <1>3, <1>4 DEF Ordered, m
<1> QED BY <1>1, <1>3, <1>4, <1>6, <1>7 DEF RowsInv

-----------------------------------------------------------------------------
(* The rows while there are images to filter.                              *)

\* The rows of a payload, one by one.
LEMMA RowsFact ==
  ASSUME document \in Jobs, NEW rs, NEW n, RowsInv(rs, n)
  PROVE  /\ rs \in Seq(RowType) /\ Len(rs) \in Nat /\ DOMAIN rs = 1 .. Len(rs)
         /\ \A i \in DOMAIN rs : rs[i] \in RowType /\ RowRight(rs[i], n)
         /\ Sources(rs) /\ Covered(rs, n)
<1>1. rs \in Seq(RowType) /\ \A i \in DOMAIN rs : RowRight(rs[i], n)
  BY DEF RowsInv
<1>2. Len(rs) \in Nat /\ DOMAIN rs = 1 .. Len(rs)
  BY <1>1, LenProperties
<1>3. \A i \in DOMAIN rs : rs[i] \in RowType
  BY <1>1 DEF RowRight
<1>4. Sources(rs)
  BY <1>1 DEF Sources, RowRight, RowType
<1> QED BY <1>1, <1>2, <1>3, <1>4 DEF RowsInv

\* The rows whose content has been popped.
LEMMA AudioRows ==
  ASSUME document \in Jobs, RowsInv(rows, 6), NEW t, NEW o \in _transcribe_audio(t), ~o.raised
  PROVE  RowsInv(o.rows, 7)
<1> DEFINE new == [i \in DOMAIN rows |-> [rows[i] EXCEPT !.content = FALSE]]
<1>1. o.rows = new
  BY OkFact DEF _transcribe_audio
<1>2. /\ rows \in Seq(RowType) /\ Len(rows) \in Nat /\ DOMAIN rows = 1 .. Len(rows)
      /\ \A i \in DOMAIN rows : rows[i] \in RowType /\ RowRight(rows[i], 6)
  BY RowsFact
<1>3. ASSUME NEW i \in DOMAIN rows
      PROVE  new[i] \in RowType /\ SamePlace(new[i], rows[i]) /\ RowRight(new[i], 7)
  <2> DEFINE r == rows[i]
             s == new[i]
  <2>1. r \in RowType /\ RowRight(r, 6)
    BY <1>2
  <2>2. s = [r EXCEPT !.content = FALSE]
    OBVIOUS
  <2> HIDE DEF r, s
  <2>3. /\ s \in RowType /\ s.part = r.part /\ s.raw = r.raw /\ s.lo = r.lo /\ s.hi = r.hi
        /\ s.document_type = r.document_type /\ s.table_content = r.table_content /\ s.label = r.label
        /\ s.caption = r.caption /\ s.embedding = r.embedding
    BY <2>1, <2>2 DEF RowType
  <2>4. RowRight(r, 7)
    BY <2>1, RowPasses DEF Passes, Leaves
  <2>5. RowRight(s, 7)
    <3>1. PlaceRight(s, 7)
      BY <2>3, <2>4 DEF RowRight, PlaceRight
    <3> QED BY <3>1, <2>3, <2>4 DEF RowRight, KindRight, EnrichmentsRight, Part, Type
  <2> QED BY <2>3, <2>5 DEF SamePlace, r, s
<1>4. DOMAIN new = DOMAIN rows /\ new \in Seq(RowType)
  <2>1. new = [i \in 1 .. Len(rows) |-> new[i]]
    BY <1>2
  <2> HIDE DEF new
  <2> QED BY <2>1, <1>2, <1>3, FunctionIsSeq
<1> HIDE DEF new
<1>5. PICK n : n = 6
  OBVIOUS
<1>6. n \in Nat /\ n # 7 /\ n # 8 /\ n + 1 = 7 /\ RowsInv(rows, n)
  BY <1>5
<1>7. \A i \in DOMAIN rows : ~Gone(n + 1, rows[i].part)
  BY <1>6, StillThere
<1>8. RowsInv(new, n + 1)
  BY <1>3, <1>4, <1>6, <1>7, MappedRows
<1> QED BY <1>1, <1>6, <1>8

\* No document is of the type that images have once they are extracted.
LEMMA RawFact ==
  ASSUME document \in Jobs
  PROVE  document.document_type \notin {"image", "info_msg", "structured", "audio"}
BY JobFact DEF IsJob, Extractable, Images

\* Which rows the filters take for images.
LEMMA ImageFact ==
  ASSUME document \in Jobs, NEW n \in {7, 8}, RowsInv(rows, n), NEW i \in DOMAIN rows
  PROVE  IsImage(i) <=> rows[i].part # 1 /\ Type(rows[i]) = "image" /\ ~MarkedCopy(n, rows[i].part)
<1>1. RowRight(rows[i], n)
  BY RowsFact
<1>2. KindRight(rows[i], n) /\ (rows[i].raw <=> rows[i].part = 1) /\ rows[i].raw \in BOOLEAN
  BY <1>1 DEF RowRight, RowType
<1>3. ~(n > 8)
  OBVIOUS
<1> QED BY <1>2, <1>3, RawFact DEF KindRight, IsImage

\* Up to the first filter the duplicates are the copies of an earlier part.
LEMMA DuplicatesFact ==
  ASSUME document \in Jobs, RowsInv(rows, 7), NEW i \in DOMAIN rows
  PROVE  i \in Duplicates <=> rows[i].part # 1 /\ Copy(rows[i].part)
<1>1. Ordered(rows) /\ Len(rows) \in Nat /\ DOMAIN rows = 1 .. Len(rows)
  BY RowsFact DEF RowsInv
<1>2. \A k \in DOMAIN rows : IsImage(k) <=> rows[k].part # 1 /\ Type(rows[k]) = "image"
  <2>1. ~(7 > 7)
    OBVIOUS
  <2> QED BY <2>1, ImageFact DEF MarkedCopy
<1>3. CASE Len(rows) = 1 /\ rows[1].part = 1
  BY <1>1, <1>2, <1>3 DEF Duplicates
<1>4. CASE \A k \in DOMAIN rows : rows[k].part = k + 1
  <2>1. i \in Nat /\ i \in 1 .. Len(rows) /\ i + 1 # 1 /\ rows[i].part = i + 1
    BY <1>1, <1>4
  <2>2. \A k \in 1 .. i - 1 : k \in DOMAIN rows /\ k + 1 # 1 /\ k + 1 \in 2 .. (i + 1) - 1
    BY <2>1, <1>1
  <2>3. \A q \in 2 .. (i + 1) - 1 : q - 1 \in 1 .. i - 1 /\ (q - 1) + 1 = q
    BY <2>1
  <2>4. \A k \in DOMAIN rows : Part(rows[k]) = document.parts[k + 1]
    BY <1>4 DEF Part
  <2>5. ASSUME i \in Duplicates PROVE Copy(i + 1)
    <3>1. IsImage(i) /\ \E k \in 1 .. i - 1 : IsImage(k) /\ Part(rows[k]).hash = Part(rows[i]).hash
      BY <2>5 DEF Duplicates
    <3>2. PICK k \in 1 .. i - 1 : IsImage(k) /\ Part(rows[k]).hash = Part(rows[i]).hash
      BY <3>1
    <3>3. /\ document.parts[i + 1].type = "image" /\ document.parts[k + 1].type = "image"
          /\ document.parts[k + 1].hash = document.parts[i + 1].hash
      BY <3>1, <3>2, <2>2, <2>4, <1>2 DEF Type
    <3> QED BY <3>3, <2>2 DEF Copy
  <2>6. ASSUME Copy(i + 1) PROVE i \in Duplicates
    <3>1. PICK q \in 2 .. (i + 1) - 1 : /\ document.parts[q].type = "image"
                                        /\ document.parts[q].hash = document.parts[i + 1].hash
      BY <2>6 DEF Copy
    <3>2. document.parts[i + 1].type = "image"
      BY <2>6 DEF Copy
    <3> DEFINE k == q - 1
    <3>3. k \in 1 .. i - 1 /\ k + 1 = q /\ k \in DOMAIN rows /\ rows[k].part = q /\ q # 1
      BY <2>2, <2>3, <1>4
    <3> HIDE DEF k
    <3>4. IsImage(i) /\ IsImage(k) /\ Part(rows[k]).hash = Part(rows[i]).hash
      BY <3>1, <3>2, <3>3, <2>1, <2>4, <1>2 DEF Type
    <3> QED BY <3>3, <3>4 DEF Duplicates
  <2> QED BY <2>1, <2>5, <2>6
<1> QED BY <1>1, <1>3, <1>4 DEF Ordered

\* Rows that are marked.
LEMMA InformedFact ==
  ASSUME rows \in Seq(RowType), NEW S
  PROVE  /\ Informed(S) \in Seq(RowType) /\ DOMAIN Informed(S) = DOMAIN rows
         /\ \A i \in DOMAIN rows \ S : Informed(S)[i] = rows[i]
         /\ \A i \in DOMAIN rows \cap S : Informed(S)[i] = [rows[i] EXCEPT !.document_type = "info_msg"]
<1> DEFINE new == [i \in DOMAIN rows |-> IF i \in S THEN [rows[i] EXCEPT !.document_type = "info_msg"]
                                         ELSE rows[i]]
<1>1. Informed(S) = new
  BY DEF Informed
<1>2. Len(rows) \in Nat /\ DOMAIN rows = 1 .. Len(rows) /\ \A i \in DOMAIN rows : rows[i] \in RowType
  BY LenProperties, ElementOfSeq
<1>3. ASSUME NEW i \in DOMAIN rows PROVE new[i] \in RowType
  <2> DEFINE r == rows[i]
             s == [r EXCEPT !.document_type = "info_msg"]
  <2>1. r \in RowType
    BY <1>2
  <2> HIDE DEF r
  <2>2. s \in RowType
    BY <2>1 DEF RowType, RowTypes
  <2> HIDE DEF s
  <2>3. new[i] = r \/ new[i] = s
    BY DEF r, s
  <2> QED BY <2>1, <2>2, <2>3
<1>4. new \in Seq(RowType)
  BY <1>2, <1>3
<1>5. /\ DOMAIN new = DOMAIN rows
      /\ \A i \in DOMAIN rows \ S : new[i] = rows[i]
      /\ \A i \in DOMAIN rows \cap S : new[i] = [rows[i] EXCEPT !.document_type = "info_msg"]
  OBVIOUS
<1> QED BY <1>1, <1>4, <1>5

\* A row that is marked.
LEMMA InformedRow ==
  ASSUME NEW r \in RowType, NEW s, s = [r EXCEPT !.document_type = "info_msg"]
  PROVE  /\ s \in RowType /\ s.part = r.part /\ s.raw = r.raw /\ s.lo = r.lo /\ s.hi = r.hi /\ s.label = r.label
         /\ s.document_type = "info_msg" /\ s.table_content = r.table_content
         /\ s.caption = r.caption /\ s.embedding = r.embedding /\ SamePlace(s, r)
BY DEF RowType, RowTypes, SamePlace

\* Rows that are put in another order and not changed.
LEMMA ArrangedRows ==
  ASSUME document \in Jobs, NEW n \in Nat, n >= 7, NEW old, RowsInv(old, n), NEW new \in Seq(RowType),
         NEW S, S \subseteq DOMAIN old, Arranged(new, old, S),
         \A i \in DOMAIN old : i \in S <=> ~Gone(n + 1, old[i].part),
         \A k \in DOMAIN new : RowRight(new[k], n + 1)
  PROVE  RowsInv(new, n + 1)
<1>1. Covered(new, n + 1)
  BY RowsFact, ArrangedCovers
<1>2. ~(n + 1 <= 7)
  OBVIOUS
<1> QED BY <1>1, <1>2 DEF RowsInv

\* What dedup_image_stage does to the rows.
LEMMA DedupRows ==
  ASSUME document \in Jobs, RowsInv(rows, 7), Asks("dedup"),
         NEW flag, flag = document.tasks[Min(Asked("dedup"))].filter,
         NEW o \in _cpu_only_apply_dedup_filter(flag), ~o.raised
  PROVE  RowsInv(o.rows, 8)
<1>1. /\ flag \in BOOLEAN
      /\ Applied("dedup", TRUE) <=> flag = TRUE
      /\ Applied("dedup", FALSE) <=> flag = FALSE
  BY FlagFact
<1>2. /\ rows \in Seq(RowType) /\ Len(rows) \in Nat /\ DOMAIN rows = 1 .. Len(rows)
      /\ \A i \in DOMAIN rows : rows[i] \in RowType /\ RowRight(rows[i], 7)
  BY RowsFact
<1>3. \A i \in DOMAIN rows : IsImage(i) <=> rows[i].part # 1 /\ Type(rows[i]) = "image"
  <2>1. ~(7 > 7)
    OBVIOUS
  <2> QED BY <2>1, ImageFact DEF MarkedCopy
<1>4. \A i \in DOMAIN rows : i \in Duplicates <=> rows[i].part # 1 /\ Copy(rows[i].part)
  BY DuplicatesFact
<1>5. \A p : Gone(7 + 1, p) <=> p # 1 /\ Copy(p) /\ flag = TRUE
  <2>1. 7 + 1 > 7 /\ ~(7 + 1 > 8)
    OBVIOUS
  <2> QED BY <2>1, <1>1 DEF Gone
<1>6. \A p : MarkedCopy(8, p) <=> Copy(p) /\ flag = FALSE
  <2>1. 8 > 7
    OBVIOUS
  <2> QED BY <2>1, <1>1 DEF MarkedCopy
\* A row that stays as it is.
<1>7. ASSUME NEW i \in DOMAIN rows, i \notin Duplicates
      PROVE  RowRight(rows[i], 8)
  <2> DEFINE r == rows[i]
  <2>1. RowRight(r, 7) /\ (r.part # 1 => ~Copy(r.part))
    BY <1>2, <1>4, <1>7
  <2>2. r.raw \in BOOLEAN /\ (r.raw <=> r.part = 1)
    BY <2>1 DEF RowRight, RowType
  <2> HIDE DEF r
  <2>3. ~(7 > 8) /\ ~(8 > 8) /\ ~(7 > 7) /\ ~(8 > 9) /\ ~(8 > 12) /\ ~(8 > 13) /\ ~(8 > 14) /\ 7 <= 14 /\ ~(7 > 12)
    OBVIOUS
  <2>4. KindRight(r, 8)
    <3>1. KindRight(r, 7)
      BY <2>1 DEF RowRight
    <3> QED BY <3>1, <2>1, <2>2, <2>3, <1>6 DEF KindRight, MarkedCopy
  <2>5. EnrichmentsRight(r, 8)
    BY <2>1, <2>3 DEF RowRight, EnrichmentsRight
  <2>6. r.document_type = "image" => ~Copy(r.part)
    <3>1. r.raw => r.document_type # "image"
      BY <2>1, RawFact DEF RowRight, KindRight
    <3> QED BY <3>1, <2>1, <2>2
  <2>7. Split(8, r.part) <=> Split(7, r.part)
    BY <2>3 DEF Split
  <2>8. PlaceRight(r, 8)
    BY <2>1, <2>3 DEF RowRight, PlaceRight
  <2> QED BY <2>1, <2>4, <2>5, <2>6, <2>7, <2>8 DEF RowRight, r
<1>8. CASE o.rows = rows /\ \A i \in DOMAIN rows : ~IsImage(i)
  <2>1. Duplicates = {}
    BY <1>8 DEF Duplicates
  <2>2. \A i \in DOMAIN rows : RowRight(rows[i], 7 + 1)
    BY <2>1, <1>7
  <2>3. \A i \in DOMAIN rows : ~Gone(7 + 1, rows[i].part)
    BY <2>1, <1>4, <1>5
  <2>4. \A i \in DOMAIN rows : SamePlace(rows[i], rows[i])
    BY DEF SamePlace
  <2>5. PICK n : n = 7
    OBVIOUS
  <2>6. RowsInv(rows, n + 1)
    BY <2>2, <2>3, <2>4, <2>5, <1>2, MappedRows
  <2> QED BY <2>5, <2>6, <1>8
<1> DEFINE images == {i \in DOMAIN rows : IsImage(i)}
           a == AtPositions(rows, images \ Duplicates)
           b == AtPositions(rows, DOMAIN rows \ images)
<1>9. CASE flag = TRUE /\ o.rows = a \o b
  <2>1. /\ images \ Duplicates \subseteq DOMAIN rows /\ DOMAIN rows \ images \subseteq DOMAIN rows
        /\ (images \ Duplicates) \cap (DOMAIN rows \ images) = {}
    OBVIOUS
  <2>2. /\ a \in Seq(RowType) /\ Arranged(a, rows, images \ Duplicates)
        /\ \A k \in DOMAIN a : \E i \in images \ Duplicates : a[k] = rows[i]
    <3>1. Picks(AtPositions(rows, images \ Duplicates), RowType, rows, images \ Duplicates)
      BY <2>1, <1>2, PickedFact
    <3>2. Picks(a, RowType, rows, images \ Duplicates)
      BY <3>1
    <3> HIDE DEF a, b
    <3> QED BY <3>2 DEF Picks
  <2>3. /\ b \in Seq(RowType) /\ Arranged(b, rows, DOMAIN rows \ images)
        /\ \A k \in DOMAIN b : \E i \in DOMAIN rows \ images : b[k] = rows[i]
    <3>1. Picks(AtPositions(rows, DOMAIN rows \ images), RowType, rows, DOMAIN rows \ images)
      BY <2>1, <1>2, PickedFact
    <3>2. Picks(b, RowType, rows, DOMAIN rows \ images)
      BY <3>1
    <3> HIDE DEF a, b
    <3> QED BY <3>2 DEF Picks
  <2>4. \A i \in DOMAIN rows \ images : i \notin Duplicates
    BY DEF Duplicates
  <2> DEFINE S == (images \ Duplicates) \cup (DOMAIN rows \ images)
  <2>5. S \subseteq DOMAIN rows /\ \A i \in DOMAIN rows : i \in S <=> i \notin Duplicates
    BY <2>4
  <2> HIDE DEF a, b, images
  <2>6. a \o b \in Seq(RowType) /\ Arranged(a \o b, rows, S)
    BY <2>1, <2>2, <2>3, ArrangedJoin, JoinFact
  <2>7. ASSUME NEW k \in DOMAIN (a \o b) PROVE RowRight((a \o b)[k], 7 + 1)
    <3>1. \E i \in DOMAIN rows : i \notin Duplicates /\ (a \o b)[k] = rows[i]
      <4>1. (k \in DOMAIN a /\ (a \o b)[k] = a[k]) \/ (k - Len(a) \in DOMAIN b /\ (a \o b)[k] = b[k - Len(a)])
        BY <2>2, <2>3, JoinFact
      <4> QED BY <4>1, <2>2, <2>3, <2>4 DEF images
    <3> QED BY <3>1, <1>7
  <2>8. \A i \in DOMAIN rows : i \in S <=> ~Gone(7 + 1, rows[i].part)
    BY <2>5, <1>4, <1>5, <1>9
  <2>9. PICK n : n = 7
    OBVIOUS
  <2> HIDE DEF S
  <2>10. RowsInv(a \o b, n + 1)
    <3>1. n \in Nat /\ n >= 7 /\ RowsInv(rows, n)
      BY <2>9
    <3>2. (\A i \in DOMAIN rows : i \in S <=> ~Gone(n + 1, rows[i].part))
          /\ \A k \in DOMAIN (a \o b) : RowRight((a \o b)[k], n + 1)
      BY <2>7, <2>8, <2>9
    <3> QED BY <3>1, <3>2, <2>5, <2>6, ArrangedRows
  <2> QED BY <2>9, <2>10, <1>9
<1>10. CASE flag = FALSE /\ o.rows = Informed(Duplicates)
  <2> DEFINE new == Informed(Duplicates)
  <2>1. /\ new \in Seq(RowType) /\ DOMAIN new = DOMAIN rows
        /\ \A i \in DOMAIN rows \ Duplicates : new[i] = rows[i]
        /\ \A i \in DOMAIN rows \cap Duplicates : new[i] = [rows[i] EXCEPT !.document_type = "info_msg"]
    BY <1>2, InformedFact
  <2> HIDE DEF new
  <2>2. ASSUME NEW i \in DOMAIN rows PROVE SamePlace(new[i], rows[i]) /\ RowRight(new[i], 8)
    <3>1. CASE i \notin Duplicates
      BY <3>1, <2>1, <1>7 DEF SamePlace
    <3>2. CASE i \in Duplicates
      <4> DEFINE r == rows[i]
                 s == new[i]
      <4>1. r \in RowType /\ RowRight(r, 7) /\ s = [r EXCEPT !.document_type = "info_msg"]
        BY <3>2, <2>1, <1>2
      <4>2. r.part # 1 /\ Copy(r.part) /\ Type(r) = "image"
        BY <3>2, <1>3, <1>4 DEF Duplicates
      <4> HIDE DEF r, s
      <4>3. /\ s \in RowType /\ s.part = r.part /\ s.raw = r.raw /\ s.lo = r.lo /\ s.hi = r.hi /\ s.label = r.label
            /\ s.document_type = "info_msg" /\ s.table_content = r.table_content
            /\ s.caption = r.caption /\ s.embedding = r.embedding /\ SamePlace(s, r)
        BY <4>1, InformedRow
      <4>4. ~(8 > 8) /\ ~(8 > 9) /\ ~(8 > 12) /\ ~(8 > 13) /\ ~(8 > 14) /\ 7 <= 14 /\ ~(7 > 12)
        OBVIOUS
      <4>5. KindRight(s, 8)
        <5>1. ~s.raw
          BY <4>1, <4>2, <4>3 DEF RowRight
        <5> QED BY <5>1, <4>2, <4>3, <4>4, <1>6, <1>10 DEF KindRight, Type, Part
      <4>6. EnrichmentsRight(s, 8)
        BY <4>1, <4>3, <4>4 DEF RowRight, EnrichmentsRight
      <4>7. Split(8, s.part) <=> Split(7, r.part)
        BY <4>3, <4>4 DEF Split
      <4>8. PlaceRight(s, 8)
        BY <4>1, <4>3, <4>4 DEF RowRight, PlaceRight
      <4>9. RowRight(s, 8)
        BY <4>1, <4>3, <4>5, <4>6, <4>7, <4>8 DEF RowRight, Part
      <4> QED BY <4>3, <4>9 DEF r, s
    <3> QED BY <3>1, <3>2
  <2>3. \A i \in DOMAIN rows : ~Gone(7 + 1, rows[i].part)
    BY <1>5, <1>10
  <2>4. PICK n : n = 7
    OBVIOUS
  <2>5. RowsInv(new, n + 1)
    BY <2>1, <2>2, <2>3, <2>4, MappedRows
  <2> QED BY <2>4, <2>5, <1>10 DEF new
<1> HIDE DEF a, b
<1>11. \/ o = Raised
       \/ o = Ok(rows) /\ images = {}
       \/ o = Ok(a \o b) /\ flag
       \/ o = Ok(Informed(Duplicates)) /\ ~flag
  BY DEF _cpu_only_apply_dedup_filter, a, b
<1>12. images = {} => \A i \in DOMAIN rows : ~IsImage(i)
  OBVIOUS
<1> QED BY <1>1, <1>8, <1>9, <1>10, <1>11, <1>12, OkFact

\* What image_filter_stage does to the rows.
LEMMA FilterRows ==
  ASSUME document \in Jobs, RowsInv(rows, 8), Asks("filter"),
         NEW t, t.filter = document.tasks[Min(Asked("filter"))].filter,
         NEW o \in image_filter_stage(t), ~o.raised
  PROVE  RowsInv(o.rows, 9)
<1> DEFINE flag == t.filter
           out == {i \in DOMAIN rows : IsImage(i) /\ Part(rows[i]).small}
           kept == DOMAIN rows \ out
<1>1. /\ flag \in BOOLEAN
      /\ Applied("filter", TRUE) <=> flag = TRUE
  BY FlagFact
<1>2. /\ rows \in Seq(RowType) /\ Len(rows) \in Nat /\ DOMAIN rows = 1 .. Len(rows)
      /\ \A i \in DOMAIN rows : rows[i] \in RowType /\ RowRight(rows[i], 8)
  BY RowsFact
<1>3. \A i \in DOMAIN rows : IsImage(i) <=> rows[i].part # 1 /\ Type(rows[i]) = "image" /\ ~MarkedCopy(8, rows[i].part)
  BY ImageFact
<1>4. \A p : Gone(8 + 1, p) <=> Gone(8, p) \/ (p # 1 /\ Small(p) /\ flag = TRUE /\ ~MarkedCopy(8, p))
  <2>1. 8 + 1 > 7 /\ 8 + 1 > 8 /\ 8 > 7 /\ ~(8 > 8)
    OBVIOUS
  <2> QED BY <2>1, <1>1 DEF Gone, MarkedCopy
<1>5. \A i \in DOMAIN rows : ~Gone(8, rows[i].part)
  BY NoneGone
<1>6. \A i \in DOMAIN rows : i \in out <=> rows[i].part # 1 /\ Small(rows[i].part) /\ ~MarkedCopy(8, rows[i].part)
  BY <1>3 DEF Small, Part, Type
<1> HIDE DEF out
<1>7. \A i \in DOMAIN rows : RowRight(rows[i], 8 + 1)
  <2>1. PICK n : n = 8
    OBVIOUS
  <2>2. n \in Nat /\ Passes(n) /\ \A i \in DOMAIN rows : RowRight(rows[i], n)
    BY <2>1, <1>2 DEF Passes, Leaves
  <2> QED BY <2>1, <2>2, RowPasses
<1>8. PICK n : n = 8
  OBVIOUS
<1>9. n \in Nat /\ n >= 7 /\ RowsInv(rows, n)
  BY <1>8
<1>10. CASE flag = TRUE /\ o.rows = AtPositions(rows, kept)
  <2>1. kept \subseteq DOMAIN rows
    OBVIOUS
  <2> DEFINE new == AtPositions(rows, kept)
  <2>2. /\ new \in Seq(RowType) /\ Arranged(new, rows, kept)
        /\ \A k \in DOMAIN new : \E i \in kept : new[k] = rows[i]
    <3>1. Picks(new, RowType, rows, kept)
      BY <2>1, <1>2, PickedFact
    <3> HIDE DEF new
    <3> QED BY <3>1 DEF Picks
  <2> HIDE DEF new
  <2>3. \A k \in DOMAIN new : RowRight(new[k], n + 1)
    BY <2>1, <2>2, <1>7, <1>8
  <2>4. \A i \in DOMAIN rows : i \in kept <=> ~Gone(n + 1, rows[i].part)
    BY <1>4, <1>5, <1>6, <1>8, <1>10
  <2>5. RowsInv(new, n + 1)
    <3> HIDE DEF kept
    <3> QED BY <2>1, <2>2, <2>3, <2>4, <1>9, ArrangedRows
  <2> QED BY <2>5, <1>8, <1>10 DEF new
<1>11. CASE flag = FALSE /\ o.rows = Informed(out)
  <2> DEFINE new == Informed(out)
  <2>1. /\ new \in Seq(RowType) /\ DOMAIN new = DOMAIN rows
        /\ \A i \in DOMAIN rows \ out : new[i] = rows[i]
        /\ \A i \in DOMAIN rows \cap out : new[i] = [rows[i] EXCEPT !.document_type = "info_msg"]
    BY <1>2, InformedFact
  <2> HIDE DEF new
  <2>2. ASSUME NEW i \in DOMAIN rows PROVE SamePlace(new[i], rows[i]) /\ RowRight(new[i], n + 1)
    <3>1. CASE i \notin out
      BY <3>1, <2>1, <1>7, <1>8 DEF SamePlace
    <3>2. CASE i \in out
      <4> DEFINE r == rows[i]
                 s == new[i]
      <4>1. r \in RowType /\ RowRight(r, 9) /\ s = [r EXCEPT !.document_type = "info_msg"]
        BY <3>2, <2>1, <1>2, <1>7
      <4>2. r.part # 1 /\ Type(r) = "image"
        BY <3>2, <1>3, <1>6 DEF Small, Type, Part
      <4> HIDE DEF r, s
      <4>3. /\ s \in RowType /\ s.part = r.part /\ s.raw = r.raw /\ s.lo = r.lo /\ s.hi = r.hi /\ s.label = r.label
            /\ s.document_type = "info_msg" /\ s.table_content = r.table_content
            /\ s.caption = r.caption /\ s.embedding = r.embedding /\ SamePlace(s, r)
        BY <4>1, InformedRow
      <4>4. 9 > 8 /\ ~(9 > 9) /\ ~(9 > 13) /\ ~(9 > 14)
        OBVIOUS
      <4>5. KindRight(s, 9)
        <5>1. ~s.raw
          BY <4>1, <4>2, <4>3 DEF RowRight
        <5> QED BY <5>1, <4>2, <4>3, <4>4 DEF KindRight, Type, Part
      <4>6. EnrichmentsRight(s, 9)
        BY <4>1, <4>3, <4>4 DEF RowRight, EnrichmentsRight
      <4>7. PlaceRight(s, 9)
        BY <4>1, <4>3 DEF RowRight, PlaceRight
      <4>8. RowRight(s, 9)
        BY <4>1, <4>3, <4>5, <4>6, <4>7 DEF RowRight, Part
      <4> QED BY <4>3, <4>8, <1>8 DEF r, s
    <3> QED BY <3>1, <3>2
  <2>3. \A i \in DOMAIN rows : ~Gone(n + 1, rows[i].part)
    BY <1>4, <1>5, <1>8, <1>11
  <2>4. RowsInv(new, n + 1)
    BY <2>1, <2>2, <2>3, <1>9, MappedRows
  <2> QED BY <2>4, <1>8, <1>11 DEF new
<1>12. (o = Ok(AtPositions(rows, kept)) /\ flag) \/ (o = Ok(Informed(out)) /\ ~flag)
  BY DEF image_filter_stage, out
<1> HIDE DEF kept
<1> QED BY <1>1, <1>10, <1>11, <1>12, OkFact

-----------------------------------------------------------------------------
(* The services that read pictures.                                        *)

\* The place of a position that InOrder has.
LEMMA PositionsFact ==
  ASSUME NEW n \in Nat, NEW S, S \subseteq 1 .. n, NEW i \in S
  PROVE  LET k == CHOOSE k \in DOMAIN InOrder(S) : InOrder(S)[k] = i IN
         k \in DOMAIN InOrder(S) /\ InOrder(S)[k] = i
<1>1. \E k \in DOMAIN InOrder(S) : InOrder(S)[k] = i
  BY InOrderFact
<1> QED BY <1>1

\* Each result of _update_metadata is at the index of its image.
LEMMA UpdateFact ==
  ASSUME NEW n \in Nat, NEW rs, DOMAIN rs = 1 .. n
  PROVE  \A i \in DOMAIN rs : _update_metadata(rs)[i] = IF Part(rs[i]).small THEN 0 ELSE rs[i].part
<1> DEFINE V == {i \in DOMAIN rs : ~Part(rs[i]).small}
           valid_indices == InOrder(V)
           sent == [k \in DOMAIN valid_indices |-> rs[valid_indices[k]]]
           at_(i) == CHOOSE k \in DOMAIN valid_indices : valid_indices[k] = i
<1>1. _update_metadata(rs) = [i \in DOMAIN rs |-> IF Part(rs[i]).small THEN 0 ELSE Infer(sent)[at_(i)]]
  BY DEF _update_metadata
<1>2. ASSUME NEW i \in V PROVE Infer(sent)[at_(i)] = rs[i].part
  <2>1. at_(i) \in DOMAIN valid_indices /\ valid_indices[at_(i)] = i
    <3> V \subseteq 1 .. n
      OBVIOUS
    <3> HIDE DEF V
    <3> QED BY PositionsFact
  <2> HIDE DEF V, valid_indices, at_
  <2>2. Infer(sent)[at_(i)] = sent[at_(i)].part
    BY <2>1 DEF Infer
  <2> QED BY <2>1, <2>2
<1>3. \A i \in DOMAIN rs : ~Part(rs[i]).small => i \in V
  OBVIOUS
<1> HIDE DEF V, sent, at_, valid_indices
<1> QED BY <1>1, <1>2, <1>3

\* The rows that meet the criteria have what was read of them.
LEMMA FilledFact ==
  ASSUME NEW n \in Nat, DOMAIN rows = 1 .. n, NEW subtype
  PROVE  /\ DOMAIN Filled(subtype) = DOMAIN rows
         /\ \A i \in DOMAIN rows :
              Filled(subtype)[i] =
                IF meets_criteria(rows[i], subtype)
                THEN [rows[i] EXCEPT !.table_content = IF Part(rows[i]).small THEN 0 ELSE rows[i].part]
                ELSE rows[i]
<1> DEFINE V == {i \in DOMAIN rows : meets_criteria(rows[i], subtype)}
           valid == InOrder(V)
           sent == [k \in DOMAIN valid |-> rows[valid[k]]]
           at_(i) == CHOOSE k \in DOMAIN valid : valid[k] = i
<1>1. Filled(subtype) =
        [i \in DOMAIN rows |->
           IF \E k \in DOMAIN valid : valid[k] = i
           THEN [rows[i] EXCEPT !.table_content = _update_metadata(sent)[at_(i)]]
           ELSE rows[i]]
  BY DEF Filled
<1>2. V \subseteq 1 .. n
  OBVIOUS
<1>3. \A i \in DOMAIN rows : meets_criteria(rows[i], subtype) <=> i \in V
  OBVIOUS
<1> HIDE DEF V
<1>4. \E m \in Nat : DOMAIN valid = 1 .. m
  BY <1>2, InOrderFact
<1>5. \A k \in DOMAIN valid : valid[k] \in V
  BY <1>2, InOrderFact
<1>6. ASSUME NEW i \in V
      PROVE  /\ \E k \in DOMAIN valid : valid[k] = i
             /\ _update_metadata(sent)[at_(i)] = IF Part(rows[i]).small THEN 0 ELSE rows[i].part
  <2>1. at_(i) \in DOMAIN valid /\ valid[at_(i)] = i
    BY <1>2, PositionsFact
  <2> HIDE DEF valid, at_
  <2>2. at_(i) \in DOMAIN sent /\ sent[at_(i)] = rows[i]
    BY <2>1
  <2>3. \E m \in Nat : DOMAIN sent = 1 .. m
    BY <1>4
  <2> HIDE DEF sent
  <2> QED BY <2>1, <2>2, <2>3, UpdateFact
<1> HIDE DEF valid, sent, at_
<1>7. ASSUME NEW i \in DOMAIN rows, i \notin V PROVE ~ \E k \in DOMAIN valid : valid[k] = i
  BY <1>5, <1>7
<1>8. DOMAIN Filled(subtype) = DOMAIN rows
  BY <1>1
<1>9. ASSUME NEW i \in DOMAIN rows
      PROVE  Filled(subtype)[i] =
                IF meets_criteria(rows[i], subtype)
                THEN [rows[i] EXCEPT !.table_content = IF Part(rows[i]).small THEN 0 ELSE rows[i].part]
                ELSE rows[i]
  BY <1>1, <1>3, <1>6, <1>7
<1> QED BY <1>8, <1>9

\* The row of a picture that is read.
LEMMA ReadRow ==
  ASSUME NEW n \in {9, 10, 11}, NEW r, RowRight(r, n), NEW s, NEW v \in {0, r.part},
         s = [r EXCEPT !.table_content = v],
         n # 9 => ~meets_criteria(r, "table"), n = 9 /\ ~Part(r).small => v = r.part,
         r.part # 0
  PROVE  s \in RowType /\ SamePlace(s, r) /\ RowRight(s, n + 1)
<1>1. r \in RowType
  BY DEF RowRight
<1>2. v \in Nat
  BY <1>1 DEF RowType
<1>3. /\ s \in RowType /\ s.part = r.part /\ s.raw = r.raw /\ s.lo = r.lo /\ s.hi = r.hi
      /\ s.document_type = r.document_type /\ s.table_content = v /\ s.content = r.content /\ s.label = r.label
      /\ s.caption = r.caption /\ s.embedding = r.embedding
  BY <1>1, <1>2 DEF RowType
<1>4. /\ n \in Nat /\ ~(n + 1 > 13) /\ ~(n + 1 > 14) /\ n <= 14 /\ n + 1 <= 14 /\ n + 1 > 8 /\ n > 8
      /\ n + 1 > 7 /\ n > 7 /\ n + 1 > 9 /\ (n > 9 \/ n = 9) /\ ~(n + 1 > 12) /\ ~(n > 12)
  OBVIOUS
<1>5. EnrichmentsRight(r, n)
  BY DEF RowRight
<1>6. EnrichmentsRight(s, n + 1)
  <2>1. meets_criteria(s, "table") <=> meets_criteria(r, "table")
    BY <1>3 DEF meets_criteria, Type, Part
  <2>2. Part(s) = Part(r)
    BY <1>3 DEF Part
  <2>3. meets_criteria(s, "table") /\ ~Part(s).small => s.table_content # 0
    <3>1. CASE n = 9
      BY <3>1, <2>2, <1>3
    <3>2. CASE n # 9
      BY <3>2, <2>1
    <3> QED BY <3>1, <3>2
  <2> QED BY <2>3, <1>3, <1>4, <1>5 DEF EnrichmentsRight
<1>7. KindRight(s, n + 1)
  BY <1>3, <1>4 DEF RowRight, KindRight, Type, Part
<1>8. ~Split(n, r.part) /\ Part(s) = Part(r)
  BY <1>3, <1>4 DEF Split, Part
<1>9. PlaceRight(s, n + 1)
  BY <1>3, <1>4 DEF RowRight, PlaceRight
<1>10. RowRight(s, n + 1)
  BY <1>3, <1>4, <1>6, <1>7, <1>8, <1>9 DEF RowRight
<1> QED BY <1>3, <1>10 DEF SamePlace

\* What the services that read pictures do to the rows.
LEMMA ReadRows ==
  ASSUME document \in Jobs, NEW n \in {9, 10, 11}, NEW subtype, RowsInv(rows, n),
         (n = 9) <=> (subtype = "table")
  PROVE  RowsInv(Filled(subtype), n + 1)
<1> DEFINE new == Filled(subtype)
<1>1. /\ rows \in Seq(RowType) /\ Len(rows) \in Nat /\ DOMAIN rows = 1 .. Len(rows)
      /\ \A i \in DOMAIN rows : rows[i] \in RowType /\ RowRight(rows[i], n)
  BY RowsFact
<1>2. n \in Nat /\ n # 7 /\ n # 8 /\ n # 13 /\ n # 14
  OBVIOUS
<1>3. /\ DOMAIN new = DOMAIN rows
      /\ \A i \in DOMAIN rows :
           new[i] = IF meets_criteria(rows[i], subtype)
                    THEN [rows[i] EXCEPT !.table_content = IF Part(rows[i]).small THEN 0 ELSE rows[i].part]
                    ELSE rows[i]
  BY <1>1, FilledFact
<1>4. new = [i \in 1 .. Len(rows) |-> new[i]]
  BY <1>1, <1>3 DEF Filled
<1> HIDE DEF new
<1>5. ASSUME NEW i \in DOMAIN rows
      PROVE  new[i] \in RowType /\ SamePlace(new[i], rows[i]) /\ RowRight(new[i], n + 1)
  <2> DEFINE r == rows[i]
             s == new[i]
  <2>1. r \in RowType /\ RowRight(r, n)
    BY <1>1
  <2>2. s = IF meets_criteria(r, subtype)
            THEN [r EXCEPT !.table_content = IF Part(r).small THEN 0 ELSE r.part] ELSE r
    BY <1>3
  <2> HIDE DEF r, s
  <2>3. r.part # 0
    BY <2>1, JobFact DEF RowRight
  <2>4. CASE meets_criteria(r, subtype)
    <3> DEFINE v == IF Part(r).small THEN 0 ELSE r.part
    <3>1. v \in {0, r.part} /\ s = [r EXCEPT !.table_content = v] /\ (n = 9 /\ ~Part(r).small => v = r.part)
      BY <2>2, <2>4
    <3>2. n # 9 => ~meets_criteria(r, "table")
      BY <2>4 DEF meets_criteria
    <3> HIDE DEF v
    <3>3. s \in RowType /\ SamePlace(s, r) /\ RowRight(s, n + 1)
      BY <3>1, <3>2, <2>1, <2>3, ReadRow
    <3> QED BY <3>3 DEF r, s
  <2>5. CASE ~meets_criteria(r, subtype)
    <3>1. s = r
      BY <2>2, <2>5
    <3>2. n # 9 => RowRight(r, n + 1)
      BY <2>1, <1>2, RowPasses DEF Passes, Leaves
    <3>3. n = 9 => RowRight(r, n + 1)
      <4> SUFFICES ASSUME n = 9 PROVE RowRight(r, 10)
        OBVIOUS
      <4>1. 9 > 8 /\ 10 > 8 /\ ~(10 > 13) /\ ~(10 > 14) /\ 9 <= 14 /\ 9 > 7 /\ ~(9 > 12) /\ ~(10 > 12)
        OBVIOUS
      <4>2. RowRight(r, 9) /\ ~meets_criteria(r, "table")
        BY <2>1, <2>5
      <4>3. EnrichmentsRight(r, 10)
        BY <4>1, <4>2 DEF RowRight, EnrichmentsRight
      <4>4. KindRight(r, 10)
        BY <4>1, <4>2 DEF RowRight, KindRight
      <4>5. ~Split(9, r.part) /\ ~Split(10, r.part)
        BY <4>1 DEF Split
      <4>6. PlaceRight(r, 10)
        BY <4>1, <4>2 DEF RowRight, PlaceRight
      <4> QED BY <4>1, <4>2, <4>3, <4>4, <4>5, <4>6 DEF RowRight
    <3> QED BY <3>1, <3>2, <3>3, <2>1 DEF SamePlace, r, s
  <2> QED BY <2>4, <2>5
<1>6. new \in Seq(RowType)
  BY <1>1, <1>4, <1>5, FunctionIsSeq
<1>7. \A i \in DOMAIN rows : ~Gone(n + 1, rows[i].part)
  BY <1>2, StillThere
<1> QED BY <1>2, <1>3, <1>5, <1>6, <1>7, MappedRows DEF new

-----------------------------------------------------------------------------
(* The captions.                                                           *)

\* What caption_extract_stage does to the rows.
LEMMA CaptionRows ==
  ASSUME document \in Jobs, RowsInv(rows, 13), NEW t, NEW o \in caption_extract_stage(t), ~o.raised
  PROVE  RowsInv(o.rows, 14)
<1> DEFINE images == {i \in DOMAIN rows : Type(rows[i]) = "image"}
           new == [i \in DOMAIN rows |->
                     IF i \in images THEN [rows[i] EXCEPT !.caption = rows[i].part] ELSE rows[i]]
<1>1. (images = {} /\ o.rows = rows) \/ o.rows = new
  BY OkFact DEF caption_extract_stage
<1>2. o.rows = new
  <2>1. rows \in Seq(RowType) /\ Len(rows) \in Nat /\ DOMAIN rows = 1 .. Len(rows)
    BY RowsFact
  <2>2. CASE images = {} /\ o.rows = rows
    <3>1. rows = [i \in DOMAIN rows |-> rows[i]]
      BY <2>1
    <3>2. new = [i \in DOMAIN rows |-> rows[i]]
      BY <2>2
    <3> QED BY <2>2, <3>1, <3>2
  <2> QED BY <2>2, <1>1
<1>3. /\ rows \in Seq(RowType) /\ Len(rows) \in Nat /\ DOMAIN rows = 1 .. Len(rows)
      /\ \A i \in DOMAIN rows : rows[i] \in RowType /\ RowRight(rows[i], 13)
  BY RowsFact
<1>4. /\ DOMAIN new = DOMAIN rows
      /\ \A i \in DOMAIN rows :
           new[i] = IF Type(rows[i]) = "image" THEN [rows[i] EXCEPT !.caption = rows[i].part] ELSE rows[i]
  OBVIOUS
<1>5. new = [i \in 1 .. Len(rows) |-> new[i]]
  BY <1>3
<1> HIDE DEF new, images
<1>6. ASSUME NEW i \in DOMAIN rows
      PROVE  new[i] \in RowType /\ SamePlace(new[i], rows[i]) /\ RowRight(new[i], 14)
  <2> DEFINE r == rows[i]
             s == new[i]
  <2>1. r \in RowType /\ RowRight(r, 13)
    BY <1>3
  <2>2. s = IF Type(r) = "image" THEN [r EXCEPT !.caption = r.part] ELSE r
    BY <1>4
  <2> HIDE DEF r, s
  <2>3. /\ s \in RowType /\ s.part = r.part /\ s.raw = r.raw /\ s.lo = r.lo /\ s.hi = r.hi
        /\ s.document_type = r.document_type /\ s.table_content = r.table_content
        /\ s.content = r.content /\ s.embedding = r.embedding
        /\ s.caption \in {r.caption, r.part} /\ (Type(r) = "image" => s.caption = r.part)
    BY <2>1, <2>2 DEF RowType
  <2>4. r.part # 0
    BY <2>1, JobFact DEF RowRight
  <2>5. /\ 13 > 8 /\ 14 > 8 /\ 13 > 7 /\ 14 > 7 /\ 13 > 9 /\ 14 > 9 /\ 13 <= 14 /\ 14 <= 14 /\ ~(14 > 14)
        /\ 13 > 12 /\ 14 > 12
    OBVIOUS
  <2>6. Part(s) = Part(r) /\ Type(s) = Type(r) /\ (meets_criteria(s, "table") <=> meets_criteria(r, "table"))
    BY <2>3 DEF meets_criteria, Type, Part
  <2>7. EnrichmentsRight(s, 14)
    <3>1. EnrichmentsRight(r, 13)
      BY <2>1 DEF RowRight
    <3> QED BY <3>1, <2>3, <2>4, <2>5, <2>6 DEF EnrichmentsRight
  <2>8. KindRight(s, 14)
    BY <2>1, <2>3, <2>5, <2>6 DEF RowRight, KindRight
  <2>9. Split(14, s.part) <=> Split(13, r.part)
    BY <2>3, <2>5 DEF Split
  <2>10. PlaceRight(s, 14)
    <3>1. PlaceRight(r, 13) /\ ~(13 <= 12) /\ 13 + 1 = 14
      BY <2>1 DEF RowRight
    <3> QED BY <3>1, <2>3, PlaceStays
  <2>11. RowRight(s, 14)
    BY <2>1, <2>3, <2>5, <2>6, <2>7, <2>8, <2>9, <2>10 DEF RowRight
  <2> QED BY <2>3, <2>11 DEF SamePlace, r, s
<1>7. new \in Seq(RowType)
  BY <1>3, <1>5, <1>6, FunctionIsSeq
<1>8. PICK n : n = 13
  OBVIOUS
<1>9. n \in Nat /\ n # 7 /\ n # 8 /\ n + 1 = 14 /\ RowsInv(rows, n)
  BY <1>8
<1>10. \A i \in DOMAIN rows : ~Gone(n + 1, rows[i].part)
  BY <1>9, StillThere
<1>11. RowsInv(new, n + 1)
  BY <1>4, <1>6, <1>7, <1>9, <1>10, MappedRows
<1> QED BY <1>2, <1>9, <1>11

-----------------------------------------------------------------------------
(* The splitter.                                                           *)

\* The elements of a flattened sequence are those of the sequences in it.
Flattens(flat, seqs) ==
  /\ \A k \in DOMAIN flat : \E b \in DOMAIN seqs : \E m \in DOMAIN seqs[b] : flat[k] = seqs[b][m]
  /\ \A b \in DOMAIN seqs : \A m \in DOMAIN seqs[b] : \E k \in DOMAIN flat : flat[k] = seqs[b][m]

\* One more sequence is flattened with the others.
LEMMA FlattensJoin ==
  ASSUME NEW T, NEW seqs \in Seq(Seq(T)), NEW s \in Seq(T), Flattens(FlattenSeq(seqs), seqs)
  PROVE  Flattens(FlattenSeq(Append(seqs, s)), Append(seqs, s))
<1> DEFINE flat == FlattenSeq(seqs)
           more == Append(seqs, s)
           n == Len(seqs)
<1>1. flat \in Seq(T)
  BY FlattenTyped
<1>2. FlattenSeq(more) = flat \o s
  BY <1>1, FlattenAppend
<1>3. n \in Nat /\ DOMAIN seqs = 1 .. n
  BY LenProperties
<1>4. DOMAIN more = 1 .. n + 1 /\ more[n + 1] = s /\ \A b \in DOMAIN seqs : b \in DOMAIN more /\ more[b] = seqs[b]
  <2>1. more \in Seq(Seq(T)) /\ Len(more) = n + 1 /\ more[n + 1] = s /\ \A b \in 1 .. n : more[b] = seqs[b]
    BY AppendProperties
  <2>2. DOMAIN more = 1 .. n + 1
    BY <2>1, LenProperties
  <2> QED BY <2>1, <2>2, <1>3
<1>5. n + 1 \in DOMAIN more /\ \A b \in DOMAIN more : b = n + 1 \/ b \in DOMAIN seqs
  BY <1>3, <1>4
<1>6. /\ \A k \in DOMAIN flat : k \in DOMAIN (flat \o s) /\ (flat \o s)[k] = flat[k]
      /\ \A k \in DOMAIN s : Len(flat) + k \in DOMAIN (flat \o s) /\ (flat \o s)[Len(flat) + k] = s[k]
      /\ \A k \in DOMAIN (flat \o s) :
           k \in DOMAIN flat \/ (k - Len(flat) \in DOMAIN s /\ (flat \o s)[k] = s[k - Len(flat)])
  BY <1>1, JoinFact
<1>7. Flattens(flat, seqs)
  OBVIOUS
<1> DEFINE new == flat \o s
<1> HIDE DEF flat, more, n, new
<1>8. ASSUME NEW k \in DOMAIN new
      PROVE  \E b \in DOMAIN more : \E m \in DOMAIN more[b] : new[k] = more[b][m]
  <2>1. CASE k \in DOMAIN flat
    BY <2>1, <1>4, <1>6, <1>7 DEF Flattens, new
  <2>2. CASE k - Len(flat) \in DOMAIN s /\ new[k] = s[k - Len(flat)]
    BY <2>2, <1>4, <1>5
  <2> QED BY <2>1, <2>2, <1>6 DEF new
<1>9. ASSUME NEW b \in DOMAIN more, NEW m \in DOMAIN more[b]
      PROVE  \E k \in DOMAIN new : new[k] = more[b][m]
  <2>1. CASE b \in DOMAIN seqs
    <3>1. PICK k \in DOMAIN flat : flat[k] = seqs[b][m]
      BY <2>1, <1>4, <1>7 DEF Flattens
    <3> QED BY <3>1, <2>1, <1>4, <1>6 DEF new
  <2>2. CASE b = n + 1
    BY <2>2, <1>4, <1>6 DEF new
  <2> QED BY <2>1, <2>2, <1>5
<1>10. Flattens(new, more)
  BY <1>8, <1>9 DEF Flattens
<1> QED BY <1>2, <1>10 DEF new, more, flat

\* FlattenSeq has just those elements.
LEMMA FlattensFact ==
  ASSUME NEW T, NEW seqs \in Seq(Seq(T))
  PROVE  Flattens(FlattenSeq(seqs), seqs)
<1> DEFINE S == {n \in Nat : \A s \in Seq(Seq(T)) : Len(s) = n => Flattens(FlattenSeq(s), s)}
<1>1. 0 \in S
  <2> SUFFICES ASSUME NEW s \in Seq(Seq(T)), Len(s) = 0 PROVE Flattens(FlattenSeq(s), s)
    OBVIOUS
  <2>1. s = <<>>
    BY EmptySeq
  <2> QED BY <2>1, FlattenEmpty DEF Flattens
<1>2. ASSUME NEW n \in Nat, n \in S PROVE n + 1 \in S
  <2> SUFFICES ASSUME NEW s \in Seq(Seq(T)), Len(s) = n + 1 PROVE Flattens(FlattenSeq(s), s)
    OBVIOUS
  <2> DEFINE front == [i \in 1 .. n |-> s[i]]
  <2>1. DOMAIN s = 1 .. n + 1 /\ \A i \in 1 .. n + 1 : s[i] \in Seq(T)
    BY LenProperties, ElementOfSeq
  <2>2. \A i \in 1 .. n : front[i] = s[i] /\ front[i] \in Seq(T)
    BY <2>1
  <2>3. front = [i \in 1 .. n |-> front[i]]
    OBVIOUS
  <2> HIDE DEF front
  <2>4. front \in Seq(Seq(T)) /\ Len(front) = n
    BY <2>2, <2>3, FunctionIsSeq
  <2>5. s[n + 1] \in Seq(T)
    BY <2>1
  <2>6. s = Append(front, s[n + 1])
    <3> DEFINE more == Append(front, s[n + 1])
    <3>1. more \in Seq(Seq(T)) /\ Len(more) = n + 1 /\ more[n + 1] = s[n + 1] /\ \A i \in 1 .. n : more[i] = front[i]
      BY <2>4, <2>5, AppendProperties
    <3> HIDE DEF more
    <3>2. \A i \in 1 .. n + 1 : i = n + 1 \/ i \in 1 .. n
      <4> HIDE DEF S
      <4> QED OBVIOUS
    <3>3. \A i \in 1 .. n + 1 : more[i] = s[i]
      <4> HIDE DEF S
      <4> QED BY <3>1, <3>2, <2>2
    <3>4. more = s
      BY <3>1, <3>3, SeqEqual
    <3> QED BY <3>4 DEF more
  <2>7. Flattens(FlattenSeq(front), front)
    BY <1>2, <2>4
  <2> QED BY <2>4, <2>5, <2>6, <2>7, FlattensJoin
<1>3. \A n \in Nat : n \in S
  <2> HIDE DEF S
  <2> QED BY <1>1, <1>2, SetInduction
<1> QED BY <1>3, LenProperties

\* Each number of tokens is in a chunk.
LEMMA ChunksReach ==
  ASSUME NEW step \in Nat \ {0}, NEW n \in Nat
  PROVE  \A x \in 1 .. n : \E k \in 0 .. n : 1 + k * step \in 1 .. x /\ x < 1 + k * step + step
<1> DEFINE S == {x \in Nat : \E k \in 0 .. x : k * step \in Nat /\ k * step <= x /\ x < k * step + step}
<1>1. 0 \in S
  OBVIOUS
<1>2. ASSUME NEW x \in Nat, x \in S PROVE x + 1 \in S
  <2>1. PICK k \in 0 .. x : k * step \in Nat /\ k * step <= x /\ x < k * step + step
    BY <1>2
  <2>2. CASE x + 1 < k * step + step
    BY <2>1, <2>2
  <2>3. CASE ~(x + 1 < k * step + step)
    <3>1. (k + 1) * step = k * step + step
      OBVIOUS
    <3> DEFINE a == k * step
    <3>2. a \in Nat /\ a <= x /\ x < a + step /\ ~(x + 1 < a + step)
      BY <2>1, <2>3
    <3> HIDE DEF a
    <3>3. a + step \in Nat /\ a + step <= x + 1 /\ x + 1 < a + step + step /\ k + 1 \in 0 .. x + 1
      BY <3>2
    <3> DEFINE b == (k + 1) * step
    <3>4. b \in Nat /\ b <= x + 1 /\ x + 1 < b + step
      BY <3>1, <3>3 DEF a
    <3> HIDE DEF b
    <3>5. \E m \in 0 .. x + 1 : m * step \in Nat /\ m * step <= x + 1 /\ x + 1 < m * step + step
      BY <3>3, <3>4 DEF b
    <3> QED BY <3>5
  <2> QED BY <2>2, <2>3
<1>3. \A x \in Nat : x \in S
  <2> HIDE DEF S
  <2> QED BY <1>1, <1>2, SetInduction
<1> SUFFICES ASSUME NEW x \in 1 .. n
             PROVE  \E k \in 0 .. n : 1 + k * step \in 1 .. x /\ x < 1 + k * step + step
  OBVIOUS
<1>4. x - 1 \in Nat
  OBVIOUS
<1>5. PICK k \in 0 .. x - 1 : k * step \in Nat /\ k * step <= x - 1 /\ x - 1 < k * step + step
  BY <1>3, <1>4
<1> DEFINE a == k * step
<1>6. a \in Nat /\ a <= x - 1 /\ x - 1 < a + step
  BY <1>5
<1> HIDE DEF a
<1>7. 1 + a \in 1 .. x /\ x < 1 + a + step /\ k \in 0 .. n
  BY <1>6
<1> QED BY <1>7 DEF a

\* A row with another label, and a chunk of a row.
SameRow(s, r) ==
  /\ s \in RowType /\ s.part = r.part /\ s.raw = r.raw /\ s.document_type = r.document_type
  /\ s.lo = r.lo /\ s.hi = r.hi /\ s.content = r.content /\ s.table_content = r.table_content
  /\ s.caption = r.caption /\ s.embedding = r.embedding
ChunkOf(s, r, size) ==
  /\ s \in RowType /\ s.part = r.part /\ s.raw = r.raw /\ s.document_type = r.document_type
  /\ s.lo >= 1 /\ s.hi <= r.hi /\ s.hi < s.lo + size
  /\ s.content = r.content /\ s.table_content = r.table_content
  /\ s.caption = r.caption /\ s.embedding = r.embedding

\* Relabelled changes labels only.
LEMMA RelabelFact ==
  ASSUME NEW rs \in Seq(RowType)
  PROVE  /\ Relabelled(rs) \in Seq(RowType) /\ DOMAIN Relabelled(rs) = DOMAIN rs
         /\ \A i \in DOMAIN rs : SameRow(Relabelled(rs)[i], rs[i])
<1> DEFINE new == Relabelled(rs)
<1>1. Len(rs) \in Nat /\ DOMAIN rs = 1 .. Len(rs) /\ \A i \in 1 .. Len(rs) : rs[i] \in RowType
  BY LenProperties, ElementOfSeq
<1>2. \A i \in 1 .. Len(rs) : new[i] = [rs[i] EXCEPT !.label = i - 1]
  BY <1>1 DEF Relabelled
<1>3. new = [i \in 1 .. Len(rs) |-> new[i]]
  BY <1>1 DEF Relabelled
<1> HIDE DEF new
<1>4. ASSUME NEW i \in 1 .. Len(rs) PROVE new[i] \in RowType /\ SameRow(new[i], rs[i])
  <2> DEFINE r == rs[i]
             s == new[i]
  <2>1. i - 1 \in Nat
    BY <1>1
  <2>2. r \in RowType /\ s = [r EXCEPT !.label = i - 1]
    BY <1>1, <1>2
  <2> HIDE DEF r, s
  <2>3. s \in RowType /\ SameRow(s, r)
    BY <2>1, <2>2 DEF RowType, SameRow
  <2> QED BY <2>3 DEF r, s
<1>5. new \in Seq(RowType) /\ DOMAIN new = 1 .. Len(rs)
  BY <1>1, <1>3, <1>4, FunctionIsSeq
<1> QED BY <1>1, <1>4, <1>5 DEF new

\* A row is right with any label.
LEMMA SameRowRight ==
  ASSUME NEW n \in Nat, n > 12, NEW r, NEW s, RowRight(r, n), SameRow(s, r)
  PROVE  RowRight(s, n)
<1>1. /\ s \in RowType /\ s.part = r.part /\ s.raw = r.raw /\ s.document_type = r.document_type
      /\ s.lo = r.lo /\ s.hi = r.hi /\ s.content = r.content /\ s.table_content = r.table_content
      /\ s.caption = r.caption /\ s.embedding = r.embedding
  BY DEF SameRow
<1>2. Part(s) = Part(r) /\ Type(s) = Type(r) /\ (meets_criteria(s, "table") <=> meets_criteria(r, "table"))
  BY <1>1 DEF meets_criteria, Type, Part
<1>3. HasPrompt(s) <=> HasPrompt(r)
  BY <1>1, <1>2 DEF HasPrompt, Says
<1>4. KindRight(s, n)
  BY <1>1, <1>2 DEF RowRight, KindRight
<1>5. EnrichmentsRight(s, n)
  <2>1. EnrichmentsRight(r, n)
    BY DEF RowRight
  <2> QED BY <2>1, <1>1, <1>2, <1>3 DEF EnrichmentsRight
<1>6. PlaceRight(s, n)
  <2>1. PlaceRight(r, n) /\ ~(n <= 12)
    BY DEF RowRight
  <2> QED BY <2>1, <1>1, PlaceStays
<1> QED BY <1>1, <1>2, <1>4, <1>5, <1>6 DEF RowRight

\* A chunk of a text that is split is a right row.
LEMMA ChunkRight ==
  ASSUME NEW r, NEW s, NEW size, RowRight(r, 12), ChunkOf(s, r, size), Split(13, r.part), Part(r).len \in Nat,
         size = document.tasks[Min(Asked("split"))].chunk_size,
         document.document_type \in document.tasks[Min(Asked("split"))].split_source_types,
         r.part < 2 + Cardinality(Remaining(r.raw))
  PROVE  RowRight(s, 13)
<1>1. /\ s \in RowType /\ s.part = r.part /\ s.raw = r.raw /\ s.document_type = r.document_type
      /\ s.lo >= 1 /\ s.hi <= r.hi /\ s.hi < s.lo + size /\ s.content = r.content /\ s.table_content = r.table_content
      /\ s.caption = r.caption /\ s.embedding = r.embedding
  BY DEF ChunkOf
<1>2. /\ 12 > 8 /\ 13 > 8 /\ 12 > 7 /\ 13 > 7 /\ 12 > 9 /\ 13 > 9 /\ ~(13 > 13) /\ ~(13 > 14)
      /\ 12 <= 14 /\ 13 <= 14
  OBVIOUS
<1>3. Part(s) = Part(r) /\ Type(s) = Type(r) /\ (meets_criteria(s, "table") <=> meets_criteria(r, "table"))
  BY <1>1 DEF meets_criteria, Type, Part
<1>4. KindRight(s, 13)
  BY <1>1, <1>2, <1>3 DEF RowRight, KindRight
<1>5. EnrichmentsRight(s, 13)
  <2>1. EnrichmentsRight(r, 12)
    BY DEF RowRight
  <2> QED BY <2>1, <1>1, <1>2, <1>3 DEF EnrichmentsRight
<1>6. s.hi <= Part(s).len
  <2>1. s.hi \in Nat /\ r.hi \in Nat /\ r.hi <= Part(r).len
    BY <1>1 DEF RowRight, RowType
  <2> QED BY <2>1, <1>1, <1>3
<1>7. PlaceRight(s, 13)
  <2>1. CutRight(s)
    BY <1>1 DEF CutRight
  <2> QED BY <2>1 DEF PlaceRight
<1> QED BY <1>1, <1>2, <1>3, <1>4, <1>5, <1>6, <1>7 DEF RowRight

\* The chunks of a row leave out none of its tokens but space.
Chunked(chunks, r, size) ==
  /\ chunks \in Seq(RowType) /\ \A m \in DOMAIN chunks : ChunkOf(chunks[m], r, size)
  /\ \A x \in (1 .. r.hi) \ Part(r).blank : \E m \in DOMAIN chunks : chunks[m].lo <= x /\ x <= chunks[m].hi

\* _split_into_chunks cuts a row into such chunks.
LEMMA ChunksFact ==
  ASSUME NEW r \in RowType, NEW t, t.chunk_size \in Nat, t.chunk_overlap \in Nat, t.chunk_overlap < t.chunk_size
  PROVE  Chunked(_split_into_chunks(r, t), r, t.chunk_size)
<1> DEFINE size == t.chunk_size
           step == t.chunk_size - t.chunk_overlap
           last(a) == IF a + size - 1 < r.hi THEN a + size - 1 ELSE r.hi
           chunk(a) == [r EXCEPT !.lo = a, !.hi = last(a)]
           starts == {i \in 1 .. r.hi : (\E k \in 0 .. r.hi : i = 1 + k * step) /\ Says(chunk(i))}
           order == InOrder(starts)
           chunks == _split_into_chunks(r, t)
<1>1. r.hi \in Nat
  BY DEF RowType
<1>2. size \in Nat /\ step \in Nat \ {0} /\ step <= size /\ size >= 1
  OBVIOUS
<1>3. starts \subseteq 1 .. r.hi
  OBVIOUS
<1>4. chunks = [k \in DOMAIN order |-> chunk(order[k])]
  BY DEF _split_into_chunks
<1>5. ASSUME NEW a \in 1 .. r.hi
      PROVE  /\ last(a) \in Nat /\ last(a) <= r.hi /\ last(a) < a + size
             /\ \A x \in 1 .. r.hi : x < a + step => x <= last(a)
             /\ chunk(a) \in RowType /\ ChunkOf(chunk(a), r, size) /\ chunk(a).lo = a /\ chunk(a).hi = last(a)
             /\ \A x \in a .. last(a) : x \notin Part(r).blank => Says(chunk(a))
  <2>1. /\ last(a) \in Nat /\ last(a) <= r.hi /\ last(a) < a + size
        /\ \A x \in 1 .. r.hi : x < a + step => x <= last(a)
    <3> HIDE DEF size, step
    <3> QED BY <1>1, <1>2
  <2> DEFINE z == last(a)
             s == chunk(a)
  <2>2. a \in Nat /\ a >= 1 /\ z \in Nat /\ z <= r.hi /\ z < a + size
    BY <2>1, <1>1
  <2>3. s = [r EXCEPT !.lo = a, !.hi = z]
    OBVIOUS
  <2> HIDE DEF s, z, size, last
  <2>4. s \in RowType /\ s.lo = a /\ s.hi = z /\ ChunkOf(s, r, size)
    BY <2>2, <2>3 DEF RowType, ChunkOf
  <2>5. \A x \in a .. z : x \notin Part(r).blank => Says(s)
    BY <2>4 DEF Says, ChunkOf, Part
  <2> QED BY <2>1, <2>4, <2>5 DEF s, z
<1> HIDE DEF last, chunk
<1>6. \A x \in (1 .. r.hi) \ Part(r).blank : \E a \in starts : a <= x /\ x < a + step
  <2> SUFFICES ASSUME NEW x \in (1 .. r.hi) \ Part(r).blank PROVE \E a \in starts : a <= x /\ x < a + step
    OBVIOUS
  <2> HIDE DEF step, size
  <2>1. PICK k \in 0 .. r.hi : 1 + k * step \in 1 .. x /\ x < 1 + k * step + step
    BY <1>1, <1>2, ChunksReach
  <2> DEFINE a == 1 + k * step
  <2>2. a \in 1 .. x /\ x < a + step
    BY <2>1
  <2>3. a = 1 + k * step
    OBVIOUS
  <2> HIDE DEF a
  <2>4. a \in 1 .. r.hi /\ a <= x
    BY <2>2, <1>1
  <2>5. x \in a .. last(a)
    BY <2>2, <2>4, <1>1, <1>5
  <2>6. a \in starts
    BY <2>3, <2>4, <2>5, <1>5
  <2> QED BY <2>2, <2>4, <2>6
<1> HIDE DEF step, starts, chunks
<1> DEFINE c == Cardinality(starts)
<1>7. /\ c \in Nat /\ DOMAIN order = 1 .. c /\ \A k \in 1 .. c : order[k] \in starts
      /\ \A i \in starts : \E k \in 1 .. c : order[k] = i
  <2>1. PICK n \in Nat : n = r.hi
    BY <1>1
  <2>2. starts \subseteq 1 .. n
    BY <1>3, <2>1
  <2> QED BY <2>2, InOrderFact
<1> HIDE DEF order, c
<1>8. \A k \in 1 .. c : order[k] \in 1 .. r.hi
  BY <1>3, <1>7
<1> HIDE DEF size
<1>10. ASSUME NEW k \in 1 .. c
       PROVE  chunks[k] \in RowType /\ ChunkOf(chunks[k], r, size) /\ chunks[k].lo = order[k] /\ chunks[k].hi = last(order[k])
  <2>1. chunks[k] = chunk(order[k]) /\ order[k] \in 1 .. r.hi
    BY <1>4, <1>7, <1>8
  <2> QED BY <2>1, <1>5
<1>11. chunks = [k \in 1 .. c |-> chunks[k]]
  BY <1>4, <1>7
<1>12. chunks \in Seq(RowType) /\ DOMAIN chunks = 1 .. c
  BY <1>7, <1>10, <1>11, FunctionIsSeq
<1>13. ASSUME NEW x \in (1 .. r.hi) \ Part(r).blank PROVE \E m \in DOMAIN chunks : chunks[m].lo <= x /\ x <= chunks[m].hi
  <2>1. PICK a \in starts : a <= x /\ x < a + step
    BY <1>6
  <2>2. PICK m \in 1 .. c : order[m] = a
    BY <1>7
  <2>3. a \in 1 .. r.hi
    BY <1>3
  <2>4. x <= last(a)
    BY <2>1, <2>3, <1>5
  <2> QED BY <2>1, <2>2, <2>4, <1>10, <1>12
<1> QED BY <1>10, <1>12, <1>13 DEF Chunked, chunks, size

\* The rows that were chosen are cut into chunks, and the others stay.
Splits(new, chosen, size) ==
  /\ \A k \in DOMAIN new : \/ \E i \in chosen : ChunkOf(new[k], rows[i], size)
                           \/ \E i \in DOMAIN rows \ chosen : SameRow(new[k], rows[i])
  /\ \A i \in chosen : \A x \in (1 .. rows[i].hi) \ Part(rows[i]).blank :
       \E k \in DOMAIN new : ChunkOf(new[k], rows[i], size) /\ new[k].lo <= x /\ x <= new[k].hi
  /\ \A i \in DOMAIN rows \ chosen :
       \E k \in DOMAIN new : /\ SamePlace(new[k], rows[i])
                             /\ \A m \in DOMAIN new : m # k => \E j \in DOMAIN rows : j # i /\ new[m].part = rows[j].part

\* A chunk may have any label.
LEMMA ChunkRelabelled ==
  ASSUME NEW r, NEW s, NEW u, NEW size, ChunkOf(s, r, size), SameRow(u, s)
  PROVE  ChunkOf(u, r, size)
BY DEF ChunkOf, SameRow

\* What split_and_forward makes of the rows.
LEMMA SplitFact ==
  ASSUME rows \in Seq(RowType), NEW chosen, chosen \subseteq DOMAIN rows, NEW t,
         t.chunk_size \in Nat, t.chunk_overlap \in Nat, t.chunk_overlap < t.chunk_size, NEW split_docs,
         NEW size, size = t.chunk_size,
         split_docs = FlattenSeq([i \in DOMAIN rows |-> IF i \in chosen THEN _split_into_chunks(rows[i], t) ELSE <<>>]),
         NEW new, new = Relabelled(split_docs \o AtPositions(rows, DOMAIN rows \ chosen))
  PROVE  new \in Seq(RowType) /\ Splits(new, chosen, size)
<1> DEFINE kept == DOMAIN rows \ chosen
           rest == AtPositions(rows, kept)
           seqs == [i \in DOMAIN rows |-> IF i \in chosen THEN _split_into_chunks(rows[i], t) ELSE <<>>]
           all == split_docs \o rest
           L == Len(split_docs)
<1>1. Len(rows) \in Nat /\ DOMAIN rows = 1 .. Len(rows) /\ \A i \in DOMAIN rows : rows[i] \in RowType
  BY LenProperties, ElementOfSeq
<1>2. \A i \in chosen : Chunked(seqs[i], rows[i], size)
  BY <1>1, ChunksFact
<1>3. \A i \in DOMAIN rows : i \notin chosen => seqs[i] = <<>>
  OBVIOUS
<1>4. seqs = [i \in 1 .. Len(rows) |-> seqs[i]] /\ split_docs = FlattenSeq(seqs)
  BY <1>1
<1> HIDE DEF seqs
<1>5. seqs \in Seq(Seq(RowType)) /\ DOMAIN seqs = DOMAIN rows
  <2>1. ASSUME NEW i \in 1 .. Len(rows) PROVE seqs[i] \in Seq(RowType)
    <3>1. CASE i \in chosen
      BY <3>1, <1>2 DEF Chunked
    <3>2. CASE i \notin chosen
      <4>1. <<>> \in Seq(RowType)
        OBVIOUS
      <4>2. seqs[i] = <<>>
        BY <3>2, <1>1, <1>3
      <4> QED BY <4>1, <4>2
    <3> QED BY <3>1, <3>2
  <2> QED BY <2>1, <1>1, <1>4, FunctionIsSeq
<1>6. split_docs \in Seq(RowType) /\ Flattens(split_docs, seqs)
  <2>1. FlattenSeq(seqs) \in Seq(RowType)
    BY <1>5, FlattenTyped
  <2>2. Flattens(FlattenSeq(seqs), seqs)
    BY <1>5, FlattensFact
  <2> QED BY <2>1, <2>2, <1>4
<1>7. rest \in Seq(RowType) /\ Arranged(rest, rows, kept) /\ \A k \in DOMAIN rest : \E i \in kept : rest[k] = rows[i]
  <2>1. kept \subseteq DOMAIN rows
    OBVIOUS
  <2>2. Picks(rest, RowType, rows, kept)
    BY <2>1, PickedFact
  <2> HIDE DEF rest
  <2> QED BY <2>2 DEF Picks
<1>8. PICK f : Arranges(f, rest, rows, kept)
  BY <1>7 DEF Arranged
<1> HIDE DEF rest
<1>9. /\ all \in Seq(RowType)
      /\ \A k \in DOMAIN split_docs : k \in DOMAIN all /\ all[k] = split_docs[k]
      /\ \A k \in DOMAIN rest : L + k \in DOMAIN all /\ all[L + k] = rest[k]
      /\ \A k \in DOMAIN all : k \in DOMAIN split_docs \/ (k - L \in DOMAIN rest /\ all[k] = rest[k - L])
  <2>1. split_docs \in Seq(RowType) /\ rest \in Seq(RowType)
    BY <1>6, <1>7
  <2>2. all \in Seq(RowType)
    BY <2>1, JoinFact
  <2>3. \A k \in DOMAIN split_docs : k \in DOMAIN all /\ all[k] = split_docs[k]
    BY <2>1, JoinFact
  <2>4. \A k \in DOMAIN rest : L + k \in DOMAIN all /\ all[L + k] = rest[k]
    BY <2>1, JoinFact
  <2>5. \A k \in DOMAIN all : k \in DOMAIN split_docs \/ (k - L \in DOMAIN rest /\ all[k] = rest[k - L])
    BY <2>1, JoinFact
  <2> HIDE DEF all, L
  <2> QED BY <2>2, <2>3, <2>4, <2>5
<1>10. L \in Nat /\ DOMAIN split_docs = 1 .. L /\ DOMAIN rest \subseteq Nat /\ DOMAIN all \subseteq Nat
  BY <1>6, <1>7, <1>9, LenProperties
<1>11. /\ new \in Seq(RowType) /\ DOMAIN new = DOMAIN all
       /\ \A k \in DOMAIN all : SameRow(new[k], all[k])
  <2>1. new = Relabelled(all)
    BY DEF rest
  <2> HIDE DEF all
  <2> QED BY <2>1, <1>9, RelabelFact
<1> HIDE DEF all, L
<1>12. ASSUME NEW k \in DOMAIN split_docs
       PROVE  k \in DOMAIN new /\ \E i \in chosen : ChunkOf(new[k], rows[i], size)
  <2>1. PICK i \in DOMAIN seqs : \E m \in DOMAIN seqs[i] : split_docs[k] = seqs[i][m]
    BY <1>6 DEF Flattens
  <2>2. i \in chosen
    <3> SUFFICES ASSUME i \notin chosen PROVE FALSE
      OBVIOUS
    <3>1. seqs[i] = <<>>
      BY <1>3, <1>5
    <3> QED BY <3>1, <2>1
  <2>3. ChunkOf(split_docs[k], rows[i], size)
    BY <2>1, <2>2, <1>2 DEF Chunked
  <2>4. k \in DOMAIN new /\ SameRow(new[k], split_docs[k])
    BY <1>9, <1>11
  <2> QED BY <2>2, <2>3, <2>4, ChunkRelabelled
<1>13. ASSUME NEW k \in DOMAIN rest
       PROVE  L + k \in DOMAIN new /\ f[k] \in kept /\ SameRow(new[L + k], rest[k]) /\ SamePlace(rest[k], rows[f[k]])
  BY <1>8, <1>9, <1>11 DEF Arranges
<1>14. \A k \in DOMAIN new : k \in DOMAIN split_docs \/ (k - L \in DOMAIN rest /\ SameRow(new[k], rest[k - L]))
  BY <1>9, <1>11
<1>15. ASSUME NEW k \in DOMAIN new
       PROVE  \/ \E i \in chosen : ChunkOf(new[k], rows[i], size)
              \/ \E i \in kept : SameRow(new[k], rows[i])
  BY <1>7, <1>12, <1>14
<1>16. ASSUME NEW i \in chosen, NEW x \in (1 .. rows[i].hi) \ Part(rows[i]).blank
       PROVE  \E k \in DOMAIN new : ChunkOf(new[k], rows[i], size) /\ new[k].lo <= x /\ x <= new[k].hi
  <2>1. PICK m \in DOMAIN seqs[i] : seqs[i][m].lo <= x /\ x <= seqs[i][m].hi
    BY <1>2 DEF Chunked
  <2>2. PICK k \in DOMAIN split_docs : split_docs[k] = seqs[i][m]
    BY <1>5, <1>6 DEF Flattens
  <2>3. ChunkOf(split_docs[k], rows[i], size)
    BY <2>2, <1>2 DEF Chunked
  <2>4. k \in DOMAIN new /\ SameRow(new[k], split_docs[k])
    BY <1>9, <1>11
  <2>5. new[k].lo <= x /\ x <= new[k].hi
    BY <2>1, <2>2, <2>4 DEF SameRow
  <2> QED BY <2>3, <2>4, <2>5, ChunkRelabelled
<1>17. ASSUME NEW i \in kept
       PROVE  \E k \in DOMAIN new :
                /\ SamePlace(new[k], rows[i])
                /\ \A m \in DOMAIN new : m # k => \E j \in DOMAIN rows : j # i /\ new[m].part = rows[j].part
  <2>1. PICK k \in DOMAIN rest : f[k] = i
    BY <1>8 DEF Arranges
  <2>2. L + k \in DOMAIN new /\ SameRow(new[L + k], rest[k])
    BY <1>13
  <2>3. SamePlace(new[L + k], rows[i])
    BY <2>1, <2>2, <1>13 DEF SameRow, SamePlace
  <2>4. ASSUME NEW m \in DOMAIN new, m # L + k PROVE \E j \in DOMAIN rows : j # i /\ new[m].part = rows[j].part
    <3>1. CASE m \in DOMAIN split_docs
      BY <3>1, <1>12 DEF ChunkOf
    <3>2. CASE m - L \in DOMAIN rest /\ SameRow(new[m], rest[m - L])
      <4>1. m - L # k
        BY <2>4, <1>9, <1>10, <1>11
      <4>2. f[m - L] # i /\ f[m - L] \in kept
        BY <4>1, <3>2, <2>1, <1>8 DEF Arranges
      <4>3. new[m].part = rows[f[m - L]].part
        BY <3>2, <1>13 DEF SameRow, SamePlace
      <4> QED BY <4>2, <4>3
    <3> QED BY <3>1, <3>2, <1>14
  <2> QED BY <2>2, <2>3, <2>4
<1> QED BY <1>11, <1>15, <1>16, <1>17 DEF Splits

\* The rows that are chosen are texts, those of a raw document its only part.
LEMMA ChosenFact ==
  ASSUME document \in Jobs, RowsInv(rows, 12), Asked("split") # {}, NEW i \in DOMAIN rows,
         rows[i].document_type = "text"
  PROVE  /\ Split(13, rows[i].part) /\ rows[i].part \in DOMAIN document.parts /\ rows[i].lo = 1
         /\ rows[i].hi = Part(rows[i]).len /\ (rows[i].raw => Len(document.parts) = 1)
<1>1. RowRight(rows[i], 12)
  BY RowsFact
<1>2. 12 > 8 /\ ~(12 > 12) /\ 13 > 12
  OBVIOUS
<1>3. KindRight(rows[i], 12) /\ rows[i].part \in DOMAIN document.parts /\ (rows[i].raw <=> rows[i].part = 1)
  BY <1>1 DEF RowRight
<1>4. rows[i].lo = 1 /\ rows[i].hi = Part(rows[i]).len
  BY <1>1, <1>2 DEF RowRight, Split
<1>5. CASE rows[i].raw
  <2>1. document.document_type = "text"
    BY <1>3, <1>5 DEF KindRight
  <2>2. ContentType("text") = "text" /\ "text" \notin Extractable
    BY DEF ContentType, Extractable, Images
  <2>3. document.parts[1].type = "text" /\ Len(document.parts) = 1
    BY <2>1, <2>2, JobFact DEF IsJob
  <2> QED BY <2>3, <1>2, <1>3, <1>4, <1>5 DEF Split
<1>6. CASE ~rows[i].raw
  <2>1. Type(rows[i]) = "text"
    BY <1>2, <1>3, <1>6 DEF KindRight
  <2> QED BY <2>1, <1>2, <1>3, <1>4, <1>6 DEF Split, Type, Part
<1> QED BY <1>5, <1>6

\* The chunks and the other rows hold the parts that the rows held.
LEMMA SplitCovers ==
  ASSUME document \in Jobs, RowsInv(rows, 12), Asked("split") # {}, NEW chosen, chosen \subseteq DOMAIN rows,
         \A i \in chosen : rows[i].document_type = "text", NEW new, NEW size, Splits(new, chosen, size)
  PROVE  Covered(new, 13)
<1> DEFINE old == rows
<1>1. /\ DOMAIN old = 1 .. Len(old) /\ \A i \in DOMAIN old : old[i] \in RowType /\ RowRight(old[i], 12)
      /\ Sources(old) /\ Covered(old, 12)
  BY RowsFact
<1>2. ASSUME NEW i \in chosen
      PROVE  /\ Split(13, old[i].part) /\ old[i].hi = document.parts[old[i].part].len
             /\ (old[i].raw => Len(document.parts) = 1)
  BY ChosenFact DEF Part
<1>3. /\ \A k \in DOMAIN new : \/ \E i \in chosen : ChunkOf(new[k], old[i], size)
                               \/ \E i \in DOMAIN old \ chosen : SameRow(new[k], old[i])
      /\ \A i \in chosen : \A x \in (1 .. old[i].hi) \ Part(old[i]).blank :
           \E k \in DOMAIN new : ChunkOf(new[k], old[i], size) /\ new[k].lo <= x /\ x <= new[k].hi
      /\ \A i \in DOMAIN old \ chosen :
           \E k \in DOMAIN new : /\ SamePlace(new[k], old[i])
                                 /\ \A m \in DOMAIN new : m # k => \E j \in DOMAIN old : j # i /\ new[m].part = old[j].part
      /\ chosen \subseteq DOMAIN old
  BY DEF Splits
<1> HIDE DEF old
<1>4. \A k \in DOMAIN new : \E i \in DOMAIN old : new[k].part = old[i].part /\ new[k].raw = old[i].raw
  BY <1>3 DEF ChunkOf, SameRow
<1>5. Held(new) = Held(old) \/ (Held(new) = {} /\ DOMAIN document.parts = {1} /\ \A k \in DOMAIN new : ~new[k].raw)
  <2>1. CASE \E k \in DOMAIN new : new[k].raw
    <3>1. \E i \in DOMAIN old : old[i].raw
      BY <2>1, <1>4
    <3> QED BY <2>1, <3>1 DEF Held
  <2>2. CASE \A i \in DOMAIN old : ~old[i].raw
    <3>1. \A k \in DOMAIN new : ~new[k].raw
      BY <2>2, <1>4
    <3> QED BY <2>2, <3>1 DEF Held
  <2>3. CASE (\A k \in DOMAIN new : ~new[k].raw) /\ \E i \in DOMAIN old : old[i].raw
    <3>1. PICK i \in DOMAIN old : old[i].raw
      BY <2>3
    <3>2. i \in chosen
      BY <2>3, <3>1, <1>3 DEF SamePlace
    <3>3. Len(document.parts) = 1
      BY <3>1, <3>2, <1>2
    <3>4. DOMAIN document.parts = 1 .. Len(document.parts)
      BY JobFact
    <3>5. DOMAIN document.parts = {1} /\ 2 .. Len(document.parts) = {}
      BY <3>3, <3>4
    <3> QED BY <2>3, <3>5 DEF Held
  <2> QED BY <2>1, <2>2, <2>3
<1>6. \A p : Gone(13, p) <=> Gone(12, p)
  <2>1. 12 > 7 /\ 13 > 7 /\ 12 > 8 /\ 13 > 8
    OBVIOUS
  <2> QED BY <2>1 DEF Gone
<1>7. ASSUME NEW p \in DOMAIN document.parts, p \notin Held(new) \/ Gone(13, p)
      PROVE  Missing(new, p)
  <2>1. CASE p \notin Held(old) \/ Gone(12, p)
    <3>1. Missing(old, p)
      BY <2>1, <1>1 DEF Covered
    <3> QED BY <3>1, <1>4 DEF Missing
  <2>2. CASE p \in Held(old) /\ ~Gone(12, p)
    <3>1. p = 1 /\ \A k \in DOMAIN new : ~new[k].raw
      BY <2>2, <1>5, <1>6, <1>7
    <3>2. \A k \in DOMAIN new : new[k].part # 1
      BY <3>1, <1>4, <1>1 DEF Sources
    <3> QED BY <3>1, <3>2 DEF Missing
  <2> QED BY <2>1, <2>2
<1>8. ASSUME NEW p \in DOMAIN document.parts, p \in Held(new), ~Gone(13, p)
      PROVE  Covers(new, p) /\ (Single(new, p) \/ Split(13, p))
  <2>1. p \in Held(old) /\ ~Gone(12, p)
    BY <1>5, <1>6, <1>8
  <2>2. ~Split(12, p)
    <3>1. ~(12 > 12)
      OBVIOUS
    <3> QED BY <3>1 DEF Split
  <2>3. Covers(old, p) /\ Single(old, p)
    BY <2>1, <2>2, <1>1 DEF Covered
  <2>4. Covers(new, p)
    <3> SUFFICES ASSUME NEW x \in (1 .. document.parts[p].len) \ document.parts[p].blank
                 PROVE  \E k \in DOMAIN new : new[k].part = p /\ new[k].lo <= x /\ x <= new[k].hi
      BY DEF Covers
    <3>1. PICK i \in DOMAIN old : old[i].part = p /\ old[i].lo <= x /\ x <= old[i].hi
      BY <2>3 DEF Covers
    <3>2. CASE i \in chosen
      <4>1. x \in (1 .. old[i].hi) \ Part(old[i]).blank
        BY <3>1, <3>2, <1>2 DEF Part
      <4> QED BY <4>1, <3>1, <3>2, <1>3 DEF ChunkOf
    <3>3. CASE i \notin chosen
      BY <3>1, <3>3, <1>3 DEF SamePlace
    <3> QED BY <3>2, <3>3
  <2>5. ASSUME ~Split(13, p) PROVE Single(new, p)
    <3>1. PICK i \in DOMAIN old : \A j \in DOMAIN old : old[j].part = p <=> j = i
      BY <2>3 DEF Single
    <3>2. i \notin chosen
      BY <2>5, <3>1, <1>2
    <3>3. PICK k \in DOMAIN new :
            /\ SamePlace(new[k], old[i])
            /\ \A m \in DOMAIN new : m # k => \E j \in DOMAIN old : j # i /\ new[m].part = old[j].part
      BY <3>2, <1>3
    <3>4. \A m \in DOMAIN new : new[m].part = p <=> m = k
      BY <3>1, <3>3 DEF SamePlace
    <3> QED BY <3>4 DEF Single
  <2> QED BY <2>4, <2>5
<1> QED BY <1>7, <1>8 DEF Covered

\* Before the splitter there is one row for each part that is left.
LEMMA RowsCounted ==
  ASSUME document \in Jobs, RowsInv(rows, 12), NEW i \in DOMAIN rows
  PROVE  Cardinality(Remaining(rows[i].raw)) = Len(rows)
<1>1. /\ Len(rows) \in Nat /\ DOMAIN rows = 1 .. Len(rows) /\ Sources(rows) /\ Covered(rows, 12)
      /\ \A k \in DOMAIN rows : RowRight(rows[k], 12)
  BY RowsFact
<1>2. \A p : ~Split(12, p)
  <2>1. ~(12 > 12)
    OBVIOUS
  <2> QED BY <2>1 DEF Split
<1>3. \A p : Gone(12, p) <=> Unwanted(p)
  <2>1. 12 > 7 /\ 12 > 8
    OBVIOUS
  <2> QED BY <2>1 DEF Gone, Unwanted
<1>4. \A k \in DOMAIN rows : rows[k].part \in DOMAIN document.parts /\ rows[k].part \in Held(rows) /\ ~Unwanted(rows[k].part)
  BY <1>1, <1>3 DEF Covered, Missing, Sources
<1>5. Held(rows) = IF rows[i].raw THEN {1} ELSE 2 .. Len(document.parts)
  <2>1. CASE rows[i].raw
    BY <2>1 DEF Held
  <2>2. CASE ~rows[i].raw
    <3>1. rows[i].part # 1
      BY <2>2, <1>1 DEF Sources
    <3> QED BY <3>1, <2>2, <1>4 DEF Held
  <2> QED BY <2>1, <2>2
<1>6. DOMAIN document.parts = 1 .. Len(document.parts) /\ Len(document.parts) \in Nat \ {0}
  BY JobFact
<1> DEFINE P == Remaining(rows[i].raw)
<1>7. \A p : p \in P <=> p \in Held(rows) /\ ~Unwanted(p)
  <2>1. ~Unwanted(1)
    BY DEF Unwanted
  <2> QED BY <2>1, <1>5 DEF Remaining
<1>8. P \subseteq DOMAIN document.parts
  BY <1>5, <1>6, <1>7
<1> HIDE DEF P
<1> DEFINE f == [k \in 1 .. Len(rows) |-> rows[k].part]
<1>9. f \in [1 .. Len(rows) -> P]
  BY <1>1, <1>4, <1>7
<1>10. \A p \in P : \E k \in DOMAIN rows : \A m \in DOMAIN rows : rows[m].part = p <=> m = k
  BY <1>1, <1>2, <1>3, <1>7, <1>8 DEF Covered, Single
<1>11. \A p \in P : \E k \in 1 .. Len(rows) : f[k] = p
  BY <1>1, <1>10
<1>12. \A k, m \in 1 .. Len(rows) : f[k] = f[m] => k = m
  <2> SUFFICES ASSUME NEW k \in 1 .. Len(rows), NEW m \in 1 .. Len(rows), f[k] = f[m] PROVE k = m
    OBVIOUS
  <2>1. f[k] \in P /\ rows[k].part = f[k] /\ rows[m].part = f[k]
    BY <1>9
  <2> QED BY <2>1, <1>1, <1>10
<1> HIDE DEF f
<1>13. ExistsBijection(1 .. Len(rows), P)
  <2>1. f \in Bijection(1 .. Len(rows), P)
    BY <1>9, <1>11, <1>12, Fun_IsBij
  <2> QED BY <2>1 DEF ExistsBijection
<1>14. IsFiniteSet(1 .. Len(rows)) /\ Cardinality(1 .. Len(rows)) = Len(rows)
  <2>1. PICK n \in Nat : n = Len(rows)
    BY <1>1
  <2>2. IsFiniteSet(1 .. n) /\ Cardinality(1 .. n) = IF 1 > n THEN 0 ELSE n - 1 + 1
    BY FS_Interval
  <2>3. Cardinality(1 .. n) = n
    BY <2>2
  <2> QED BY <2>1, <2>2, <2>3
<1>15. Cardinality(P) = Cardinality(1 .. Len(rows))
  BY <1>13, <1>14, FS_Bijection
<1> QED BY <1>14, <1>15 DEF P

\* Which rows the splitter cuts.
Chosen(i, t) ==
  /\ rows[i].document_type = "text" /\ rows[i].label < Len(rows)
  /\ document.document_type \in t.split_source_types

\* A text is cut just if the label of its part is a position.
LEMMA ChosenPlace ==
  ASSUME document \in Jobs, RowsInv(rows, 12), NEW i \in DOMAIN rows, NEW t
  PROVE  Chosen(i, t) <=> /\ rows[i].document_type = "text" /\ document.document_type \in t.split_source_types
                          /\ rows[i].part < 2 + Cardinality(Remaining(rows[i].raw))
<1>1. rows[i] \in RowType /\ RowRight(rows[i], 12) /\ Len(rows) \in Nat /\ i \in 1 .. Len(rows)
  BY RowsFact
<1>2. /\ rows[i].label \in Nat /\ rows[i].part \in Nat /\ rows[i].raw \in BOOLEAN
      /\ rows[i].label + 2 = IF rows[i].raw THEN 2 ELSE rows[i].part
      /\ (rows[i].raw <=> rows[i].part = 1)
  <2>1. 12 <= 12
    OBVIOUS
  <2> QED BY <2>1, <1>1 DEF RowType, RowRight, PlaceRight
<1>3. Cardinality(Remaining(rows[i].raw)) = Len(rows)
  BY RowsCounted
<1>4. rows[i].label < Len(rows) <=> rows[i].part < 2 + Len(rows)
  BY <1>1, <1>2
<1> QED BY <1>3, <1>4 DEF Chosen

\* A row that the splitter leaves as it is.
LEMMA UncutRow ==
  ASSUME document \in Jobs, RowsInv(rows, 12), Asked("split") # {}, NEW i \in DOMAIN rows,
         ~Chosen(i, document.tasks[Min(Asked("split"))])
  PROVE  RowRight(rows[i], 13)
<1> DEFINE t == document.tasks[Min(Asked("split"))]
<1>1. RowRight(rows[i], 12) /\ rows[i] \in RowType
  BY RowsFact
<1>2. ~(12 > 12) /\ 12 > 8 /\ ~(13 <= 12)
  OBVIOUS
<1>3. rows[i].lo = 1 /\ rows[i].hi = Part(rows[i]).len
  BY <1>1, <1>2 DEF RowRight, Split
<1>4. Type(rows[i]) = "text" => rows[i].document_type = "text"
  <2> SUFFICES ASSUME Type(rows[i]) = "text" PROVE rows[i].document_type = "text"
    OBVIOUS
  <2>1. KindRight(rows[i], 12) /\ rows[i].raw \in BOOLEAN /\ (rows[i].raw <=> rows[i].part = 1)
    BY <1>1 DEF RowRight, RowType
  <2>2. CASE rows[i].raw
    <3>1. document.parts[1].type = "text"
      BY <2>1, <2>2 DEF Type, Part
    <3>2. ContentType(document.document_type) = "text"
      BY <3>1, JobFact DEF IsJob
    <3>3. document.document_type = "text"
      BY <3>2 DEF ContentType
    <3> QED BY <3>3, <2>1, <2>2 DEF KindRight
  <2>3. CASE ~rows[i].raw
    BY <2>1, <2>3 DEF KindRight
  <2> QED BY <2>2, <2>3
<1>5. Type(rows[i]) = "text" =>
        ~(document.document_type \in t.split_source_types /\ rows[i].part < 2 + Cardinality(Remaining(rows[i].raw)))
  BY <1>4, ChosenPlace
<1>6. PlaceRight(rows[i], 13)
  BY <1>2, <1>3, <1>5 DEF PlaceRight, CutRight
<1>7. PICK n : n = 12
  OBVIOUS
<1>8. n \in Nat /\ Leaves(n) /\ RowRight(rows[i], n) /\ PlaceRight(rows[i], n + 1) /\ n + 1 = 13
  BY <1>1, <1>6, <1>7 DEF Leaves
<1>9. RowRight(rows[i], n + 1)
  BY <1>8, RowLeft
<1> QED BY <1>8, <1>9

\* What split_and_forward does to the rows.
LEMMA SplitRows ==
  ASSUME document \in Jobs, RowsInv(rows, 12), Asked("split") # {},
         NEW t, t = document.tasks[Min(Asked("split"))],
         t.chunk_size \in Nat, t.chunk_overlap \in Nat, t.chunk_overlap < t.chunk_size,
         NEW o \in split_and_forward(t), ~o.raised
  PROVE  RowsInv(o.rows, 13)
<1> DEFINE chosen == {i \in DOMAIN rows : /\ rows[i].document_type = "text"
                                          /\ rows[i].label < Len(rows)
                                          /\ document.document_type \in t.split_source_types}
           split_docs == FlattenSeq([i \in DOMAIN rows |->
                           IF i \in chosen THEN _split_into_chunks(rows[i], t) ELSE <<>>])
           new == Relabelled(split_docs \o AtPositions(rows, DOMAIN rows \ chosen))
<1>1. o = Ok(new) \/ (o = Ok(rows) /\ chosen = {})
  BY OkFact DEF split_and_forward
<1>2. rows \in Seq(RowType) /\ \A i \in DOMAIN rows : rows[i] \in RowType /\ RowRight(rows[i], 12)
  BY RowsFact
<1>3. PICK n : n = 12
  OBVIOUS
<1>4. n \in Nat /\ n # 7 /\ n # 8 /\ RowsInv(rows, n)
  BY <1>3
<1>5. CASE o = Ok(rows) /\ chosen = {}
  <2>1. RowsInv(rows, n + 1)
    <3>1. \A i \in DOMAIN rows : RowRight(rows[i], n + 1)
      <4>1. \A i \in DOMAIN rows : ~Chosen(i, t)
        BY <1>5 DEF Chosen
      <4>2. \A i \in DOMAIN rows : RowRight(rows[i], 13)
        BY <4>1, UncutRow
      <4> QED BY <4>2, <1>3
    <3>2. \A i \in DOMAIN rows : ~Gone(n + 1, rows[i].part)
      BY <1>4, StillThere
    <3>3. \A i \in DOMAIN rows : SamePlace(rows[i], rows[i])
      BY DEF SamePlace
    <3> HIDE DEF new, chosen, split_docs
    <3> QED BY <3>1, <3>2, <3>3, <1>2, <1>4, MappedRows
  <2>2. n + 1 = 13
    BY <1>3
  <2>3. o.rows = rows
    <3> HIDE DEF new, chosen, split_docs
    <3> QED BY <1>5, OkFact
  <2> QED BY <2>1, <2>2, <2>3
<1>6. CASE o = Ok(new)
  <2>1. chosen \subseteq DOMAIN rows /\ \A i \in chosen : rows[i].document_type = "text"
    OBVIOUS
  <2>2. new \in Seq(RowType) /\ Splits(new, chosen, t.chunk_size)
    <3> DEFINE S == chosen
    <3>1. S \subseteq DOMAIN rows
      OBVIOUS
    <3> QED BY <3>1, <1>2, SplitFact
  <2> DEFINE size == t.chunk_size
  <2>7. \A i \in DOMAIN rows : i \in chosen <=> Chosen(i, t)
    BY DEF Chosen
  <2> HIDE DEF new, chosen, size
  <2>8. Splits(new, chosen, size)
    BY <2>2 DEF size
  <2>3. Covered(new, 13)
    BY <2>1, <2>8, SplitCovers
  <2>4. ASSUME NEW k \in DOMAIN new PROVE RowRight(new[k], 13)
    <3>1. CASE \E i \in chosen : ChunkOf(new[k], rows[i], size)
      <4>1. PICK i \in chosen : ChunkOf(new[k], rows[i], size)
        BY <3>1
      <4>2. Split(13, rows[i].part) /\ rows[i].part \in DOMAIN document.parts
        BY <2>1, ChosenFact
      <4>3. Part(rows[i]).len \in Nat
        BY <4>2, JobFact DEF Part, Parts
      <4>4. RowRight(rows[i], 12)
        BY <1>2, <2>1
      <4>5. /\ size = document.tasks[Min(Asked("split"))].chunk_size
            /\ document.document_type \in document.tasks[Min(Asked("split"))].split_source_types
            /\ rows[i].part < 2 + Cardinality(Remaining(rows[i].raw))
        BY <2>1, <2>7, ChosenPlace DEF size
      <4> QED BY <4>1, <4>2, <4>3, <4>4, <4>5, ChunkRight
    <3>2. CASE \E i \in DOMAIN rows \ chosen : SameRow(new[k], rows[i])
      <4>1. PICK i \in DOMAIN rows \ chosen : SameRow(new[k], rows[i])
        BY <3>2
      <4>2. RowRight(rows[i], 13)
        BY <2>7, UncutRow
      <4> QED BY <4>1, <4>2, SameRowRight
    <3> QED BY <3>1, <3>2, <2>8 DEF Splits
  <2>5. ~(13 <= 7)
    OBVIOUS
  <2>6. RowsInv(new, 13)
    BY <2>2, <2>3, <2>4, <2>5 DEF RowsInv
  <2> QED BY <2>6, <1>6, OkFact
<1> QED BY <1>1, <1>5, <1>6

-----------------------------------------------------------------------------
(* The embeddings.                                                         *)

\* The first numbers of places of a sequence, and a batch of it.
Place(r) == <<r.part, r.lo>>
PlacesUpTo(rs, e) == [k \in 1 .. e |-> Place(rs[k])]
BatchEnd(rs, b) == IF b * BatchSize < Len(rs) THEN b * BatchSize ELSE Len(rs)
Batch(rs, b) == SubSeq(rs, (b - 1) * BatchSize + 1, BatchEnd(rs, b))
BatchPlaces(rs, b) == [k \in DOMAIN Batch(rs, b) |-> Place(Batch(rs, b)[k])]

\* The places of the first rows are a sequence.
LEMMA PlacesFact ==
  ASSUME NEW rs \in Seq(RowType), NEW e \in 0 .. Len(rs)
  PROVE  /\ PlacesUpTo(rs, e) \in Seq(Nat \X Nat) /\ Len(PlacesUpTo(rs, e)) = e
         /\ \A k \in 1 .. e : PlacesUpTo(rs, e)[k] = Place(rs[k])
<1>1. Len(rs) \in Nat /\ DOMAIN rs = 1 .. Len(rs) /\ \A k \in 1 .. Len(rs) : rs[k] \in RowType
  BY LenProperties, ElementOfSeq
<1>2. e \in Nat /\ \A k \in 1 .. e : rs[k] \in RowType
  BY <1>1
<1> DEFINE f == PlacesUpTo(rs, e)
<1>3. \A k \in 1 .. e : f[k] = Place(rs[k]) /\ Place(rs[k]) \in Nat \X Nat
  BY <1>2 DEF PlacesUpTo, Place, RowType
<1>4. f = [k \in 1 .. e |-> f[k]]
  BY DEF PlacesUpTo
<1> HIDE DEF f
<1>5. f \in Seq(Nat \X Nat) /\ Len(f) = e
  <2>1. PICK n \in Nat : n = e
    BY <1>2
  <2> DEFINE U == Nat \X Nat
  <2>2. \A k \in 1 .. n : f[k] \in U
    BY <2>1, <1>3
  <2> HIDE DEF U
  <2>3. f \in Seq(U) /\ Len(f) = n
    BY <2>1, <2>2, <1>4, FunctionIsSeq
  <2> QED BY <2>1, <2>3 DEF U
<1> QED BY <1>3, <1>5 DEF f

\* A batch is the slice after the batches before it.
LEMMA BatchFact ==
  ASSUME NEW rs \in Seq(RowType), NEW m \in Nat, BatchSize \in Nat \ {0}
  PROVE  /\ BatchPlaces(rs, m + 1) \in Seq(Nat \X Nat)
         /\ BatchEnd(rs, m) \in 0 .. Len(rs) /\ BatchEnd(rs, m + 1) \in 0 .. Len(rs)
         /\ PlacesUpTo(rs, BatchEnd(rs, m)) \o BatchPlaces(rs, m + 1) = PlacesUpTo(rs, BatchEnd(rs, m + 1))
<1> DEFINE n == Len(rs)
           a == m * BatchSize
           e == BatchEnd(rs, m)
           g == BatchEnd(rs, m + 1)
           s == Batch(rs, m + 1)
           q == BatchPlaces(rs, m + 1)
<1>1. n \in Nat /\ DOMAIN rs = 1 .. n /\ \A k \in 1 .. n : rs[k] \in RowType
  BY LenProperties, ElementOfSeq
<1>2. a \in Nat /\ (m + 1) * BatchSize = a + BatchSize
  OBVIOUS
<1>3. e = IF a < n THEN a ELSE n
  BY DEF BatchEnd
<1>4. g = IF a + BatchSize < n THEN a + BatchSize ELSE n
  BY <1>2 DEF BatchEnd
<1>5. s = SubSeq(rs, a + 1, g)
  <2>1. (m + 1) - 1 = m
    OBVIOUS
  <2> QED BY <2>1 DEF Batch
<1> HIDE DEF n, a, e, g, s
<1>6. e \in 0 .. n /\ g \in 0 .. n
  BY <1>1, <1>2, <1>3, <1>4
<1> DEFINE l == IF a + 1 <= g THEN g - a ELSE 0
<1>7. l \in Nat /\ e + l = g
  BY <1>1, <1>2, <1>3, <1>4
<1>8. s \in Seq(RowType) /\ Len(s) = l /\ \A k \in 1 .. l : s[k] = rs[a + k]
  <2>1. \A i \in a + 1 .. g : rs[i] \in RowType
    BY <1>1, <1>2, <1>6
  <2>2. a + 1 \in Int /\ g \in Int
    BY <1>1, <1>2, <1>6
  <2>3. /\ SubSeq(rs, a + 1, g) \in Seq(RowType)
        /\ Len(SubSeq(rs, a + 1, g)) = IF a + 1 <= g THEN g - (a + 1) + 1 ELSE 0
        /\ \A i \in 1 .. g - (a + 1) + 1 : SubSeq(rs, a + 1, g)[i] = rs[a + 1 + i - 1]
    BY <2>1, <2>2, SubSeqProperties
  <2>4. Len(s) = l
    BY <2>3, <1>2, <1>5, <1>6
  <2>5. ASSUME NEW k \in 1 .. l PROVE s[k] = rs[a + k]
    <3>1. k \in 1 .. g - (a + 1) + 1 /\ a + 1 + k - 1 = a + k
      BY <1>1, <1>2, <1>6
    <3> QED BY <3>1, <2>3, <1>5
  <2> QED BY <2>3, <2>4, <2>5, <1>5
<1>9. \A k \in 1 .. l : l # 0 /\ a = e /\ e + k \in 1 .. g /\ e + k \in 1 .. n
  BY <1>1, <1>2, <1>3, <1>4
<1> HIDE DEF l
<1>10. DOMAIN s = 1 .. l
  BY <1>8, LenProperties
<1>11. q = [k \in 1 .. l |-> Place(s[k])]
  BY <1>10 DEF BatchPlaces, s
<1> HIDE DEF q
<1>12. \A k \in 1 .. l : q[k] = Place(rs[e + k]) /\ q[k] \in Nat \X Nat
  <2> SUFFICES ASSUME NEW k \in 1 .. l PROVE q[k] = Place(rs[e + k]) /\ q[k] \in Nat \X Nat
    OBVIOUS
  <2>1. q[k] = Place(rs[e + k])
    BY <1>8, <1>9, <1>11
  <2>2. rs[e + k] \in RowType
    BY <1>1, <1>9
  <2>3. Place(rs[e + k]) \in Nat \X Nat
    BY <2>2 DEF Place, RowType
  <2> QED BY <2>1, <2>3
<1>13. q \in Seq(Nat \X Nat) /\ Len(q) = l
  <2>1. q = [k \in 1 .. l |-> q[k]]
    BY <1>11
  <2> QED BY <2>1, <1>7, <1>12, FunctionIsSeq
<1> DEFINE p == PlacesUpTo(rs, e)
           u == PlacesUpTo(rs, g)
<1>14. p \in Seq(Nat \X Nat) /\ Len(p) = e /\ \A k \in 1 .. e : p[k] = Place(rs[k])
  BY <1>6, PlacesFact DEF n
<1>15. u \in Seq(Nat \X Nat) /\ Len(u) = g /\ \A k \in 1 .. g : u[k] = Place(rs[k])
  BY <1>6, PlacesFact DEF n
<1> HIDE DEF p, u
<1>16. /\ p \o q \in Seq(Nat \X Nat) /\ Len(p \o q) = g
       /\ \A i \in 1 .. g : (p \o q)[i] = IF i <= e THEN p[i] ELSE q[i - e]
  <2>1. /\ Len(p \o q) = Len(p) + Len(q) /\ p \o q \in Seq(Nat \X Nat)
        /\ \A i \in 1 .. (Len(p) + Len(q)) : (p \o q)[i] = IF i <= Len(p) THEN p[i] ELSE q[i - Len(p)]
    BY <1>13, <1>14, ConcatProperties
  <2> QED BY <2>1, <1>7, <1>13, <1>14
<1>17. \A i \in 1 .. g : (p \o q)[i] = u[i]
  <2> SUFFICES ASSUME NEW i \in 1 .. g PROVE (p \o q)[i] = u[i]
    OBVIOUS
  <2>1. CASE i <= e
    <3>1. i \in 1 .. e
      BY <2>1, <1>6
    <3> QED BY <2>1, <3>1, <1>14, <1>15, <1>16
  <2>2. CASE ~(i <= e)
    <3>1. i - e \in 1 .. l /\ e + (i - e) = i
      BY <2>2, <1>6, <1>7
    <3> QED BY <2>2, <3>1, <1>12, <1>15, <1>16
  <2> QED BY <2>1, <2>2
<1>18. p \o q = u
  BY <1>15, <1>16, <1>17, SeqEqual
<1> QED BY <1>6, <1>13, <1>18 DEF p, q, u, e, g, n

\* Put together, the answers are as many as the prompts, and each at its prompt.
LEMMA AnswersFact ==
  ASSUME NEW rs \in Seq(RowType), BatchSize \in Nat \ {0}
  PROVE  _async_runner(rs) = PlacesUpTo(rs, Len(rs))
<1> DEFINE n == Len(rs)
           U == Nat \X Nat
           number == (n + BatchSize - 1) \div BatchSize
           answers == [b \in 1 .. number |-> BatchPlaces(rs, b)]
           first(m) == [b \in 1 .. m |-> answers[b]]
           S == {m \in Nat : m <= number => FlattenSeq(first(m)) = PlacesUpTo(rs, BatchEnd(rs, m))}
<1>1. n \in Nat
  BY LenProperties
<1>2. number \in Nat /\ n <= number * BatchSize
  <2> DEFINE a == n + BatchSize - 1
             c == number * BatchSize
  <2>1. a \in Nat
    BY <1>1
  <2> HIDE DEF a
  <2>2. a \div BatchSize \in Nat /\ a < (a \div BatchSize) * BatchSize + BatchSize
    BY <2>1
  <2>3. number \in Nat /\ c \in Nat /\ a < c + BatchSize
    BY <2>2 DEF a
  <2> HIDE DEF c
  <2>4. n <= c
    BY <2>3, <1>1 DEF a
  <2> QED BY <2>3, <2>4 DEF c
<1>3. _async_runner(rs) = FlattenSeq(answers)
  <2> DEFINE batches == _generate_batches(rs)
  <2>1. DOMAIN batches = 1 .. number /\ \A b \in 1 .. number : batches[b] = Batch(rs, b)
    BY DEF _generate_batches, Batch, BatchEnd
  <2>2. [b \in DOMAIN batches |-> [k \in DOMAIN batches[b] |-> <<batches[b][k].part, batches[b][k].lo>>]] = answers
    <3> HIDE DEF batches
    <3> QED BY <2>1 DEF BatchPlaces, Place
  <2> QED BY <2>2 DEF _async_runner
<1>4. \A b \in 1 .. number : answers[b] = BatchPlaces(rs, b) /\ answers[b] \in Seq(U)
  <2> SUFFICES ASSUME NEW b \in 1 .. number PROVE BatchPlaces(rs, b) \in Seq(U)
    OBVIOUS
  <2>1. b - 1 \in Nat /\ (b - 1) + 1 = b
    BY <1>2
  <2>2. BatchPlaces(rs, (b - 1) + 1) \in Seq(U)
    BY <2>1, BatchFact
  <2> QED BY <2>1, <2>2
<1> HIDE DEF answers, number
<1>5. ASSUME NEW m \in Nat, m <= number PROVE first(m) \in Seq(Seq(U)) /\ Len(first(m)) = m
  <2> DEFINE f == first(m)
  <2>1. \A b \in 1 .. m : f[b] = answers[b] /\ b \in 1 .. number
    BY <1>2, <1>5
  <2>2. f = [b \in 1 .. m |-> f[b]]
    OBVIOUS
  <2> HIDE DEF f, U
  <2>3. \A b \in 1 .. m : f[b] \in Seq(U)
    BY <2>1, <1>4 DEF U
  <2>4. f \in Seq(Seq(U)) /\ Len(f) = m
    BY <2>2, <2>3, FunctionIsSeq
  <2> QED BY <2>4 DEF f
<1>6. 0 \in S
  <2>1. BatchEnd(rs, 0) = 0
    BY <1>1 DEF BatchEnd
  <2>2. first(0) = <<>> /\ PlacesUpTo(rs, 0) = <<>>
    BY DEF PlacesUpTo
  <2> QED BY <2>1, <2>2, FlattenEmpty
<1>7. ASSUME NEW m \in Nat, m \in S PROVE m + 1 \in S
  <2> SUFFICES ASSUME m + 1 <= number
               PROVE  FlattenSeq(first(m + 1)) = PlacesUpTo(rs, BatchEnd(rs, m + 1))
    OBVIOUS
  <2>1. m <= number /\ m + 1 \in 1 .. number
    BY <1>2
  <2>2. FlattenSeq(first(m)) = PlacesUpTo(rs, BatchEnd(rs, m))
    BY <2>1, <1>7
  <2>3. first(m) \in Seq(Seq(U)) /\ Len(first(m)) = m
    BY <2>1, <1>5
  <2>4. first(m + 1) \in Seq(Seq(U)) /\ Len(first(m + 1)) = m + 1
    BY <1>5
  <2>5. answers[m + 1] \in Seq(U) /\ answers[m + 1] = BatchPlaces(rs, m + 1)
    BY <2>1, <1>4
  <2>6. (\A b \in 1 .. m : first(m)[b] = answers[b]) /\ \A b \in 1 .. m + 1 : first(m + 1)[b] = answers[b]
    OBVIOUS
  <2> DEFINE f == first(m)
             g == first(m + 1)
             h == Append(f, answers[m + 1])
  <2>7. h = g
    <3> HIDE DEF first, U
    <3>1. h \in Seq(Seq(U)) /\ Len(h) = m + 1 /\ h[m + 1] = answers[m + 1] /\ \A b \in 1 .. m : h[b] = f[b]
      BY <2>3, <2>5, AppendProperties
    <3> HIDE DEF f, g, h, S
    <3>2. \A b \in 1 .. m + 1 : b = m + 1 \/ b \in 1 .. m
      OBVIOUS
    <3>3. \A b \in 1 .. m + 1 : h[b] = g[b]
      BY <3>1, <3>2, <2>6 DEF f, g
    <3>4. g \in Seq(Seq(U)) /\ Len(g) = m + 1
      BY <2>4 DEF g
    <3> QED BY <3>1, <3>3, <3>4, SeqEqual
  <2>8. FlattenSeq(f) \in Seq(U) /\ FlattenSeq(h) = FlattenSeq(f) \o answers[m + 1]
    <3> HIDE DEF first, U
    <3>1. FlattenSeq(f) \in Seq(U)
      BY <2>3, FlattenTyped
    <3> QED BY <3>1, <2>3, <2>5, FlattenAppend
  <2>9. PlacesUpTo(rs, BatchEnd(rs, m)) \o BatchPlaces(rs, m + 1) = PlacesUpTo(rs, BatchEnd(rs, m + 1))
    BY BatchFact
  <2> HIDE DEF h, first, S, U
  <2> QED BY <2>2, <2>5, <2>7, <2>8, <2>9
<1>8. \A m \in Nat : m \in S
  <2> HIDE DEF S
  <2> QED BY <1>6, <1>7, SetInduction
<1>9. FlattenSeq(first(number)) = PlacesUpTo(rs, BatchEnd(rs, number))
  <2>1. number \in S /\ number <= number
    BY <1>2, <1>8
  <2> QED BY <2>1
<1>10. first(number) = answers
  BY DEF answers
<1>11. BatchEnd(rs, number) = n
  <2> DEFINE c == number * BatchSize
  <2>1. c \in Nat /\ n <= c
    BY <1>2
  <2>2. BatchEnd(rs, number) = IF c < n THEN c ELSE n
    BY DEF BatchEnd
  <2> HIDE DEF c, n
  <2> QED BY <2>1, <2>2, <1>1
<1> HIDE DEF first
<1> QED BY <1>3, <1>9, <1>10, <1>11

\* A row with an embedding, where it has a prompt, and what is made of some rows.
Embedded(s, r) ==
  /\ s \in RowType /\ s.part = r.part /\ s.raw = r.raw /\ s.document_type = r.document_type
  /\ s.lo = r.lo /\ s.hi = r.hi /\ s.content = r.content /\ s.table_content = r.table_content
  /\ s.caption = r.caption /\ s.embedding = IF HasPrompt(r) THEN Place(r) ELSE r.embedding
EmbeddedOf(new, S) ==
  new \in Seq(RowType) /\ Arranged(new, rows, S) /\ \A k \in DOMAIN new : \E i \in S : Embedded(new[k], rows[i])

\* Rows that keep their places are arranged as they were.
LEMMA ArrangedSame ==
  ASSUME NEW new, NEW mid, NEW old, NEW S, Arranged(mid, old, S), DOMAIN new = DOMAIN mid,
         \A k \in DOMAIN mid : SamePlace(new[k], mid[k])
  PROVE  Arranged(new, old, S)
<1>1. PICK f : Arranges(f, mid, old, S)
  BY DEF Arranged
<1>2. Arranges(f, new, old, S)
  BY <1>1 DEF Arranges, SamePlace
<1> QED BY <1>2 DEF Arranged

\* _add_embeddings gives each row the embedding of its own prompt.
LEMMA AddedFact ==
  ASSUME NEW rs \in Seq(RowType), BatchSize \in Nat \ {0}
  PROVE  /\ _add_embeddings(rs) \in Seq(RowType) /\ DOMAIN _add_embeddings(rs) = DOMAIN rs
         /\ \A k \in DOMAIN rs : _add_embeddings(rs)[k] = [rs[k] EXCEPT !.embedding = Place(rs[k])]
<1> DEFINE new == _add_embeddings(rs)
<1>1. Len(rs) \in Nat /\ DOMAIN rs = 1 .. Len(rs) /\ \A k \in 1 .. Len(rs) : rs[k] \in RowType
  BY LenProperties, ElementOfSeq
<1>2. \A k \in 1 .. Len(rs) : _async_runner(rs)[k] = Place(rs[k])
  BY AnswersFact DEF PlacesUpTo
<1>3. new = [k \in 1 .. Len(rs) |-> [rs[k] EXCEPT !.embedding = _async_runner(rs)[k]]]
  BY <1>1 DEF _add_embeddings
<1>4. \A k \in 1 .. Len(rs) : new[k] = [rs[k] EXCEPT !.embedding = Place(rs[k])]
  BY <1>2, <1>3
<1>5. new = [k \in 1 .. Len(rs) |-> new[k]]
  BY <1>3
<1> HIDE DEF new
<1>6. ASSUME NEW k \in 1 .. Len(rs) PROVE new[k] \in RowType
  <2> DEFINE r == rs[k]
             s == new[k]
  <2>1. r \in RowType /\ s = [r EXCEPT !.embedding = Place(r)]
    BY <1>1, <1>4
  <2> HIDE DEF r, s
  <2>2. s \in RowType
    BY <2>1 DEF RowType, Place
  <2> QED BY <2>2 DEF s
<1>7. new \in Seq(RowType) /\ DOMAIN new = 1 .. Len(rs)
  BY <1>1, <1>5, <1>6, FunctionIsSeq
<1> QED BY <1>1, <1>4, <1>7 DEF new

\* The rows of one kind, embedded, and those without a prompt.
LEMMA EmbeddedPicks ==
  ASSUME rows \in Seq(RowType), BatchSize \in Nat \ {0}, NEW S, S \subseteq DOMAIN rows
  PROVE  /\ (\A i \in S : HasPrompt(rows[i])) => EmbeddedOf(_add_embeddings(AtPositions(rows, S)), S)
         /\ (\A i \in S : ~HasPrompt(rows[i])) => EmbeddedOf(AtPositions(rows, S), S)
<1> DEFINE mid == AtPositions(rows, S)
           new == _add_embeddings(mid)
<1>1. mid \in Seq(RowType) /\ Arranged(mid, rows, S) /\ \A k \in DOMAIN mid : \E i \in S : mid[k] = rows[i]
  <2>1. Picks(mid, RowType, rows, S)
    BY PickedFact
  <2> HIDE DEF mid
  <2> QED BY <2>1 DEF Picks
<1>2. \A i \in S : rows[i] \in RowType
  BY ElementOfSeq, LenProperties
<1> HIDE DEF mid
<1>3. ASSUME \A i \in S : HasPrompt(rows[i]) PROVE EmbeddedOf(new, S)
  <2>1. /\ new \in Seq(RowType) /\ DOMAIN new = DOMAIN mid
        /\ \A k \in DOMAIN mid : new[k] = [mid[k] EXCEPT !.embedding = Place(mid[k])]
    BY <1>1, AddedFact
  <2> HIDE DEF new
  <2>2. ASSUME NEW k \in DOMAIN mid
        PROVE  SamePlace(new[k], mid[k]) /\ \E i \in S : Embedded(new[k], rows[i])
    <3>1. PICK i \in S : mid[k] = rows[i]
      BY <1>1
    <3> DEFINE r == rows[i]
               s == new[k]
    <3>2. r \in RowType /\ s = [r EXCEPT !.embedding = Place(r)] /\ HasPrompt(r)
      BY <3>1, <2>1, <1>2, <1>3
    <3> HIDE DEF r, s
    <3>3. SamePlace(s, r) /\ Embedded(s, r)
      BY <3>2 DEF RowType, SamePlace, Embedded, Place
    <3> QED BY <3>1, <3>3 DEF r, s
  <2>3. Arranged(new, rows, S)
    BY <2>1, <2>2, <1>1, ArrangedSame
  <2> QED BY <2>1, <2>2, <2>3 DEF EmbeddedOf
<1>4. ASSUME \A i \in S : ~HasPrompt(rows[i]) PROVE EmbeddedOf(mid, S)
  <2>1. \A i \in S : Embedded(rows[i], rows[i])
    BY <1>2, <1>4 DEF Embedded
  <2> QED BY <2>1, <1>1 DEF EmbeddedOf
<1> QED BY <1>3, <1>4 DEF mid

\* The kinds are put together.
LEMMA EmbeddedJoin ==
  ASSUME NEW a, NEW b, NEW S, NEW T, S \cap T = {}, EmbeddedOf(a, S), EmbeddedOf(b, T)
  PROVE  EmbeddedOf(a \o b, S \cup T)
<1>1. /\ a \in Seq(RowType) /\ Arranged(a, rows, S) /\ \A k \in DOMAIN a : \E i \in S : Embedded(a[k], rows[i])
      /\ b \in Seq(RowType) /\ Arranged(b, rows, T) /\ \A k \in DOMAIN b : \E i \in T : Embedded(b[k], rows[i])
  BY DEF EmbeddedOf
<1>2. Arranged(a \o b, rows, S \cup T)
  BY <1>1, ArrangedJoin
<1>3. /\ a \o b \in Seq(RowType)
      /\ \A k \in DOMAIN a : k \in DOMAIN (a \o b) /\ (a \o b)[k] = a[k]
      /\ \A k \in DOMAIN (a \o b) : k \in DOMAIN a \/ (k - Len(a) \in DOMAIN b /\ (a \o b)[k] = b[k - Len(a)])
  BY <1>1, JoinFact
<1> DEFINE c == a \o b
<1>4. ASSUME NEW k \in DOMAIN c PROVE \E i \in S \cup T : Embedded(c[k], rows[i])
  <2> HIDE DEF c
  <2>1. CASE k \in DOMAIN a
    BY <2>1, <1>1, <1>3 DEF c
  <2>2. CASE k - Len(a) \in DOMAIN b /\ c[k] = b[k - Len(a)]
    BY <2>2, <1>1
  <2> QED BY <2>1, <2>2, <1>3 DEF c
<1> QED BY <1>2, <1>3, <1>4 DEF EmbeddedOf

\* A row that is embedded is right.
LEMMA EmbeddedRow ==
  ASSUME NEW r, NEW s, RowRight(r, 14), Embedded(s, r), r.part # 0
  PROVE  RowRight(s, 15)
<1>1. /\ s \in RowType /\ s.part = r.part /\ s.raw = r.raw /\ s.document_type = r.document_type
      /\ s.lo = r.lo /\ s.hi = r.hi /\ s.content = r.content /\ s.table_content = r.table_content
      /\ s.caption = r.caption /\ s.embedding = IF HasPrompt(r) THEN Place(r) ELSE r.embedding
  BY DEF Embedded
<1>2. /\ 14 > 8 /\ 15 > 8 /\ 14 > 7 /\ 15 > 7 /\ 14 > 9 /\ 15 > 9 /\ 14 > 13 /\ 15 > 13 /\ ~(14 > 14) /\ 15 > 14
      /\ 14 <= 14 /\ ~(15 <= 14) /\ 14 > 12 /\ 15 > 12
  OBVIOUS
<1>3. Part(s) = Part(r) /\ Type(s) = Type(r) /\ (meets_criteria(s, "table") <=> meets_criteria(r, "table"))
  BY <1>1 DEF meets_criteria, Type, Part
<1>4. HasPrompt(s) <=> HasPrompt(r)
  BY <1>1, <1>3 DEF HasPrompt, Says
<1>5. EnrichmentsRight(s, 15)
  <2>1. EnrichmentsRight(r, 14)
    BY DEF RowRight
  <2>2. s.embedding \in {<<0, 0>>, <<s.part, s.lo>>}
    BY <2>1, <1>1, <1>2 DEF EnrichmentsRight, Place
  <2>3. HasPrompt(s) => s.embedding # <<0, 0>>
    BY <1>1, <1>4 DEF Place
  <2> QED BY <2>1, <2>2, <2>3, <1>1, <1>2, <1>3 DEF EnrichmentsRight
<1>6. KindRight(s, 15)
  BY <1>1, <1>2, <1>3 DEF RowRight, KindRight
<1>7. Split(15, s.part) <=> Split(14, r.part)
  BY <1>1, <1>2 DEF Split
<1>8. PlaceRight(s, 15)
  <2>1. PlaceRight(r, 14) /\ ~(14 <= 12) /\ 14 + 1 = 15
    BY DEF RowRight
  <2> QED BY <2>1, <1>1, PlaceStays
<1> QED BY <1>1, <1>2, <1>3, <1>5, <1>6, <1>7, <1>8 DEF RowRight

\* What _generate_text_embeddings_df does to the rows.
LEMMA EmbedRows ==
  ASSUME document \in Jobs, RowsInv(rows, 14), BatchSize \in Nat \ {0}, NEW t,
         NEW o \in _generate_text_embeddings_df(t), ~o.raised
  PROVE  RowsInv(o.rows, 15)
<1> DEFINE Prompts(type) == {i \in DOMAIN rows : rows[i].document_type = type /\ HasPrompt(rows[i])}
           Rest == {i \in DOMAIN rows : ~HasPrompt(rows[i])}
           Texts == _add_embeddings(AtPositions(rows, Prompts("text")))
           Tables == _add_embeddings(AtPositions(rows, Prompts("structured")))
           Pictures == _add_embeddings(AtPositions(rows, Prompts("image")))
           Others == AtPositions(rows, Rest)
           all == Texts \o Tables \o Pictures \o Others
<1>1. o = Ok(Relabelled(all))
  BY OkFact DEF _generate_text_embeddings_df
<1>2. rows \in Seq(RowType) /\ \A i \in DOMAIN rows : rows[i] \in RowType /\ RowRight(rows[i], 14)
  BY RowsFact
<1>3. EmbeddedOf(Texts, Prompts("text")) /\ EmbeddedOf(Tables, Prompts("structured")) /\ EmbeddedOf(Pictures, Prompts("image"))
  <2>1. ASSUME NEW type PROVE EmbeddedOf(_add_embeddings(AtPositions(rows, Prompts(type))), Prompts(type))
    <3> DEFINE S == Prompts(type)
    <3>1. S \subseteq DOMAIN rows /\ \A i \in S : HasPrompt(rows[i])
      OBVIOUS
    <3> HIDE DEF S
    <3>2. EmbeddedOf(_add_embeddings(AtPositions(rows, S)), S)
      BY <3>1, <1>2, EmbeddedPicks
    <3> QED BY <3>2 DEF S
  <2> HIDE DEF Prompts
  <2> QED BY <2>1
<1>4. EmbeddedOf(Others, Rest)
  <2>1. Rest \subseteq DOMAIN rows /\ \A i \in Rest : ~HasPrompt(rows[i])
    OBVIOUS
  <2> HIDE DEF Rest
  <2> QED BY <2>1, <1>2, EmbeddedPicks
<1>5. /\ Prompts("text") \cap Prompts("structured") = {}
      /\ (Prompts("text") \cup Prompts("structured")) \cap Prompts("image") = {}
      /\ (Prompts("text") \cup Prompts("structured") \cup Prompts("image")) \cap Rest = {}
  OBVIOUS
<1>6. Prompts("text") \cup Prompts("structured") \cup Prompts("image") \cup Rest = DOMAIN rows
  <2>1. \A i \in DOMAIN rows : HasPrompt(rows[i]) => rows[i].document_type \in {"text", "structured", "image"}
    BY DEF HasPrompt
  <2> QED BY <2>1
<1> HIDE DEF Prompts, Rest, Texts, Tables, Pictures, Others
<1>7. EmbeddedOf(all, DOMAIN rows)
  <2>1. EmbeddedOf(Texts \o Tables, Prompts("text") \cup Prompts("structured"))
    BY <1>3, <1>5, EmbeddedJoin
  <2>2. EmbeddedOf(Texts \o Tables \o Pictures, Prompts("text") \cup Prompts("structured") \cup Prompts("image"))
    BY <2>1, <1>3, <1>5, EmbeddedJoin
  <2>3. EmbeddedOf(all, Prompts("text") \cup Prompts("structured") \cup Prompts("image") \cup Rest)
    BY <2>2, <1>4, <1>5, EmbeddedJoin
  <2> QED BY <2>3, <1>6
<1> HIDE DEF all
<1> DEFINE new == Relabelled(all)
<1>8. all \in Seq(RowType) /\ Arranged(all, rows, DOMAIN rows) /\ \A k \in DOMAIN all : \E i \in DOMAIN rows : Embedded(all[k], rows[i])
  BY <1>7 DEF EmbeddedOf
<1>9. new \in Seq(RowType) /\ DOMAIN new = DOMAIN all /\ \A k \in DOMAIN all : SameRow(new[k], all[k])
  BY <1>8, RelabelFact
<1> HIDE DEF new
<1>10. Arranged(new, rows, DOMAIN rows)
  <2>1. \A k \in DOMAIN all : SamePlace(new[k], all[k])
    BY <1>9 DEF SameRow, SamePlace
  <2> QED BY <2>1, <1>8, <1>9, ArrangedSame
<1>11. ASSUME NEW k \in DOMAIN new PROVE RowRight(new[k], 15)
  <2>1. PICK i \in DOMAIN rows : Embedded(all[k], rows[i])
    BY <1>8, <1>9
  <2>2. RowRight(rows[i], 14) /\ rows[i].part # 0
    BY <1>2, JobFact DEF RowRight
  <2>3. RowRight(all[k], 15)
    BY <2>1, <2>2, EmbeddedRow
  <2>4. 15 \in Nat /\ 15 > 12
    OBVIOUS
  <2> QED BY <2>3, <2>4, <1>9, SameRowRight
<1>12. PICK n : n = 14
  OBVIOUS
<1>13. n \in Nat /\ n >= 7 /\ n + 1 = 15 /\ n # 7 /\ n # 8
  BY <1>12
<1>14. RowsInv(rows, n)
  BY <1>12
<1>15. \A i \in DOMAIN rows : ~Gone(n + 1, rows[i].part)
  BY <1>13, <1>14, StillThere
<1>16. \A k \in DOMAIN new : RowRight(new[k], n + 1)
  BY <1>11, <1>13
<1>17. RowsInv(new, n + 1)
  BY <1>9, <1>10, <1>13, <1>14, <1>15, <1>16, ArrangedRows
<1>18. o.rows = new
  BY <1>1, OkFact DEF new
<1> QED BY <1>13, <1>17, <1>18

-----------------------------------------------------------------------------
(* A step keeps the document.                                              *)

\* What is right of the rows depends on the document only.
LEMMA SameDocument ==
  ASSUME document' = document
  PROVE  \A rs, n : RowsInv(rs, n)' <=> RowsInv(rs, n)
<1>1. /\ \A type : Asked(type)' = Asked(type)
      /\ \A r : Part(r)' = Part(r)
      /\ \A p : (Copy(p)' <=> Copy(p)) /\ (Small(p)' <=> Small(p))
  BY DEF Asked, Part, Copy, Small
<1>2. /\ \A r : Type(r)' = Type(r)
      /\ \A r, subtype : meets_criteria(r, subtype)' <=> meets_criteria(r, subtype)
      /\ \A type, flag : Applied(type, flag)' <=> Applied(type, flag)
      /\ \A type : Asks(type)' <=> Asks(type)
  BY <1>1 DEF Type, meets_criteria, Applied, Asks
<1>3. /\ \A n, p : (Gone(n, p)' <=> Gone(n, p)) /\ (MarkedCopy(n, p)' <=> MarkedCopy(n, p)) /\ (Split(n, p)' <=> Split(n, p))
      /\ \A r, n : EnrichmentsRight(r, n)' <=> EnrichmentsRight(r, n)
  <2>1. \A n, p : Gone(n, p)' <=> Gone(n, p)
    BY <1>1, <1>2 DEF Gone
  <2>2. \A n, p : MarkedCopy(n, p)' <=> MarkedCopy(n, p)
    BY <1>1, <1>2 DEF MarkedCopy
  <2>3. \A n, p : Split(n, p)' <=> Split(n, p)
    BY <1>1 DEF Split
  <2>4. \A r : HasPrompt(r)' <=> HasPrompt(r)
    BY <1>1 DEF HasPrompt, Says
  <2>5. \A r, n : EnrichmentsRight(r, n)' <=> EnrichmentsRight(r, n)
    BY <2>4, <1>1, <1>2 DEF EnrichmentsRight
  <2> QED BY <2>1, <2>2, <2>3, <2>5
<1>4. \A r, n : KindRight(r, n)' <=> KindRight(r, n)
  BY <1>2, <1>3 DEF KindRight
<1>5. \A r, n : RowRight(r, n)' <=> RowRight(r, n)
  <2>1. \A raw : Remaining(raw)' = Remaining(raw)
    <3>1. \A p : Unwanted(p)' <=> Unwanted(p)
      BY <1>1, <1>2 DEF Unwanted
    <3> QED BY <3>1 DEF Remaining
  <2>2. \A r : CutRight(r)' <=> CutRight(r)
    BY <2>1, <1>1 DEF CutRight
  <2>3. \A r, n : PlaceRight(r, n)' <=> PlaceRight(r, n)
    BY <2>2, <1>1, <1>2 DEF PlaceRight
  <2> QED BY <2>3, <1>1, <1>2, <1>3, <1>4 DEF RowRight
<1>6. \A rs : (Held(rs)' = Held(rs)) /\ (Ordered(rs)' <=> Ordered(rs)) /\ \A p : Covers(rs, p)' <=> Covers(rs, p)
  BY DEF Held, Ordered, Covers
<1>7. \A rs, n : Covered(rs, n)' <=> Covered(rs, n)
  BY <1>3, <1>6 DEF Covered
<1> QED BY <1>5, <1>6, <1>7 DEF RowsInv

\* So it is of the tasks.
LEMMA SameJobTasks ==
  ASSUME document' = document
  PROVE  \A list, n : TasksInv(list, n)' <=> TasksInv(list, n)
<1>1. \A type : Asked(type)' = Asked(type)
  BY DEF Asked
<1>2. \A list, type : SameTasks(list, type)' <=> SameTasks(list, type)
  BY <1>1 DEF SameTasks
<1> QED BY <1>2 DEF TasksInv

-----------------------------------------------------------------------------
(* The tasks that a message carries.                                       *)

\* RemoveAt closes the gap.
LEMMA RemoveFact ==
  ASSUME NEW T, NEW list \in Seq(T), NEW j \in 1 .. Len(list)
  PROVE  /\ RemoveAt(list, j) \in Seq(T) /\ DOMAIN RemoveAt(list, j) = 1 .. Len(list) - 1
         /\ \A k \in 1 .. Len(list) - 1 : RemoveAt(list, j)[k] = IF k < j THEN list[k] ELSE list[k + 1]
<1> DEFINE n == Len(list)
           a == SubSeq(list, 1, j - 1)
           b == SubSeq(list, j + 1, n)
<1>1. n \in Nat /\ j \in Nat /\ 1 <= j /\ j <= n
  BY LenProperties
<1>2. \A k \in 1 .. n : list[k] \in T
  BY LenProperties, ElementOfSeq
<1>3. a \in Seq(T) /\ Len(a) = j - 1 /\ \A k \in 1 .. j - 1 : a[k] = list[k]
  <2>1. 1 \in Int /\ j - 1 \in Int /\ \A k \in 1 .. j - 1 : list[k] \in T
    BY <1>1, <1>2
  <2>2. /\ a \in Seq(T) /\ Len(a) = IF 1 <= j - 1 THEN (j - 1) - 1 + 1 ELSE 0
        /\ \A k \in 1 .. (j - 1) - 1 + 1 : a[k] = list[1 + k - 1]
    BY <2>1, SubSeqProperties
  <2> HIDE DEF a
  <2> QED BY <2>2, <1>1
<1>4. b \in Seq(T) /\ Len(b) = n - j /\ \A k \in 1 .. n - j : b[k] = list[j + k]
  <2>1. j + 1 \in Int /\ n \in Int /\ \A k \in j + 1 .. n : list[k] \in T
    BY <1>1, <1>2
  <2>2. /\ b \in Seq(T) /\ Len(b) = IF j + 1 <= n THEN n - (j + 1) + 1 ELSE 0
        /\ \A k \in 1 .. n - (j + 1) + 1 : b[k] = list[j + 1 + k - 1]
    BY <2>1, SubSeqProperties
  <2> HIDE DEF b, n
  <2> QED BY <2>2, <1>1
<1>5. RemoveAt(list, j) = a \o b
  BY DEF RemoveAt
<1> HIDE DEF a, b, n
<1>6. /\ a \o b \in Seq(T) /\ Len(a \o b) = Len(a) + Len(b)
      /\ \A k \in 1 .. (Len(a) + Len(b)) : (a \o b)[k] = IF k <= Len(a) THEN a[k] ELSE b[k - Len(a)]
  BY <1>3, <1>4, ConcatProperties
<1>7. Len(a \o b) = n - 1 /\ DOMAIN (a \o b) = 1 .. n - 1
  BY <1>1, <1>3, <1>4, <1>6, LenProperties
<1>8. \A k \in 1 .. n - 1 : (a \o b)[k] = IF k < j THEN list[k] ELSE list[k + 1]
  <2> SUFFICES ASSUME NEW k \in 1 .. n - 1 PROVE (a \o b)[k] = IF k < j THEN list[k] ELSE list[k + 1]
    OBVIOUS
  <2>1. (a \o b)[k] = IF k <= j - 1 THEN a[k] ELSE b[k - (j - 1)]
    BY <1>1, <1>3, <1>4, <1>6
  <2>2. CASE k < j
    <3>1. k <= j - 1 /\ k \in 1 .. j - 1
      BY <2>2, <1>1
    <3> QED BY <2>1, <2>2, <3>1, <1>3
  <2>3. CASE ~(k < j)
    <3>1. ~(k <= j - 1) /\ k - (j - 1) \in 1 .. n - j /\ j + (k - (j - 1)) = k + 1
      BY <2>3, <1>1
    <3> QED BY <2>1, <2>3, <3>1, <1>4
  <2> QED BY <2>2, <2>3
<1> QED BY <1>5, <1>6, <1>7, <1>8 DEF n

\* The first task of a type is taken from the list.
LEMMA TakeFact ==
  ASSUME NEW T, NEW list \in Seq(T), NEW type, OfType(list, type) # {}, NEW j, j = Min(OfType(list, type)),
         NEW new, new = RemoveAt(list, j)
  PROVE  /\ new \in Seq(T) /\ j \in DOMAIN list /\ list[j].type = type
         /\ \A k \in DOMAIN new : \E i \in DOMAIN list : i # j /\ new[k] = list[i]
         /\ \A other : other # type /\ SameTasks(list, other) => SameTasks(new, other)
         /\ OneOfAType(list) => OneOfAType(new) /\ \A k \in DOMAIN new : new[k].type # type
<1> DEFINE n == Len(list)
           back(k) == IF k < j THEN k ELSE k + 1
           forth(i) == IF i < j THEN i ELSE i - 1
<1>1. n \in Nat /\ DOMAIN list = 1 .. n
  BY LenProperties
<1>2. j \in DOMAIN list /\ list[j].type = type
  <2>1. OfType(list, type) \subseteq Nat
    BY <1>1 DEF OfType
  <2> QED BY <2>1, MinFact DEF OfType
<1>3. new \in Seq(T) /\ DOMAIN new = 1 .. n - 1 /\ \A k \in 1 .. n - 1 : new[k] = list[back(k)]
  <2>1. j \in 1 .. Len(list)
    BY <1>1, <1>2
  <2>2. /\ new \in Seq(T) /\ DOMAIN new = 1 .. n - 1
        /\ \A k \in 1 .. n - 1 : new[k] = IF k < j THEN list[k] ELSE list[k + 1]
    BY <2>1, RemoveFact
  <2>3. \A k : (IF k < j THEN list[k] ELSE list[k + 1]) = list[back(k)]
    OBVIOUS
  <2> QED BY <2>2, <2>3
<1> HIDE DEF n
<1>4. \A k \in 1 .. n - 1 : back(k) \in 1 .. n /\ back(k) # j /\ forth(back(k)) = k
  BY <1>1, <1>2
<1>5. \A i \in 1 .. n : i # j => forth(i) \in 1 .. n - 1 /\ back(forth(i)) = i
  BY <1>1, <1>2
<1>6. \A i, m \in 1 .. n : i <= m => forth(i) <= forth(m)
  BY <1>1, <1>2
<1>7. \A k \in 1 .. n - 1 : k \in Nat
  BY <1>1
<1>8. \A i \in 1 .. n : i \in Nat
  BY <1>1
<1> HIDE DEF back, forth
<1>9. \A i \in 1 .. n : i # j => new[forth(i)] = list[i]
  BY <1>3, <1>5
<1>10. ASSUME NEW other, other # type, SameTasks(list, other) PROVE SameTasks(new, other)
  <2>1. \A k \in OfType(new, other) : back(k) \in OfType(list, other) /\ new[k] = list[back(k)]
    BY <1>1, <1>3, <1>4 DEF OfType
  <2>2. \A i \in OfType(list, other) : i # j /\ forth(i) \in OfType(new, other) /\ new[forth(i)] = list[i]
    BY <1>1, <1>2, <1>3, <1>5, <1>9, <1>10 DEF OfType
  <2>3. {new[k] : k \in OfType(new, other)} = {list[i] : i \in OfType(list, other)}
    BY <2>1, <2>2
  <2>4. ASSUME Asked(other) # {} PROVE new[Min(OfType(new, other))] = document.tasks[Min(Asked(other))]
    <3> DEFINE m == Min(OfType(list, other))
               l == Min(OfType(new, other))
    <3>1. list[m] = document.tasks[Min(Asked(other))] /\ OfType(list, other) # {}
      BY <2>4, <1>10 DEF SameTasks
    <3>2. OfType(list, other) \subseteq 1 .. n /\ OfType(new, other) \subseteq 1 .. n - 1
      BY <1>1, <1>3 DEF OfType
    <3>3. OfType(list, other) \subseteq Nat /\ OfType(new, other) \subseteq Nat
      BY <3>2, <1>7, <1>8
    <3>4. m \in OfType(list, other) /\ \A i \in OfType(list, other) : m <= i
      BY <3>1, <3>3, MinFact
    <3>5. OfType(new, other) # {} /\ forth(m) \in OfType(new, other) /\ new[forth(m)] = list[m]
      BY <3>4, <2>2
    <3>6. l \in OfType(new, other) /\ \A k \in OfType(new, other) : l <= k
      BY <3>3, <3>5, MinFact
    <3> HIDE DEF l, m
    <3>7. m <= back(l) /\ m \in 1 .. n /\ back(l) \in 1 .. n
      BY <3>2, <3>4, <3>6, <2>1
    <3>8. forth(m) <= forth(back(l)) /\ forth(back(l)) = l
      BY <3>2, <3>6, <3>7, <1>4, <1>6
    <3>9. forth(m) \in Nat /\ l \in Nat /\ l <= forth(m) /\ forth(m) <= l
      BY <3>3, <3>5, <3>6, <3>8
    <3>10. forth(m) = l
      BY <3>9
    <3> QED BY <3>1, <3>5, <3>10 DEF l, m
  <2>5. {new[k] : k \in OfType(new, other)} = {document.tasks[i] : i \in Asked(other)}
    BY <2>3, <1>10 DEF SameTasks
  <2> QED BY <2>4, <2>5 DEF SameTasks
<1>11. ASSUME OneOfAType(list) PROVE OneOfAType(new) /\ \A k \in DOMAIN new : new[k].type # type
  <2>1. \A k \in DOMAIN new : new[k].type # type
    BY <1>1, <1>2, <1>3, <1>4, <1>11 DEF OneOfAType
  <2>2. ASSUME NEW i \in DOMAIN new, NEW k \in DOMAIN new, new[i].type = new[k].type PROVE i = k
    <3>1. back(i) = back(k)
      BY <2>2, <1>1, <1>3, <1>4, <1>11 DEF OneOfAType
    <3> QED BY <3>1, <1>3, <1>4
  <2> QED BY <2>1, <2>2 DEF OneOfAType
<1>12. \A k \in DOMAIN new : \E i \in DOMAIN list : i # j /\ new[k] = list[i]
  BY <1>1, <1>3, <1>4
<1> QED BY <1>2, <1>3, <1>10, <1>11, <1>12

\* The nodes that take tasks, by type.
LEMMA TakenFact ==
  /\ DOMAIN TakenAt = {"dedup", "filter", "table_data_extract", "split", "caption", "embed", "store"}
  /\ TakenAt["dedup"] = 7 /\ TakenAt["filter"] = 8 /\ TakenAt["table_data_extract"] = 9
  /\ TakenAt["split"] = 12 /\ TakenAt["caption"] = 13 /\ TakenAt["embed"] = 14 /\ TakenAt["store"] = 15
  /\ \A type \in DOMAIN TakenAt : TakenAt[type] \in Nat
BY DEF TakenAt

\* A stage that takes this type of tasks, of these.
LEMMA StageTasks ==
  ASSUME NEW n \in Nat, TasksInv(tasks, n), NEW type, NEW required,
         type \in DOMAIN TakenAt => TakenAt[type] <= n,
         \A t \in ToSet(tasks) : Took(n + 1, t) => Took(n, t) \/ (t.type = type /\ t \in required),
         NEW new, new = IF filter_by_task(type, required) THEN RemoveAt(tasks, remove_task_by_type(type)) ELSE tasks
  PROVE  TasksInv(new, n + 1)
<1> DEFINE T == ToSet(document.tasks)
<1>1. /\ tasks \in Seq(T)
      /\ \A k \in DOMAIN TakenAt : n <= TakenAt[k] => SameTasks(tasks, k)
      /\ OneOfAType(document.tasks) => OneOfAType(tasks) /\ \A i \in DOMAIN tasks : ~Took(n, tasks[i])
  BY DEF TasksInv
<1> HIDE DEF T
<1>2. \A k \in DOMAIN TakenAt : n + 1 <= TakenAt[k] => n <= TakenAt[k] /\ k # type
  BY TakenFact
<1>3. ToSet(tasks) = {tasks[i] : i \in DOMAIN tasks}
  BY DEF ToSet
<1>4. CASE ~filter_by_task(type, required)
  <2>1. new = tasks
    BY <1>4
  <2>2. OneOfAType(document.tasks) => \A i \in DOMAIN tasks : ~Took(n + 1, tasks[i])
    BY <1>1, <1>3, <1>4 DEF filter_by_task
  <2>3. \A k \in DOMAIN TakenAt : n + 1 <= TakenAt[k] => SameTasks(tasks, k)
    BY <1>1, <1>2
  <2> QED BY <2>1, <2>2, <2>3, <1>1 DEF TasksInv, T
<1>5. CASE filter_by_task(type, required)
  <2> DEFINE j == Min(OfType(tasks, type))
  <2>1. OfType(tasks, type) # {}
    BY <1>3, <1>5 DEF filter_by_task, OfType
  <2>2. new = RemoveAt(tasks, j)
    BY <1>5 DEF remove_task_by_type, OfType
  <2> HIDE DEF j
  <2>3. /\ new \in Seq(T)
        /\ \A k \in DOMAIN new : \E i \in DOMAIN tasks : new[k] = tasks[i]
        /\ \A other : other # type /\ SameTasks(tasks, other) => SameTasks(new, other)
        /\ OneOfAType(tasks) => OneOfAType(new) /\ \A k \in DOMAIN new : new[k].type # type
    BY <2>1, <2>2, <1>1, TakeFact DEF j
  <2>4. \A k \in DOMAIN TakenAt : n + 1 <= TakenAt[k] => SameTasks(new, k)
    BY <2>3, <1>1, <1>2
  <2>5. ASSUME OneOfAType(document.tasks) PROVE OneOfAType(new) /\ \A k \in DOMAIN new : ~Took(n + 1, new[k])
    BY <2>3, <2>5, <1>1, <1>3
  <2> QED BY <2>3, <2>4, <2>5 DEF TasksInv, T
<1> QED BY <1>4, <1>5

\* A node that takes no tasks.
LEMMA TasksPass ==
  ASSUME NEW n \in Nat, TasksInv(tasks, n), \A t : Took(n + 1, t) => Took(n, t)
  PROVE  TasksInv(tasks, n + 1)
<1>1. \A k \in DOMAIN TakenAt : n + 1 <= TakenAt[k] => n <= TakenAt[k]
  BY TakenFact
<1> QED BY <1>1 DEF TasksInv

\* What a stage finds of its tasks: what the job asks for.
LEMMA FirstFact ==
  ASSUME document \in Jobs, NEW n \in Nat, TasksInv(tasks, n), NEW type \in DOMAIN TakenAt, n <= TakenAt[type]
  PROVE  /\ filter_by_task(type, AnyTask) <=> Asked(type) # {}
         /\ filter_by_task(type, OfImages) => Asks(type)
         /\ type \in {"dedup", "filter"} /\ Asks(type) => filter_by_task(type, OfImages)
         /\ Asked(type) # {} => /\ First(type) = document.tasks[Min(Asked(type))]
                                /\ First(type).type = type /\ IsTask(First(type))
<1>1. {tasks[i] : i \in OfType(tasks, type)} = {document.tasks[i] : i \in Asked(type)}
  BY DEF TasksInv, SameTasks
<1>2. Asked(type) # {} => tasks[Min(OfType(tasks, type))] = document.tasks[Min(Asked(type))]
  BY DEF TasksInv, SameTasks
<1>3. First(type) = tasks[Min(OfType(tasks, type))]
  BY DEF First, remove_task_by_type, OfType
<1>4. ToSet(tasks) = {tasks[i] : i \in DOMAIN tasks}
  BY DEF ToSet
<1>5. \A t : t \in ToSet(tasks) /\ t.type = type <=> \E i \in OfType(tasks, type) : t = tasks[i]
  BY <1>4 DEF OfType
<1>6. \A t : t \in ToSet(tasks) /\ t.type = type <=> \E i \in Asked(type) : t = document.tasks[i]
  BY <1>1, <1>5
<1>7. filter_by_task(type, AnyTask) <=> Asked(type) # {}
  BY <1>6 DEF filter_by_task, AnyTask
<1>8. filter_by_task(type, OfImages) => Asks(type)
  BY <1>6 DEF filter_by_task, OfImages, Asks
<1>9. type \in {"dedup", "filter"} /\ Asks(type) => filter_by_task(type, OfImages)
  BY <1>6 DEF filter_by_task, OfImages, Asks, Asked
<1>10. ASSUME Asked(type) # {} PROVE First(type).type = type /\ IsTask(First(type))
  <2>1. Asked(type) \subseteq Nat
    BY JobFact
  <2>2. Min(Asked(type)) \in Asked(type)
    BY <2>1, <1>10, MinFact
  <2>3. First(type) = document.tasks[Min(Asked(type))]
    BY <1>2, <1>3, <1>10
  <2>4. Min(Asked(type)) \in DOMAIN document.tasks /\ document.tasks[Min(Asked(type))].type = type
    BY <2>2 DEF Asked
  <2> QED BY <2>3, <2>4, JobFact
<1> QED BY <1>2, <1>3, <1>7, <1>8, <1>9, <1>10

-----------------------------------------------------------------------------
(* The steps.                                                              *)

\* The nodes have different names.
LEMMA NodeFact ==
  ASSUME NEW n \in 1 .. 19, NEW m \in 1 .. 19, AllNodes[n] = AllNodes[m]
  PROVE  n = m
BY DEF AllNodes

\* What has to hold of the next state, of which the document is the same.
LEMMA NextState ==
  ASSUME PipelineInv, document' = document, NEW n \in 1 .. 16, at = n, at' = n + 1,
         stats' = stats, answer' = answer, cm_failed' \in BOOLEAN,
         ~cm_failed' => ~cm_failed /\ TasksInv(tasks', n + 1) /\ RowsInv(rows', n + 1) /\ (n = 15 => Asked("store") = {})
  PROVE  PipelineInv'
<1>1. /\ document' \in Jobs /\ at' \in 1 .. 19 /\ at # 19 /\ at' # 19 /\ at <= 17 /\ at' <= 17
      /\ at' > 15 <=> at > 15 \/ n = 15
  BY DEF PipelineInv
<1>2. stats = [submitted_jobs |-> 1, completed_jobs |-> 0, failed_jobs |-> 0] /\ answer = "none"
  BY <1>1 DEF PipelineInv
<1>3. ASSUME ~cm_failed' PROVE TasksInv(tasks, at)' /\ RowsInv(rows, at)' /\ (at' > 15 => (Asked("store") = {})')
  <2>1. TasksInv(tasks, at)' <=> TasksInv(tasks', at')
    BY SameJobTasks
  <2>2. RowsInv(rows, at)' <=> RowsInv(rows', at')
    BY SameDocument
  <2>3. Asked("store")' = Asked("store")
    BY DEF Asked
  <2>4. at' > 15 => Asked("store") = {}
    BY <1>1, <1>3 DEF PipelineInv
  <2> QED BY <2>1, <2>2, <2>3, <2>4, <1>3
<1> QED BY <1>1, <1>2, <1>3 DEF PipelineInv

\* A stage that keeps the tasks and the rows right as far as its process_fn does.
LEMMA StageStep ==
  ASSUME PipelineInv, NEW n \in 1 .. 16, NEW node, node = AllNodes[n], NEW type, NEW required, NEW outcomes,
         Stage(node, type, required, outcomes),
         type \in DOMAIN TakenAt => TakenAt[type] <= n,
         \A t \in ToSet(tasks) : Took(n + 1, t) => Took(n, t) \/ (t.type = type /\ t \in required),
         TasksInv(tasks, n) /\ RowsInv(rows, n) /\ filter_by_task(type, required)
           => \A o \in outcomes : ~o.raised => RowsInv(o.rows, n + 1) /\ n # 15,
         TasksInv(tasks, n) /\ RowsInv(rows, n) /\ ~filter_by_task(type, required)
           => RowsInv(rows, n + 1) /\ (n = 15 => Asked("store") = {})
  PROVE  PipelineInv'
<1>1. /\ Nodes[at] = node /\ at' = at + 1 /\ document' = document /\ stats' = stats /\ answer' = answer
      /\ IF cm_failed \/ ~filter_by_task(type, required) THEN UNCHANGED <<tasks, rows, cm_failed>>
         ELSE /\ tasks' = RemoveAt(tasks, remove_task_by_type(type))
              /\ \E o \in outcomes :
                   IF o.raised THEN cm_failed' = TRUE /\ UNCHANGED rows
                   ELSE rows' = o.rows /\ UNCHANGED cm_failed
  BY DEF Stage, At, Forward, Fail
<1>2. at = n
  <2>1. at \in 1 .. 19 /\ n \in 1 .. 19
    BY DEF PipelineInv
  <2> QED BY <2>1, <1>1, NodeFact DEF Nodes
<1>3. /\ cm_failed \in BOOLEAN
      /\ ~cm_failed => TasksInv(tasks, n) /\ RowsInv(rows, n)
  BY <1>2 DEF PipelineInv
<1>4. cm_failed' \in BOOLEAN
  BY <1>1, <1>3
<1>5. ASSUME ~cm_failed'
      PROVE  ~cm_failed /\ TasksInv(tasks', n + 1) /\ RowsInv(rows', n + 1) /\ (n = 15 => Asked("store") = {})
  <2>1. ~cm_failed
    BY <1>1, <1>3, <1>5
  <2>2. tasks' = IF filter_by_task(type, required) THEN RemoveAt(tasks, remove_task_by_type(type)) ELSE tasks
    BY <2>1, <1>1
  <2>3. TasksInv(tasks', n + 1)
    <3>1. n \in Nat
      OBVIOUS
    <3> QED BY <3>1, <2>1, <2>2, <1>3, StageTasks
  <2>4. CASE filter_by_task(type, required)
    <3>1. PICK o \in outcomes : ~o.raised /\ rows' = o.rows
      BY <2>1, <2>4, <1>1, <1>5
    <3>2. RowsInv(o.rows, n + 1) /\ n # 15
      BY <3>1, <2>1, <2>4, <1>3
    <3> QED BY <3>1, <3>2, <2>1, <2>3
  <2>5. CASE ~filter_by_task(type, required)
    BY <2>1, <2>3, <2>5, <1>1, <1>3
  <2> QED BY <2>4, <2>5
<1> QED BY <1>1, <1>2, <1>4, <1>5, NextState

\* How far the tasks of a type are taken before and after each node.
LEMMA TookFact ==
  ASSUME NEW t
  PROVE  /\ Took(2, t) => Took(1, t)
         /\ Took(3, t) => Took(2, t) \/ (t.type = "extract" /\ t.document_type \in {"pdf"})
         /\ Took(4, t) => Took(3, t) \/ (t.type = "extract" /\ t.document_type \in Images \ {"svg"})
         /\ Took(5, t) => Took(4, t) \/ (t.type = "extract" /\ t.document_type \in {"docx"})
         /\ Took(6, t) => Took(5, t) \/ (t.type = "extract" /\ t.document_type \in {"pptx"})
         /\ Took(7, t) => Took(6, t) \/ t.type = "audio_data_extract"
         /\ Took(8, t) => Took(7, t) \/ (t.type = "dedup" /\ t.content_type = "image")
         /\ Took(9, t) => Took(8, t) \/ (t.type = "filter" /\ t.content_type = "image")
         /\ Took(10, t) => Took(9, t) \/ t.type = "table_data_extract"
         /\ Took(11, t) => Took(10, t) \/ t.type = "chart_data_extract"
         /\ Took(12, t) => Took(11, t) \/ t.type = "infographic_data_extract"
         /\ Took(13, t) => Took(12, t) \/ t.type = "split"
         /\ Took(14, t) => Took(13, t) \/ t.type = "caption"
         /\ Took(15, t) => Took(14, t) \/ t.type = "embed"
         /\ Took(16, t) => Took(15, t) \/ t.type = "store"
         /\ Took(17, t) => Took(16, t) \/ t.type = "store_embedding"
         /\ Took(18, t) => Took(17, t)
         /\ Took(19, t) => Took(18, t)
BY DEF Took

\* An extractor keeps the invariant: it takes a task of its formats.
LEMMA ExtractorStep ==
  ASSUME PipelineInv, NEW n \in 2 .. 5, NEW node, node = AllNodes[n], NEW formats, NEW own,
         NEW outcomes, outcomes = decode_and_extract(own), Extractor(node, formats, outcomes),
         \A t : Took(n + 1, t) => Took(n, t) \/ (t.type = "extract" /\ t.document_type \in formats)
  PROVE  PipelineInv'
<1> DEFINE required == {t \in ToSet(tasks) : t.type = "extract" /\ t.document_type \in formats}
<1>1. document \in Jobs
  BY DEF PipelineInv
<1>2. Stage(node, "extract", required, outcomes)
  BY DEF Extractor
<1>3. \A t \in ToSet(tasks) : Took(n + 1, t) => Took(n, t) \/ (t.type = "extract" /\ t \in required)
  OBVIOUS
<1> HIDE DEF required
<1>4. "extract" \notin DOMAIN TakenAt
  BY TakenFact
<1>5. n \in 1 .. 16 /\ n \in Nat /\ n # 15 /\ n # 7 /\ n # 8 /\ n # 9 /\ n # 13 /\ n # 14
  OBVIOUS
<1>6. \A o \in outcomes : ~o.raised => RowsInv(o.rows, n + 1) /\ n # 15
  BY <1>1, <1>5, ExtractedRows
<1>7. RowsInv(rows, n) => RowsInv(rows, n + 1)
  BY <1>1, <1>5, SameRows DEF Passes, Leaves
<1> QED BY <1>2, <1>3, <1>4, <1>5, <1>6, <1>7, StageStep

\* The nodes one by one, in the order of the edges.
LEMMA PdfExtractorStep == PipelineInv /\ pdf_extractor => PipelineInv'
<1> SUFFICES ASSUME PipelineInv, pdf_extractor PROVE PipelineInv'
  OBVIOUS
<1>1. PICK n : n = 2
  OBVIOUS
<1>2. n \in 2 .. 5 /\ n + 1 = 3
  BY <1>1
<1>3. "pdf_extractor" = AllNodes[n]
  BY <1>1 DEF AllNodes
<1>4. \A t : Took(n + 1, t) => Took(n, t) \/ (t.type = "extract" /\ t.document_type \in {"pdf"})
  BY <1>1, <1>2, TookFact
<1> DEFINE outcomes == process_pdf_bytes(First("extract"))
<1>5. outcomes = decode_and_extract({"pdf"})
  BY DEF process_pdf_bytes
<1>6. Extractor("pdf_extractor", {"pdf"}, outcomes)
  BY DEF pdf_extractor
<1> HIDE DEF outcomes
<1> QED BY <1>2, <1>3, <1>4, <1>5, <1>6, ExtractorStep

LEMMA ImageExtractorStep == PipelineInv /\ image_extractor => PipelineInv'
<1> SUFFICES ASSUME PipelineInv, image_extractor PROVE PipelineInv'
  OBVIOUS
<1>1. PICK n : n = 3
  OBVIOUS
<1>2. n \in 2 .. 5 /\ n + 1 = 4
  BY <1>1
<1>3. "image_extractor" = AllNodes[n]
  BY <1>1 DEF AllNodes
<1>4. \A t : Took(n + 1, t) => Took(n, t) \/ (t.type = "extract" /\ t.document_type \in Images \ {"svg"})
  BY <1>1, <1>2, TookFact
<1> DEFINE outcomes == process_image(First("extract"))
<1>5. outcomes = decode_and_extract(Images)
  BY DEF process_image
<1>6. Extractor("image_extractor", Images \ {"svg"}, outcomes)
  BY DEF image_extractor
<1> HIDE DEF outcomes
<1> QED BY <1>2, <1>3, <1>4, <1>5, <1>6, ExtractorStep

LEMMA DocxExtractorStep == PipelineInv /\ docx_extractor => PipelineInv'
<1> SUFFICES ASSUME PipelineInv, docx_extractor PROVE PipelineInv'
  OBVIOUS
<1>1. PICK n : n = 4
  OBVIOUS
<1>2. n \in 2 .. 5 /\ n + 1 = 5
  BY <1>1
<1>3. "docx_extractor" = AllNodes[n]
  BY <1>1 DEF AllNodes
<1>4. \A t : Took(n + 1, t) => Took(n, t) \/ (t.type = "extract" /\ t.document_type \in {"docx"})
  BY <1>1, <1>2, TookFact
<1> DEFINE outcomes == _process_docx_bytes(First("extract"))
<1>5. outcomes = decode_and_extract({"docx"})
  BY DEF _process_docx_bytes
<1>6. Extractor("docx_extractor", {"docx"}, outcomes)
  BY DEF docx_extractor
<1> HIDE DEF outcomes
<1> QED BY <1>2, <1>3, <1>4, <1>5, <1>6, ExtractorStep

LEMMA PptxExtractorStep == PipelineInv /\ pptx_extractor => PipelineInv'
<1> SUFFICES ASSUME PipelineInv, pptx_extractor PROVE PipelineInv'
  OBVIOUS
<1>1. PICK n : n = 5
  OBVIOUS
<1>2. n \in 2 .. 5 /\ n + 1 = 6
  BY <1>1
<1>3. "pptx_extractor" = AllNodes[n]
  BY <1>1 DEF AllNodes
<1>4. \A t : Took(n + 1, t) => Took(n, t) \/ (t.type = "extract" /\ t.document_type \in {"pptx"})
  BY <1>1, <1>2, TookFact
<1> DEFINE outcomes == _process_pptx_bytes(First("extract"))
<1>5. outcomes = decode_and_extract({"pptx"})
  BY DEF _process_pptx_bytes
<1>6. Extractor("pptx_extractor", {"pptx"}, outcomes)
  BY DEF pptx_extractor
<1> HIDE DEF outcomes
<1> QED BY <1>2, <1>3, <1>4, <1>5, <1>6, ExtractorStep

LEMMA AudioStep == PipelineInv /\ audio_extractor => PipelineInv'
<1> SUFFICES ASSUME PipelineInv, audio_extractor PROVE PipelineInv'
  OBVIOUS
<1>1. PICK n : n = 6
  OBVIOUS
<1>2. n \in 1 .. 16 /\ n \in Nat /\ n + 1 = 7
  BY <1>1
<1>3. "audio_extractor" = AllNodes[n]
  BY <1>1 DEF AllNodes
<1>4. document \in Jobs
  BY DEF PipelineInv
<1>5. "audio_data_extract" \notin DOMAIN TakenAt
  BY TakenFact
<1>6. \A t \in ToSet(tasks) : Took(n + 1, t) => Took(n, t) \/ (t.type = "audio_data_extract" /\ t \in AnyTask)
  BY <1>1, <1>2, TookFact DEF AnyTask
<1> DEFINE outcomes == _transcribe_audio(First("audio_data_extract"))
<1>7. Stage("audio_extractor", "audio_data_extract", AnyTask, outcomes)
  BY DEF audio_extractor
<1>8. ASSUME TasksInv(tasks, n), RowsInv(rows, n), filter_by_task("audio_data_extract", AnyTask)
      PROVE  \A o \in outcomes : ~o.raised => RowsInv(o.rows, n + 1) /\ n # 15
  BY <1>1, <1>2, <1>4, <1>8, AudioRows
<1>9. ASSUME TasksInv(tasks, n), RowsInv(rows, n), ~filter_by_task("audio_data_extract", AnyTask)
      PROVE  RowsInv(rows, n + 1) /\ (n = 15 => Asked("store") = {})
  BY <1>1, <1>2, <1>4, <1>9, SameRows DEF Passes, Leaves
<1> HIDE DEF outcomes
<1> QED BY <1>1, <1>2, <1>3, <1>5, <1>6, <1>7, <1>8, <1>9, StageStep

LEMMA DedupStep == PipelineInv /\ dedup_images => PipelineInv'
<1> SUFFICES ASSUME PipelineInv, dedup_images PROVE PipelineInv'
  OBVIOUS
<1>1. PICK n : n = 7
  OBVIOUS
<1>2. n \in 1 .. 16 /\ n \in Nat /\ n + 1 = 8
  BY <1>1
<1>3. "dedup_images" = AllNodes[n]
  BY <1>1 DEF AllNodes
<1>4. document \in Jobs
  BY DEF PipelineInv
<1>5. "dedup" \in DOMAIN TakenAt /\ TakenAt["dedup"] = 7
  BY TakenFact
<1>6. \A t \in ToSet(tasks) : Took(n + 1, t) => Took(n, t) \/ (t.type = "dedup" /\ t \in OfImages)
  BY <1>1, <1>2, TookFact DEF OfImages
<1> DEFINE outcomes == dedup_image_stage(First("dedup"))
<1>7. Stage("dedup_images", "dedup", OfImages, outcomes)
  BY DEF dedup_images
<1>8. ASSUME TasksInv(tasks, n), RowsInv(rows, n), filter_by_task("dedup", OfImages)
      PROVE  \A o \in outcomes : ~o.raised => RowsInv(o.rows, n + 1) /\ n # 15
  <2>1. Asks("dedup") /\ Asked("dedup") # {} /\ First("dedup") = document.tasks[Min(Asked("dedup"))]
    <3>1. Asks("dedup")
      BY <1>1, <1>2, <1>4, <1>5, <1>8, FirstFact
    <3> QED BY <3>1, <1>1, <1>2, <1>4, <1>5, <1>8, FirstFact DEF Asks
  <2>2. outcomes = _cpu_only_apply_dedup_filter(First("dedup").filter)
    BY DEF dedup_image_stage
  <2> HIDE DEF outcomes
  <2>3. RowsInv(rows, 7)
    BY <1>1, <1>8
  <2>4. \A o \in outcomes : ~o.raised => RowsInv(o.rows, 8)
    BY <2>1, <2>2, <2>3, <1>4, DedupRows
  <2> QED BY <2>4, <1>1, <1>2
<1>9. ASSUME TasksInv(tasks, n), RowsInv(rows, n), ~filter_by_task("dedup", OfImages)
      PROVE  RowsInv(rows, n + 1) /\ (n = 15 => Asked("store") = {})
  <2>1. ~Asks("dedup")
    BY <1>1, <1>2, <1>4, <1>5, <1>9, FirstFact
  <2>2. Passes(n) /\ (n = 8 => ~Asks("filter"))
    BY <1>1, <2>1 DEF Passes, Leaves
  <2> QED BY <1>1, <1>2, <1>4, <1>9, <2>1, <2>2, SameRows
<1> HIDE DEF outcomes
<1> QED BY <1>1, <1>2, <1>3, <1>5, <1>6, <1>7, <1>8, <1>9, StageStep

LEMMA FilterStep == PipelineInv /\ filter_images => PipelineInv'
<1> SUFFICES ASSUME PipelineInv, filter_images PROVE PipelineInv'
  OBVIOUS
<1>1. PICK n : n = 8
  OBVIOUS
<1>2. n \in 1 .. 16 /\ n \in Nat /\ n + 1 = 9
  BY <1>1
<1>3. "filter_images" = AllNodes[n]
  BY <1>1 DEF AllNodes
<1>4. document \in Jobs
  BY DEF PipelineInv
<1>5. "filter" \in DOMAIN TakenAt /\ TakenAt["filter"] = 8
  BY TakenFact
<1>6. \A t \in ToSet(tasks) : Took(n + 1, t) => Took(n, t) \/ (t.type = "filter" /\ t \in OfImages)
  BY <1>1, <1>2, TookFact DEF OfImages
<1> DEFINE outcomes == image_filter_stage(First("filter"))
<1>7. Stage("filter_images", "filter", OfImages, outcomes)
  BY DEF filter_images
<1>8. ASSUME TasksInv(tasks, n), RowsInv(rows, n), filter_by_task("filter", OfImages)
      PROVE  \A o \in outcomes : ~o.raised => RowsInv(o.rows, n + 1) /\ n # 15
  <2>1. Asks("filter") /\ Asked("filter") # {} /\ First("filter") = document.tasks[Min(Asked("filter"))]
    <3>1. Asks("filter")
      BY <1>1, <1>2, <1>4, <1>5, <1>8, FirstFact
    <3> QED BY <3>1, <1>1, <1>2, <1>4, <1>5, <1>8, FirstFact DEF Asks
  <2>2. RowsInv(rows, 8)
    BY <1>1, <1>8
  <2>3. \A o \in outcomes : ~o.raised => RowsInv(o.rows, 9)
    BY <2>1, <2>2, <1>4, FilterRows
  <2> HIDE DEF outcomes
  <2> QED BY <2>3, <1>1, <1>2
<1>9. ASSUME TasksInv(tasks, n), RowsInv(rows, n), ~filter_by_task("filter", OfImages)
      PROVE  RowsInv(rows, n + 1) /\ (n = 15 => Asked("store") = {})
  <2>1. ~Asks("filter")
    BY <1>1, <1>2, <1>4, <1>5, <1>9, FirstFact
  <2>2. Passes(n) /\ (n = 8 => ~Asks("filter"))
    BY <1>1, <2>1 DEF Passes, Leaves
  <2> QED BY <1>1, <1>2, <1>4, <1>9, <2>1, <2>2, SameRows
<1> HIDE DEF outcomes
<1> QED BY <1>1, <1>2, <1>3, <1>5, <1>6, <1>7, <1>8, <1>9, StageStep

LEMMA TableStep == PipelineInv /\ table_extractor => PipelineInv'
<1> SUFFICES ASSUME PipelineInv, table_extractor PROVE PipelineInv'
  OBVIOUS
<1>1. PICK n : n = 9
  OBVIOUS
<1>2. n \in 1 .. 16 /\ n \in Nat /\ n + 1 = 10
  BY <1>1
<1>3. "table_extractor" = AllNodes[n]
  BY <1>1 DEF AllNodes
<1>4. document \in Jobs
  BY DEF PipelineInv
<1>5. "table_data_extract" \in DOMAIN TakenAt /\ TakenAt["table_data_extract"] = 9
  BY TakenFact
<1>6. \A t \in ToSet(tasks) : Took(n + 1, t) => Took(n, t) \/ (t.type = "table_data_extract" /\ t \in AnyTask)
  BY <1>1, <1>2, TookFact DEF AnyTask
<1> DEFINE outcomes == _extract_table_data(First("table_data_extract"))
<1>7. Stage("table_extractor", "table_data_extract", AnyTask, outcomes)
  BY DEF table_extractor
<1>8. ASSUME TasksInv(tasks, n), RowsInv(rows, n), filter_by_task("table_data_extract", AnyTask)
      PROVE  \A o \in outcomes : ~o.raised => RowsInv(o.rows, n + 1) /\ n # 15
  <2>1. RowsInv(Filled("table"), n + 1)
    BY <1>1, <1>2, <1>4, <1>8, ReadRows
  <2>2. \A o \in outcomes : ~o.raised => o.rows = Filled("table")
    BY OkFact DEF _extract_table_data
  <2> QED BY <1>1, <2>1, <2>2
<1>9. ASSUME TasksInv(tasks, n), RowsInv(rows, n), ~filter_by_task("table_data_extract", AnyTask)
      PROVE  RowsInv(rows, n + 1) /\ (n = 15 => Asked("store") = {})
  <2>1. Asked("table_data_extract") = {}
    BY <1>1, <1>2, <1>4, <1>5, <1>9, FirstFact
  <2>2. Passes(n) /\ (n = 8 => ~Asks("filter"))
    BY <1>1, <2>1 DEF Passes, Leaves
  <2> QED BY <1>1, <1>2, <1>4, <1>9, <2>1, <2>2, SameRows
<1> HIDE DEF outcomes
<1> QED BY <1>1, <1>2, <1>3, <1>5, <1>6, <1>7, <1>8, <1>9, StageStep

LEMMA ChartStep == PipelineInv /\ chart_extractor => PipelineInv'
<1> SUFFICES ASSUME PipelineInv, chart_extractor PROVE PipelineInv'
  OBVIOUS
<1>1. PICK n : n = 10
  OBVIOUS
<1>2. n \in 1 .. 16 /\ n \in Nat /\ n + 1 = 11
  BY <1>1
<1>3. "chart_extractor" = AllNodes[n]
  BY <1>1 DEF AllNodes
<1>4. document \in Jobs
  BY DEF PipelineInv
<1>5. "chart_data_extract" \notin DOMAIN TakenAt
  BY TakenFact
<1>6. \A t \in ToSet(tasks) : Took(n + 1, t) => Took(n, t) \/ (t.type = "chart_data_extract" /\ t \in AnyTask)
  BY <1>1, <1>2, TookFact DEF AnyTask
<1> DEFINE outcomes == _extract_chart_data(First("chart_data_extract"))
<1>7. Stage("chart_extractor", "chart_data_extract", AnyTask, outcomes)
  BY DEF chart_extractor
<1>8. ASSUME TasksInv(tasks, n), RowsInv(rows, n), filter_by_task("chart_data_extract", AnyTask)
      PROVE  \A o \in outcomes : ~o.raised => RowsInv(o.rows, n + 1) /\ n # 15
  <2>1. RowsInv(Filled("chart"), n + 1)
    BY <1>1, <1>2, <1>4, <1>8, ReadRows
  <2>2. \A o \in outcomes : ~o.raised => o.rows = Filled("chart")
    BY OkFact DEF _extract_chart_data
  <2> QED BY <1>1, <2>1, <2>2
<1>9. ASSUME TasksInv(tasks, n), RowsInv(rows, n), ~filter_by_task("chart_data_extract", AnyTask)
      PROVE  RowsInv(rows, n + 1) /\ (n = 15 => Asked("store") = {})
  BY <1>1, <1>2, <1>4, <1>9, SameRows DEF Passes, Leaves
<1> HIDE DEF outcomes
<1> QED BY <1>1, <1>2, <1>3, <1>5, <1>6, <1>7, <1>8, <1>9, StageStep

LEMMA InfographicStep == PipelineInv /\ infographic_extractor => PipelineInv'
<1> SUFFICES ASSUME PipelineInv, infographic_extractor PROVE PipelineInv'
  OBVIOUS
<1>1. PICK n : n = 11
  OBVIOUS
<1>2. n \in 1 .. 16 /\ n \in Nat /\ n + 1 = 12
  BY <1>1
<1>3. "infographic_extractor" = AllNodes[n]
  BY <1>1 DEF AllNodes
<1>4. document \in Jobs
  BY DEF PipelineInv
<1>5. "infographic_data_extract" \notin DOMAIN TakenAt
  BY TakenFact
<1>6. \A t \in ToSet(tasks) : Took(n + 1, t) => Took(n, t) \/ (t.type = "infographic_data_extract" /\ t \in AnyTask)
  BY <1>1, <1>2, TookFact DEF AnyTask
<1> DEFINE outcomes == _extract_infographic_data(First("infographic_data_extract"))
<1>7. Stage("infographic_extractor", "infographic_data_extract", AnyTask, outcomes)
  BY DEF infographic_extractor
<1>8. ASSUME TasksInv(tasks, n), RowsInv(rows, n), filter_by_task("infographic_data_extract", AnyTask)
      PROVE  \A o \in outcomes : ~o.raised => RowsInv(o.rows, n + 1) /\ n # 15
  <2>1. RowsInv(Filled("infographic"), n + 1)
    BY <1>1, <1>2, <1>4, <1>8, ReadRows
  <2>2. \A o \in outcomes : ~o.raised => o.rows = Filled("infographic")
    BY OkFact DEF _extract_infographic_data
  <2> QED BY <1>1, <2>1, <2>2
<1>9. ASSUME TasksInv(tasks, n), RowsInv(rows, n), ~filter_by_task("infographic_data_extract", AnyTask)
      PROVE  RowsInv(rows, n + 1) /\ (n = 15 => Asked("store") = {})
  BY <1>1, <1>2, <1>4, <1>9, SameRows DEF Passes, Leaves
<1> HIDE DEF outcomes
<1> QED BY <1>1, <1>2, <1>3, <1>5, <1>6, <1>7, <1>8, <1>9, StageStep

LEMMA SplitStep == PipelineInv /\ text_splitter => PipelineInv'
<1> SUFFICES ASSUME PipelineInv, text_splitter PROVE PipelineInv'
  OBVIOUS
<1>1. PICK n : n = 12
  OBVIOUS
<1>2. n \in 1 .. 16 /\ n \in Nat /\ n + 1 = 13
  BY <1>1
<1>3. "text_splitter" = AllNodes[n]
  BY <1>1 DEF AllNodes
<1>4. document \in Jobs
  BY DEF PipelineInv
<1>5. "split" \in DOMAIN TakenAt /\ TakenAt["split"] = 12
  BY TakenFact
<1>6. \A t \in ToSet(tasks) : Took(n + 1, t) => Took(n, t) \/ (t.type = "split" /\ t \in AnyTask)
  BY <1>1, <1>2, TookFact DEF AnyTask
<1> DEFINE outcomes == split_and_forward(First("split"))
<1>7. Stage("text_splitter", "split", AnyTask, outcomes)
  BY DEF text_splitter
<1>8. ASSUME TasksInv(tasks, n), RowsInv(rows, n), filter_by_task("split", AnyTask)
      PROVE  \A o \in outcomes : ~o.raised => RowsInv(o.rows, n + 1) /\ n # 15
  <2>1. /\ Asked("split") # {} /\ First("split").type = "split" /\ IsTask(First("split"))
        /\ First("split") = document.tasks[Min(Asked("split"))]
    BY <1>1, <1>2, <1>4, <1>5, <1>8, FirstFact
  <2> DEFINE t == First("split")
  <2>2. /\ t.chunk_size \in Nat /\ t.chunk_overlap \in Nat /\ t.chunk_overlap < t.chunk_size
        /\ t = document.tasks[Min(Asked("split"))]
    BY <2>1 DEF IsTask
  <2> HIDE DEF t
  <2>3. outcomes = split_and_forward(t)
    BY DEF t
  <2> HIDE DEF outcomes
  <2>4. RowsInv(rows, 12)
    BY <1>1, <1>8
  <2>5. \A o \in outcomes : ~o.raised => RowsInv(o.rows, 13)
    BY <2>1, <2>2, <2>3, <2>4, <1>4, SplitRows
  <2> QED BY <2>5, <1>1, <1>2
<1>9. ASSUME TasksInv(tasks, n), RowsInv(rows, n), ~filter_by_task("split", AnyTask)
      PROVE  RowsInv(rows, n + 1) /\ (n = 15 => Asked("store") = {})
  <2>1. Asked("split") = {}
    BY <1>1, <1>2, <1>4, <1>5, <1>9, FirstFact
  <2> QED BY <2>1, <1>1, <1>2, <1>4, <1>9, SameRows DEF Passes, Leaves
<1> HIDE DEF outcomes
<1> QED BY <1>1, <1>2, <1>3, <1>5, <1>6, <1>7, <1>8, <1>9, StageStep

LEMMA CaptionStep == PipelineInv /\ image_caption => PipelineInv'
<1> SUFFICES ASSUME PipelineInv, image_caption PROVE PipelineInv'
  OBVIOUS
<1>1. PICK n : n = 13
  OBVIOUS
<1>2. n \in 1 .. 16 /\ n \in Nat /\ n + 1 = 14
  BY <1>1
<1>3. "image_caption" = AllNodes[n]
  BY <1>1 DEF AllNodes
<1>4. document \in Jobs
  BY DEF PipelineInv
<1>5. "caption" \in DOMAIN TakenAt /\ TakenAt["caption"] = 13
  BY TakenFact
<1>6. \A t \in ToSet(tasks) : Took(n + 1, t) => Took(n, t) \/ (t.type = "caption" /\ t \in AnyTask)
  BY <1>1, <1>2, TookFact DEF AnyTask
<1> DEFINE outcomes == caption_extract_stage(First("caption"))
<1>7. Stage("image_caption", "caption", AnyTask, outcomes)
  BY DEF image_caption
<1>8. ASSUME TasksInv(tasks, n), RowsInv(rows, n), filter_by_task("caption", AnyTask)
      PROVE  \A o \in outcomes : ~o.raised => RowsInv(o.rows, n + 1) /\ n # 15
  <2>1. RowsInv(rows, 13)
    BY <1>1, <1>8
  <2>2. \A o \in outcomes : ~o.raised => RowsInv(o.rows, 14)
    BY <2>1, <1>4, CaptionRows
  <2> HIDE DEF outcomes
  <2> QED BY <2>2, <1>1, <1>2
<1>9. ASSUME TasksInv(tasks, n), RowsInv(rows, n), ~filter_by_task("caption", AnyTask)
      PROVE  RowsInv(rows, n + 1) /\ (n = 15 => Asked("store") = {})
  <2>1. Asked("caption") = {}
    BY <1>1, <1>2, <1>4, <1>5, <1>9, FirstFact
  <2>2. Passes(n) /\ (n = 8 => ~Asks("filter"))
    BY <1>1, <2>1 DEF Passes, Leaves
  <2> QED BY <1>1, <1>2, <1>4, <1>9, <2>1, <2>2, SameRows
<1> HIDE DEF outcomes
<1> QED BY <1>1, <1>2, <1>3, <1>5, <1>6, <1>7, <1>8, <1>9, StageStep

LEMMA EmbedStep == PipelineInv /\ embed_extractions => PipelineInv'
<1> SUFFICES ASSUME PipelineInv, embed_extractions PROVE PipelineInv'
  OBVIOUS
<1>1. PICK n : n = 14
  OBVIOUS
<1>2. n \in 1 .. 16 /\ n \in Nat /\ n + 1 = 15
  BY <1>1
<1>3. "embed_extractions" = AllNodes[n]
  BY <1>1 DEF AllNodes
<1>4. document \in Jobs
  BY DEF PipelineInv
<1>5. "embed" \in DOMAIN TakenAt /\ TakenAt["embed"] = 14
  BY TakenFact
<1>6. \A t \in ToSet(tasks) : Took(n + 1, t) => Took(n, t) \/ (t.type = "embed" /\ t \in AnyTask)
  BY <1>1, <1>2, TookFact DEF AnyTask
<1> DEFINE outcomes == _generate_text_embeddings_df(First("embed"))
<1>7. Stage("embed_extractions", "embed", AnyTask, outcomes)
  BY DEF embed_extractions
<1>8. ASSUME TasksInv(tasks, n), RowsInv(rows, n), filter_by_task("embed", AnyTask)
      PROVE  \A o \in outcomes : ~o.raised => RowsInv(o.rows, n + 1) /\ n # 15
  <2>1. RowsInv(rows, 14)
    BY <1>1, <1>8
  <2>2. \A o \in outcomes : ~o.raised => RowsInv(o.rows, 15)
    BY <2>1, <1>4, EmbedRows, PipelineAssumption
  <2> HIDE DEF outcomes
  <2> QED BY <2>2, <1>1, <1>2
<1>9. ASSUME TasksInv(tasks, n), RowsInv(rows, n), ~filter_by_task("embed", AnyTask)
      PROVE  RowsInv(rows, n + 1) /\ (n = 15 => Asked("store") = {})
  <2>1. Asked("embed") = {}
    BY <1>1, <1>2, <1>4, <1>5, <1>9, FirstFact
  <2>2. Passes(n) /\ (n = 8 => ~Asks("filter"))
    BY <1>1, <2>1 DEF Passes, Leaves
  <2> QED BY <1>1, <1>2, <1>4, <1>9, <2>1, <2>2, SameRows
<1> HIDE DEF outcomes
<1> QED BY <1>1, <1>2, <1>3, <1>5, <1>6, <1>7, <1>8, <1>9, StageStep

LEMMA StoreStep == PipelineInv /\ image_storage => PipelineInv'
<1> SUFFICES ASSUME PipelineInv, image_storage PROVE PipelineInv'
  OBVIOUS
<1>1. PICK n : n = 15
  OBVIOUS
<1>2. n \in 1 .. 16 /\ n \in Nat /\ n + 1 = 16
  BY <1>1
<1>3. "image_storage" = AllNodes[n]
  BY <1>1 DEF AllNodes
<1>4. document \in Jobs
  BY DEF PipelineInv
<1>5. "store" \in DOMAIN TakenAt /\ TakenAt["store"] = 15
  BY TakenFact
<1>6. \A t \in ToSet(tasks) : Took(n + 1, t) => Took(n, t) \/ (t.type = "store" /\ t \in AnyTask)
  BY <1>1, <1>2, TookFact DEF AnyTask
<1> DEFINE outcomes == image_storage_on_data(First("store"))
<1>7. Stage("image_storage", "store", AnyTask, outcomes)
  BY DEF image_storage
<1>8. ASSUME TasksInv(tasks, n), RowsInv(rows, n), filter_by_task("store", AnyTask)
      PROVE  \A o \in outcomes : ~o.raised => RowsInv(o.rows, n + 1) /\ n # 15
  BY OkFact DEF image_storage_on_data
<1>9. ASSUME TasksInv(tasks, n), RowsInv(rows, n), ~filter_by_task("store", AnyTask)
      PROVE  RowsInv(rows, n + 1) /\ (n = 15 => Asked("store") = {})
  <2>1. Asked("store") = {}
    BY <1>1, <1>2, <1>4, <1>5, <1>9, FirstFact
  <2>2. Passes(n) /\ (n = 8 => ~Asks("filter"))
    BY <1>1, <2>1 DEF Passes, Leaves
  <2> QED BY <1>1, <1>2, <1>4, <1>9, <2>1, <2>2, SameRows
<1> HIDE DEF outcomes
<1> QED BY <1>1, <1>2, <1>3, <1>5, <1>6, <1>7, <1>8, <1>9, StageStep

LEMMA UploadStep == PipelineInv /\ embedding_storage => PipelineInv'
<1> SUFFICES ASSUME PipelineInv, embedding_storage PROVE PipelineInv'
  OBVIOUS
<1>1. PICK n : n = 16
  OBVIOUS
<1>2. n \in 1 .. 16 /\ n \in Nat /\ n + 1 = 17
  BY <1>1
<1>3. "embedding_storage" = AllNodes[n]
  BY <1>1 DEF AllNodes
<1>4. document \in Jobs
  BY DEF PipelineInv
<1>5. "store_embedding" \notin DOMAIN TakenAt
  BY TakenFact
<1>6. \A t \in ToSet(tasks) : Took(n + 1, t) => Took(n, t) \/ (t.type = "store_embedding" /\ t \in AnyTask)
  BY <1>1, <1>2, TookFact DEF AnyTask
<1> DEFINE outcomes == upload_embeddings(First("store_embedding"))
<1>7. Stage("embedding_storage", "store_embedding", AnyTask, outcomes)
  BY DEF embedding_storage
<1>8. ASSUME TasksInv(tasks, n), RowsInv(rows, n), filter_by_task("store_embedding", AnyTask)
      PROVE  \A o \in outcomes : ~o.raised => RowsInv(o.rows, n + 1) /\ n # 15
  <2>1. RowsInv(rows, n + 1)
    BY <1>1, <1>2, <1>4, <1>8, SameRows DEF Passes, Leaves
  <2>2. \A o \in outcomes : ~o.raised => o.rows = rows
    BY OkFact DEF upload_embeddings
  <2> QED BY <1>1, <2>1, <2>2
<1>9. ASSUME TasksInv(tasks, n), RowsInv(rows, n), ~filter_by_task("store_embedding", AnyTask)
      PROVE  RowsInv(rows, n + 1) /\ (n = 15 => Asked("store") = {})
  BY <1>1, <1>2, <1>4, <1>9, SameRows DEF Passes, Leaves
<1> HIDE DEF outcomes
<1> QED BY <1>1, <1>2, <1>3, <1>5, <1>6, <1>7, <1>8, <1>9, StageStep

\* The injector marks the message or leaves it alone.
LEMMA InjectStep == PipelineInv /\ metadata_injector => PipelineInv'
<1> SUFFICES ASSUME PipelineInv, metadata_injector PROVE PipelineInv'
  OBVIOUS
<1>1. PICK n : n = 1
  OBVIOUS
<1>2. n \in 1 .. 16 /\ n \in Nat /\ n \in 1 .. 19 /\ n + 1 = 2 /\ n # 15
  BY <1>1
<1>3. /\ Nodes[at] = "metadata_injector" /\ at' = at + 1 /\ document' = document /\ stats' = stats
      /\ cm_failed' = (cm_failed \/ document.document_type = "unknown")
      /\ tasks' = tasks /\ rows' = rows /\ answer' = answer
  BY DEF metadata_injector, At, Forward
<1>4. at = n
  <2>1. "metadata_injector" = AllNodes[n] /\ at \in 1 .. 19
    BY <1>1 DEF AllNodes, PipelineInv
  <2> QED BY <2>1, <1>2, <1>3, NodeFact DEF Nodes
<1>5. document \in Jobs /\ cm_failed \in BOOLEAN /\ (~cm_failed => TasksInv(tasks, n) /\ RowsInv(rows, n))
  BY <1>4 DEF PipelineInv
<1>6. \A t : Took(n + 1, t) => Took(n, t)
  BY <1>1, <1>2, TookFact
<1>7. TasksInv(tasks, n) => TasksInv(tasks, n + 1)
  BY <1>2, <1>6, TasksPass
<1>8. RowsInv(rows, n) => RowsInv(rows, n + 1)
  BY <1>1, <1>2, <1>5, SameRows DEF Passes, Leaves
<1>9. cm_failed' \in BOOLEAN /\ (~cm_failed' => ~cm_failed)
  BY <1>3, <1>5
<1> QED BY <1>2, <1>3, <1>4, <1>5, <1>7, <1>8, <1>9, NextState

\* The two nodes after the stages leave the tasks and the rows as they are.
LEMMA AfterStages ==
  ASSUME PipelineInv, NEW n \in {17, 18}, at = n, document' = document, at' = n + 1,
         tasks' = tasks, rows' = rows, cm_failed' = cm_failed,
         stats' = [submitted_jobs |-> 1, completed_jobs |-> IF n = 18 /\ ~cm_failed THEN 1 ELSE 0,
                   failed_jobs |-> IF n = 18 /\ cm_failed THEN 1 ELSE 0],
         answer' = IF cm_failed THEN "failure" ELSE "success"
  PROVE  PipelineInv'
<1>1. /\ n \in Nat /\ n # 7 /\ n # 8 /\ n # 9 /\ n # 13 /\ n # 14 /\ n > 15 /\ n + 1 > 15
      /\ n + 1 \in 1 .. 19 /\ (n + 1 = 19 <=> n = 18) /\ ~(n + 1 <= 17)
  OBVIOUS
<1>2. \A t : Took(n + 1, t) => Took(n, t)
  <2>1. (n = 17 /\ n + 1 = 18) \/ (n = 18 /\ n + 1 = 19)
    OBVIOUS
  <2> QED BY <2>1, TookFact
<1>3. document \in Jobs /\ cm_failed \in BOOLEAN
  BY DEF PipelineInv
<1>4. ASSUME ~cm_failed PROVE TasksInv(tasks, n + 1) /\ RowsInv(rows, n + 1) /\ Asked("store") = {}
  <2>1. TasksInv(tasks, n) /\ RowsInv(rows, n) /\ Asked("store") = {}
    BY <1>1, <1>4 DEF PipelineInv
  <2>2. TasksInv(tasks, n + 1)
    BY <2>1, <1>1, <1>2, TasksPass
  <2>3. RowsInv(rows, n + 1)
    BY <2>1, <1>1, <1>3, SameRows DEF Passes, Leaves
  <2> QED BY <2>1, <2>2, <2>3
<1>5. ASSUME ~cm_failed' PROVE TasksInv(tasks, at)' /\ RowsInv(rows, at)' /\ (Asked("store") = {})'
  <2>1. TasksInv(tasks, at)' <=> TasksInv(tasks', at')
    BY SameJobTasks
  <2>2. RowsInv(rows, at)' <=> RowsInv(rows', at')
    BY SameDocument
  <2>3. Asked("store")' = Asked("store")
    BY DEF Asked
  <2>4. TasksInv(tasks', at') /\ RowsInv(rows', at')
    BY <1>4, <1>5
  <2> QED BY <2>1, <2>2, <2>3, <2>4, <1>4, <1>5
<1>6. document' \in Jobs /\ at' \in 1 .. 19 /\ cm_failed' \in BOOLEAN /\ ~(at' <= 17) /\ (at' = 19 <=> n = 18)
  BY <1>1, <1>3
<1> QED BY <1>5, <1>6 DEF PipelineInv

\* The sink answers by the mark.
LEMMA AnswerStep == PipelineInv /\ sink => PipelineInv'
<1> SUFFICES ASSUME PipelineInv, sink PROVE PipelineInv'
  OBVIOUS
<1>1. PICK n : n = 17
  OBVIOUS
<1>2. n \in {17, 18} /\ n \in 1 .. 19 /\ n # 18 /\ n # 19
  BY <1>1
<1>3. /\ Nodes[at] = "sink" /\ at' = at + 1 /\ document' = document /\ stats' = stats
      /\ answer' = (IF cm_failed THEN "failure" ELSE "success")
      /\ tasks' = tasks /\ rows' = rows /\ cm_failed' = cm_failed
  BY DEF sink, At, Forward
<1>4. at = n
  <2>1. "sink" = AllNodes[n] /\ at \in 1 .. 19
    BY <1>1 DEF AllNodes, PipelineInv
  <2> QED BY <2>1, <1>2, <1>3, NodeFact DEF Nodes
<1>5. stats = [submitted_jobs |-> 1, completed_jobs |-> 0, failed_jobs |-> 0]
  BY <1>2, <1>4 DEF PipelineInv
<1> QED BY <1>2, <1>3, <1>4, <1>5, AfterStages

\* The counter counts the message by its mark.
LEMMA CountStep == PipelineInv /\ _count_jobs_impl => PipelineInv'
<1> SUFFICES ASSUME PipelineInv, _count_jobs_impl PROVE PipelineInv'
  OBVIOUS
<1>1. PICK n : n = 18
  OBVIOUS
<1>2. n \in {17, 18} /\ n \in 1 .. 19 /\ n # 19 /\ ~(n <= 17)
  BY <1>1
<1>3. /\ Nodes[at] = "completed_job_counter" /\ at' = at + 1 /\ document' = document /\ answer' = answer
      /\ stats' = (IF cm_failed THEN [stats EXCEPT !.failed_jobs = @ + 1]
                   ELSE [stats EXCEPT !.completed_jobs = @ + 1])
      /\ tasks' = tasks /\ rows' = rows /\ cm_failed' = cm_failed
  BY DEF _count_jobs_impl, At
<1>4. at = n
  <2>1. "completed_job_counter" = AllNodes[n] /\ at \in 1 .. 19
    BY <1>1 DEF AllNodes, PipelineInv
  <2> QED BY <2>1, <1>2, <1>3, NodeFact DEF Nodes
<1>5. /\ stats = [submitted_jobs |-> 1, completed_jobs |-> 0, failed_jobs |-> 0]
      /\ answer = IF cm_failed THEN "failure" ELSE "success"
  BY <1>2, <1>4 DEF PipelineInv
<1>6. stats' = [submitted_jobs |-> 1, completed_jobs |-> IF ~cm_failed THEN 1 ELSE 0,
                failed_jobs |-> IF cm_failed THEN 1 ELSE 0]
  BY <1>3, <1>5
<1> QED BY <1>1, <1>2, <1>3, <1>4, <1>5, <1>6, AfterStages

\* The invariant holds of a job as it is submitted.
LEMMA PipelineStarts == PipelineInit => PipelineInv
<1> SUFFICES ASSUME PipelineInit PROVE PipelineInv
  OBVIOUS
<1>1. /\ document \in Jobs /\ at = 1 /\ tasks = document.tasks
      /\ rows = <<Row(0, 1, document.document_type, TRUE)>> /\ cm_failed = FALSE
      /\ stats = [submitted_jobs |-> 1, completed_jobs |-> 0, failed_jobs |-> 0] /\ answer = "none"
  BY DEF PipelineInit
<1>2. RowsInv(rows, 1)
  BY <1>1, SourceRows
<1>3. \A t : ~Took(1, t)
  BY DEF Took
<1>4. \A type : SameTasks(tasks, type)
  BY <1>1 DEF SameTasks, OfType, Asked
<1>5. TasksInv(tasks, 1)
  BY <1>1, <1>3, <1>4, JobFact DEF TasksInv
<1>6. 1 \in 1 .. 19 /\ 1 # 19 /\ 1 <= 17 /\ ~(1 > 15)
  OBVIOUS
<1> QED BY <1>1, <1>2, <1>5, <1>6 DEF PipelineInv

\* Every step keeps the invariant.
LEMMA PipelineSteps == PipelineInv /\ [PipelineNext]_pipelineVars => PipelineInv'
<1> SUFFICES ASSUME PipelineInv, [PipelineNext]_pipelineVars PROVE PipelineInv'
  OBVIOUS
<1>1. CASE UNCHANGED pipelineVars
  <2>1. /\ document' = document /\ at' = at /\ tasks' = tasks /\ rows' = rows
        /\ cm_failed' = cm_failed /\ stats' = stats /\ answer' = answer
    BY <1>1 DEF pipelineVars
  <2>2. TasksInv(tasks, at)' <=> TasksInv(tasks', at')
    BY <2>1, SameJobTasks
  <2>3. RowsInv(rows, at)' <=> RowsInv(rows', at')
    BY <2>1, SameDocument
  <2>4. Asked("store")' = Asked("store")
    BY <2>1 DEF Asked
  <2> QED BY <2>1, <2>2, <2>3, <2>4 DEF PipelineInv
<1>2. CASE PipelineNext
  BY <1>2, InjectStep, PdfExtractorStep, ImageExtractorStep, DocxExtractorStep, PptxExtractorStep, AudioStep,
     DedupStep, FilterStep, TableStep, ChartStep, InfographicStep, SplitStep, CaptionStep, EmbedStep,
     StoreStep, UploadStep, AnswerStep, CountStep
     DEF PipelineNext, Preprocess, Extract, PostProcess, Finish
<1> QED BY <1>1, <1>2

-----------------------------------------------------------------------------
(* What a job has that succeeded.                                          *)

\* A job that has succeeded has been through all nodes and was never marked.
LEMMA SucceededFact ==
  ASSUME PipelineInv, Succeeded
  PROVE  /\ document \in Jobs /\ TasksInv(tasks, 19) /\ RowsInv(rows, 19) /\ Asked("store") = {}
         /\ stats = [submitted_jobs |-> 1, completed_jobs |-> 1, failed_jobs |-> 0]
<1>1. at \in 1 .. 19 /\ AllNodes[at] = "out" /\ answer = "success"
  BY DEF PipelineInv, Succeeded, At, Nodes
<1>2. at = 19
  BY <1>1 DEF AllNodes
<1>3. ~(19 <= 17) /\ 19 > 15
  OBVIOUS
<1>4. ~cm_failed
  BY <1>1, <1>2, <1>3 DEF PipelineInv
<1> QED BY <1>2, <1>3, <1>4 DEF PipelineInv

\* The invariant says that the rows are kept.
LEMMA KeptFact == PipelineInv => RowsKept
<1> SUFFICES ASSUME PipelineInv, Succeeded
             PROVE  /\ \A p \in DOMAIN document.parts :
                         LET of == {i \in DOMAIN rows : rows[i].part = p}
                             held == UNION {rows[i].lo .. rows[i].hi : i \in of}
                             len == document.parts[p].len
                         IN IF p \notin Expected \/ Unwanted(p) THEN of = {}
                            ELSE IF document.parts[p].type = "text" /\ Asked("split") # {}
                            THEN /\ held \subseteq 1 .. len /\ (1 .. len) \ held \subseteq document.parts[p].blank
                                 /\ \A i \in of : CutAsAsked(rows[i])
                            ELSE held = 1 .. len /\ Cardinality(of) = 1
                    /\ \A i \in DOMAIN rows :
                         /\ rows[i].table_content \in {0, rows[i].part}
                         /\ rows[i].caption \in {0, rows[i].part}
                         /\ rows[i].embedding \in {<<0, 0>>, <<rows[i].part, rows[i].lo>>}
                    /\ stats = [submitted_jobs |-> 1, completed_jobs |-> 1, failed_jobs |-> 0]
  BY DEF RowsKept
<1>1. /\ document \in Jobs /\ RowsInv(rows, 19)
      /\ stats = [submitted_jobs |-> 1, completed_jobs |-> 1, failed_jobs |-> 0]
  BY SucceededFact
<1>2. \A i \in DOMAIN rows : rows[i] \in RowType /\ RowRight(rows[i], 19)
  BY <1>1, RowsFact
<1>3. Covered(rows, 19) /\ Sources(rows)
  BY <1>1, RowsFact
<1>4. Expected = Held(rows)
  BY DEF Expected, Held
<1>5. 19 > 7 /\ 19 > 8 /\ 19 > 12
  OBVIOUS
<1>6. \A p : Unwanted(p) <=> Gone(19, p)
  BY <1>5 DEF Unwanted, Gone
<1>7. ASSUME NEW p \in DOMAIN document.parts, NEW of, of = {i \in DOMAIN rows : rows[i].part = p},
             NEW held, held = UNION {rows[i].lo .. rows[i].hi : i \in of}, NEW len, len = document.parts[p].len
      PROVE  IF p \notin Expected \/ Unwanted(p) THEN of = {}
             ELSE IF document.parts[p].type = "text" /\ Asked("split") # {}
             THEN /\ held \subseteq 1 .. len /\ (1 .. len) \ held \subseteq document.parts[p].blank
                  /\ \A i \in of : CutAsAsked(rows[i])
             ELSE held = 1 .. len /\ Cardinality(of) = 1
  <2>1. CASE p \notin Expected \/ Unwanted(p)
    <3>1. Missing(rows, p)
      BY <2>1, <1>3, <1>4, <1>6 DEF Covered
    <3> QED BY <3>1, <2>1, <1>7 DEF Missing
  <2>2. CASE ~(p \notin Expected \/ Unwanted(p))
    <3>1. Covers(rows, p) /\ (Single(rows, p) \/ Split(19, p))
      BY <2>2, <1>3, <1>4, <1>6 DEF Covered
    <3>2. len \in Nat
      BY <1>1, <1>7, JobFact DEF Parts
    <3>3. ASSUME NEW i \in of PROVE rows[i].lo .. rows[i].hi \subseteq 1 .. len
      <4>1. i \in DOMAIN rows /\ rows[i].part = p
        BY <1>7
      <4>2. rows[i].lo \in Nat /\ rows[i].hi \in Nat /\ rows[i].lo >= 1 /\ rows[i].hi <= len
        BY <4>1, <1>2, <1>7 DEF RowType, RowRight, Part
      <4> QED BY <3>2, <4>2
    <3>4. \A x : x \in held <=> \E i \in of : x \in rows[i].lo .. rows[i].hi
      BY <1>7
    <3>5. ASSUME NEW x \in (1 .. len) \ document.parts[p].blank PROVE x \in held
      <4>1. PICK i \in DOMAIN rows : rows[i].part = p /\ rows[i].lo <= x /\ x <= rows[i].hi
        BY <3>1, <1>7 DEF Covers
      <4>2. i \in of /\ rows[i].lo \in Nat /\ rows[i].hi \in Nat
        BY <4>1, <1>2, <1>7 DEF RowType
      <4>3. x \in Int
        OBVIOUS
      <4> QED BY <4>1, <4>2, <4>3, <3>4
    <3>6. held \subseteq 1 .. len
      BY <3>3, <3>4
    <3>7. ASSUME document.parts[p].type = "text", Asked("split") # {}, NEW i \in of
          PROVE  CutAsAsked(rows[i])
      <4>1. i \in DOMAIN rows /\ rows[i].part = p
        BY <1>7
      <4>2. Type(rows[i]) = "text" /\ PlaceRight(rows[i], 19)
        BY <4>1, <3>7, <1>2 DEF Type, Part, RowRight
      <4>3. CutRight(rows[i])
        BY <4>2, <3>7, <1>5 DEF PlaceRight
      <4>4. {q \in Expected : ~Unwanted(q)} = Remaining(rows[i].raw)
        <5>1. CASE rows[i].raw
          <6>1. Expected = {1} /\ ~Unwanted(1)
            BY <4>1, <5>1 DEF Expected, Unwanted
          <6> QED BY <6>1, <5>1 DEF Remaining
        <5>2. CASE ~rows[i].raw
          <6>1. p # 1
            BY <4>1, <5>2, <1>3 DEF Sources
          <6>2. Expected = 2 .. Len(document.parts)
            BY <6>1, <2>2 DEF Expected
          <6> QED BY <6>2, <5>2 DEF Remaining
        <5> QED BY <5>1, <5>2
      <4> QED BY <4>3, <4>4 DEF CutRight, CutAsAsked, KeptItsPlace
    <3>8. ASSUME ~(document.parts[p].type = "text" /\ Asked("split") # {})
          PROVE  held = 1 .. len /\ Cardinality(of) = 1
      <4>1. ~Split(19, p)
        BY <3>8 DEF Split
      <4>2. PICK i \in DOMAIN rows : \A k \in DOMAIN rows : rows[k].part = p <=> k = i
        BY <3>1, <4>1 DEF Single
      <4>3. of = {i}
        BY <4>2, <1>7
      <4>4. rows[i].lo = 1 /\ rows[i].hi = len
        BY <4>1, <4>2, <1>2, <1>7 DEF RowRight, Part
      <4>5. held = 1 .. len
        BY <4>3, <4>4, <3>4
      <4> QED BY <4>3, <4>5, FS_Singleton
    <3> QED BY <2>2, <3>5, <3>6, <3>7, <3>8
  <2> QED BY <2>1, <2>2
<1>8. ASSUME NEW i \in DOMAIN rows
      PROVE  /\ rows[i].table_content \in {0, rows[i].part}
             /\ rows[i].caption \in {0, rows[i].part}
             /\ rows[i].embedding \in {<<0, 0>>, <<rows[i].part, rows[i].lo>>}
  BY <1>2 DEF RowRight, EnrichmentsRight
<1> QED BY <1>1, <1>7, <1>8

\* No image is there twice, if the job asked for that.
LEMMA NoDuplicates ==
  ASSUME document \in Jobs, RowsInv(rows, 19), Asks("dedup")
  PROVE  Duplicates = {}
<1>1. \A i \in DOMAIN rows : rows[i] \in RowType /\ RowRight(rows[i], 19)
  BY RowsFact
<1>2. Covered(rows, 19) /\ DOMAIN rows = 1 .. Len(rows) /\ Len(rows) \in Nat
  BY RowsFact
<1>3. 19 > 7 /\ 19 > 8
  OBVIOUS
<1>4. ASSUME NEW i \in DOMAIN rows, IsImage(i)
      PROVE  /\ rows[i].part \in DOMAIN document.parts /\ rows[i].part \in Nat /\ rows[i].part # 1
             /\ document.parts[rows[i].part].type = "image" /\ ~Copy(rows[i].part) /\ Single(rows, rows[i].part)
  <2>1. /\ RowRight(rows[i], 19) /\ KindRight(rows[i], 19) /\ rows[i].document_type = "image"
        /\ rows[i].part \in DOMAIN document.parts /\ (rows[i].raw <=> rows[i].part = 1) /\ rows[i].part \in Nat
    BY <1>1, <1>4 DEF RowRight, IsImage, RowType
  <2>2. ~rows[i].raw
    BY <2>1, RawFact DEF KindRight
  <2>3. Type(rows[i]) = "image"
    BY <2>1, <2>2, <1>3 DEF KindRight
  <2>4. ~Copy(rows[i].part)
    BY <2>1, <1>3 DEF RowRight
  <2>5. ~Missing(rows, rows[i].part)
    BY DEF Missing
  <2>6. Single(rows, rows[i].part) \/ Split(19, rows[i].part)
    BY <2>1, <2>5, <1>2 DEF Covered
  <2>7. ~Split(19, rows[i].part)
    BY <2>3 DEF Split, Type, Part
  <2> QED BY <2>1, <2>2, <2>3, <2>4, <2>6, <2>7 DEF Type, Part
<1> SUFFICES ASSUME NEW i \in DOMAIN rows, IsImage(i), NEW k \in 1 .. i - 1, IsImage(k),
                    Part(rows[k]).hash = Part(rows[i]).hash
             PROVE  FALSE
  BY DEF Duplicates
<1>5. k \in DOMAIN rows /\ k # i
  BY <1>2
<1> DEFINE p == rows[i].part
           q == rows[k].part
<1>6. /\ p \in Nat /\ q \in Nat /\ p # 1 /\ q # 1 /\ p \in DOMAIN document.parts /\ q \in DOMAIN document.parts
      /\ document.parts[p].type = "image" /\ document.parts[q].type = "image"
      /\ ~Copy(p) /\ ~Copy(q) /\ document.parts[q].hash = document.parts[p].hash
  BY <1>4, <1>5 DEF Part
<1>7. p # q
  BY <1>4, <1>5 DEF Single
<1> HIDE DEF p, q
<1>8. p >= 1 /\ q >= 1
  BY <1>6, JobFact
<1>9. q \in 2 .. p - 1 \/ p \in 2 .. q - 1
  BY <1>6, <1>7, <1>8
<1> QED BY <1>6, <1>9 DEF Copy

\* The invariant says that the tasks are done.
LEMMA DoneFact == PipelineInv => TasksDone
<1> SUFFICES ASSUME PipelineInv, Succeeded
             PROVE  /\ Asked("embed") # {} => \A i \in DOMAIN rows :
                         HasPrompt(rows[i]) => rows[i].embedding # <<0, 0>>
                    /\ Asked("caption") # {} => \A i \in DOMAIN rows :
                         Type(rows[i]) = "image" => rows[i].caption # 0
                    /\ Asked("table_data_extract") # {} => \A i \in DOMAIN rows :
                         meets_criteria(rows[i], "table") /\ ~Part(rows[i]).small => rows[i].table_content # 0
                    /\ (\E i \in Asked("dedup") : document.tasks[i].content_type = "image") => Duplicates = {}
                    /\ (\A i, k \in DOMAIN document.tasks : document.tasks[i].type = document.tasks[k].type => i = k) =>
                         \A i \in DOMAIN tasks : ~Taken(tasks[i])
                    /\ Asked("store") = {}
  BY DEF TasksDone
<1>1. document \in Jobs /\ TasksInv(tasks, 19) /\ RowsInv(rows, 19) /\ Asked("store") = {}
  BY SucceededFact
<1>2. \A i \in DOMAIN rows : EnrichmentsRight(rows[i], 19)
  BY <1>1, RowsFact DEF RowRight
<1>3. 19 > 14 /\ 19 > 13 /\ 19 > 9
  OBVIOUS
<1>4. Asked("embed") # {} => \A i \in DOMAIN rows : HasPrompt(rows[i]) => rows[i].embedding # <<0, 0>>
  BY <1>2, <1>3 DEF EnrichmentsRight
<1>5. Asked("caption") # {} => \A i \in DOMAIN rows : Type(rows[i]) = "image" => rows[i].caption # 0
  BY <1>2, <1>3 DEF EnrichmentsRight
<1>6. Asked("table_data_extract") # {} => \A i \in DOMAIN rows :
        meets_criteria(rows[i], "table") /\ ~Part(rows[i]).small => rows[i].table_content # 0
  BY <1>2, <1>3 DEF EnrichmentsRight
<1>7. (\E i \in Asked("dedup") : document.tasks[i].content_type = "image") => Duplicates = {}
  BY <1>1, NoDuplicates DEF Asks
<1>8. OneOfAType(document.tasks) => \A i \in DOMAIN tasks : ~Taken(tasks[i])
  <2>1. \A t : Taken(t) => Took(19, t)
    BY DEF Taken, Took, Extractable
  <2> QED BY <2>1, <1>1 DEF TasksInv
<1> QED BY <1>1, <1>4, <1>5, <1>6, <1>7, <1>8 DEF OneOfAType

\* Whatever a job asks for, once it has succeeded every part of its document is in
\* the result once, whole or as chunks that leave out no token, but for the images
\* it asked to drop, and what the services made of a part is in the row of that
\* part (the process_fn of every stage, in the order of the edges).
THEOREM RowsAreKept == PipelineSpec => []RowsKept
<1>1. PipelineInit => PipelineInv
  BY PipelineStarts
<1>2. PipelineInv /\ [PipelineNext]_pipelineVars => PipelineInv'
  BY PipelineSteps
<1>3. PipelineInv => RowsKept
  BY KeptFact
<1> QED BY <1>1, <1>2, <1>3, PTL DEF PipelineSpec

\* A job that has succeeded is done: embedded, captioned, read and without the
\* copies of an image, as far as it asked for that; no stage has left a task it
\* takes, and a job whose images are to be stored does not succeed (the tasks a
\* stage requires and removes, and what its process_fn does with them).
THEOREM TasksAreDone == PipelineSpec => []TasksDone
<1>1. PipelineInit => PipelineInv
  BY PipelineStarts
<1>2. PipelineInv /\ [PipelineNext]_pipelineVars => PipelineInv'
  BY PipelineSteps
<1>3. PipelineInv => TasksDone
  BY DoneFact
<1> QED BY <1>1, <1>2, <1>3, PTL DEF PipelineSpec

=============================================================================
