---------------------------- MODULE JobSubmission ----------------------------
(***************************************************************************)
(* The way of one job into the pipeline: a worker of NvIngestClient calls  *)
(* submit_message of RestClient (or of SimpleClient), the service gives    *)
(* the job an id and pushes it on the task queue, and the engines of the   *)
(* source make control messages of what they fetch.                        *)
(*                                                                         *)
(* A job is named by the attempt that submitted it, since each request has *)
(* a trace id of its own. A handler goes on when its client has gone.      *)
(***************************************************************************)
EXTENDS Naturals, Sequences, FiniteSets, SequencesExt

CONSTANTS
  MaxAttempts,  \* max_retries of RestClient, and one
  Engines,      \* engines of the source
  MaxTroubles   \* bound on broken connections and failed Redis commands

ASSUME SubmissionAssumption == MaxAttempts \in Nat \ {0} /\ MaxTroubles \in Nat

Attempts == 1 .. MaxAttempts

\* "rest": the service validates the job and pushes it on a Redis list;
\* "simple": the SimpleMessageBroker stores it as it is (see SimpleBroker).
Routes == {"rest", "simple"}

\* "invalid": refused by validate_ingest_job; "uneven": the lists of job_payload
\* differ in length, which the schema allows and pd.DataFrame does not;
\* "untraced": no tracing_options, which the service takes for granted and the
\* source does not.
Specs == {"valid", "invalid", "uneven", "untraced"}

VARIABLES
  route, spec,
  posted,    \* where the handler of each attempt is
  submitter, \* the caller of submit_message, and the job_id it was given
  task_queue,\* the task queue: the ids of jobs
  engine,    \* the id of the job an engine of the source has fetched, or 0
  made,      \* the control messages made, with cm_failed
  troubles,  \* failures so far
  broke, repushed, lost   \* a connection broke; a push was repeated; ids that
                          \* a failed fetch took off the list

submissionVars == <<route, spec, posted, submitter, task_queue, engine, made,
                    troubles, broke, repushed, lost>>
histVars == <<troubles, broke, repushed, lost>>

-----------------------------------------------------------------------------
(* The caller: _submit_job and submit_message.                             *)

\* A request is sent.
Post ==
  /\ submitter.at = "sending"
  /\ posted' = [posted EXCEPT ![submitter.attempt] = "validating"]
  /\ submitter' = [submitter EXCEPT !.at = "waiting"]
  /\ UNCHANGED <<route, spec, task_queue, engine, made, histVars>>

\* submit_message returns. Whatever response_code is, _submit_job marks the job
\* as submitted; without a transaction id its job_id is "", here 0.
Return(id) == submitter' = [submitter EXCEPT !.at = "submitted", !.job_id = id]

\* 200 names the job; 500 is a terminal status.
ReceiveAnswer ==
  /\ submitter.at = "waiting" /\ posted[submitter.attempt] \in {"200", "500"}
  /\ Return(IF posted[submitter.attempt] = "200" THEN submitter.attempt ELSE 0)
  /\ UNCHANGED <<route, spec, posted, task_queue, engine, made, histVars>>

\* Mutant: without a retry left, the caller is given the id of its last attempt.
perform_retry_backoff_optimistic ==
  IF submitter.attempt < MaxAttempts
  THEN submitter' = [submitter EXCEPT !.at = "sending", !.attempt = @ + 1]
  ELSE Return(submitter.attempt)

\* Another attempt, after a pause, or a RuntimeError, which ends the call.
perform_retry_backoff ==
  IF submitter.attempt < MaxAttempts
  THEN submitter' = [submitter EXCEPT !.at = "sending", !.attempt = @ + 1]
  ELSE Return(0)

\* A RequestException: the connection breaks before or after the request reached
\* its handler.
Break ==
  /\ submitter.at = "waiting" /\ troubles < MaxTroubles
  /\ \/ UNCHANGED posted
     \/ /\ posted[submitter.attempt] = "validating"
        /\ posted' = [posted EXCEPT ![submitter.attempt] = "unposted"]
  /\ perform_retry_backoff
  /\ troubles' = troubles + 1 /\ broke' = TRUE
  /\ UNCHANGED <<route, spec, task_queue, engine, made, repushed, lost>>

-----------------------------------------------------------------------------
(* POST /submit_job and RedisIngestService.submit_job.                     *)

\* The trace id is written into tracing_options, and the job is validated.
Validate(n) ==
  /\ posted[n] = "validating"
  /\ posted' = [posted EXCEPT ![n] =
       IF route = "rest" /\ spec \in {"invalid", "untraced"} THEN "500" ELSE "pushing"]
  /\ UNCHANGED <<route, spec, submitter, task_queue, engine, made, histVars>>

\* rpush of the job under its id.
PushJob(n) ==
  /\ posted[n] = "pushing"
  /\ task_queue' = Append(task_queue, n)
  /\ posted' = [posted EXCEPT ![n] = "200"]
  /\ UNCHANGED <<route, spec, submitter, engine, made, histVars>>

\* rpush raises a RedisError, having been carried out or not. The service's
\* RedisClient has max_retries 0, with which submit_message goes on for ever.
PushJobFails(n) ==
  /\ posted[n] = "pushing" /\ route = "rest" /\ troubles < MaxTroubles
  /\ \/ task_queue' = Append(task_queue, n) /\ repushed' = TRUE
     \/ UNCHANGED <<task_queue, repushed>>
  /\ troubles' = troubles + 1
  /\ UNCHANGED <<route, spec, posted, submitter, engine, made, broke, lost>>

-----------------------------------------------------------------------------
(* The source: fetch_and_process_messages and process_message.             *)

\* Mutant: the job is read and stays in the list.
FetchJob_reading(e) ==
  /\ engine[e] = 0 /\ task_queue # <<>> /\ made = <<>>
  /\ engine' = [engine EXCEPT ![e] = Head(task_queue)]
  /\ UNCHANGED <<route, spec, posted, submitter, task_queue, made, histVars>>

FetchJob(e) ==
  /\ engine[e] = 0 /\ task_queue # <<>>
  /\ engine' = [engine EXCEPT ![e] = Head(task_queue)]
  /\ task_queue' = Tail(task_queue)
  /\ UNCHANGED <<route, spec, posted, submitter, made, histVars>>

\* fetch_message raises; the loop goes on, and what was popped is gone.
FetchJobFails(e) ==
  /\ engine[e] = 0 /\ task_queue # <<>> /\ troubles < MaxTroubles
  /\ lost' = lost \cup {Head(task_queue)} /\ task_queue' = Tail(task_queue)
  /\ troubles' = troubles + 1
  /\ UNCHANGED <<route, spec, posted, submitter, engine, made, broke, repushed>>

\* A job that fails validation has no job_id yet: the exception goes through to
\* the loop, which logs it. After that, a failure is a message with cm_failed.
process_message(e) ==
  /\ engine[e] # 0
  /\ made' = IF spec = "invalid" THEN made
             ELSE Append(made, [id |-> engine[e], cm_failed |-> spec = "uneven"])
  /\ engine' = [engine EXCEPT ![e] = 0]
  /\ UNCHANGED <<route, spec, posted, submitter, task_queue, histVars>>

-----------------------------------------------------------------------------
SubmissionInit ==
  /\ route \in Routes /\ spec \in Specs
  /\ posted = [n \in Attempts |-> "unposted"]
  /\ submitter = [at |-> "sending", attempt |-> 1, job_id |-> 0]
  /\ task_queue = <<>> /\ engine = [e \in Engines |-> 0] /\ made = <<>>
  /\ troubles = 0 /\ broke = FALSE /\ repushed = FALSE /\ lost = {}

submit_message == Post \/ ReceiveAnswer \/ Break
submit_job(n) == Validate(n) \/ PushJob(n) \/ PushJobFails(n)
fetch_and_process_messages(e) == FetchJob(e) \/ FetchJobFails(e) \/ process_message(e)
SubmissionNext ==
  \/ submit_message
  \/ \E n \in Attempts : submit_job(n)
  \/ \E e \in Engines : fetch_and_process_messages(e)

\* Everyone goes on when he can; failures are not owed to anyone.
SubmissionFairness ==
  /\ WF_submissionVars(Post \/ ReceiveAnswer)
  /\ \A n \in Attempts : WF_submissionVars(Validate(n) \/ PushJob(n))
  /\ \A e \in Engines : WF_submissionVars(FetchJob(e) \/ process_message(e))

SubmissionSpec ==
  SubmissionInit /\ [][SubmissionNext]_submissionVars /\ SubmissionFairness

-----------------------------------------------------------------------------
(* Properties.                                                             *)

\* One call of submit_message is one message in the pipeline: two of them have
\* different ids, unless a push was repeated, and there are two only if a
\* connection broke; a message is marked as failed just if its payload cannot be
\* read; and a job the service refuses is not in the pipeline.
MadeOnce ==
  /\ \A i, k \in DOMAIN made :
       i # k => \/ repushed
                \/ broke /\ made[i].id # made[k].id
  /\ \A i \in DOMAIN made :
       /\ made[i].cm_failed <=> spec = "uneven"
       /\ posted[made[i].id] # "500"

\* A job whose submitter was given an id becomes a message with that id, a failed
\* one at least, however many engines fetch: unless a fetch failed with the job
\* in its hands, or an invalid job came over the SimpleMessageBroker, which does
\* not validate: its client then waits for a response that never comes.
SubmittedIsHandled ==
  [](lost = {} /\ ~(route = "simple" /\ spec = "invalid")) =>
    []( submitter.at = "submitted" /\ submitter.job_id # 0
        => <>(\E i \in DOMAIN made : made[i].id = submitter.job_id) )
=============================================================================
