------------------------------ MODULE JobClient ------------------------------
(***************************************************************************)
(* NvIngestClient: its registry of jobs, the submit and fetch calls that   *)
(* its callers make, and the threads of its worker pool that carry them    *)
(* out. What the callers do is in the modules that extend this one:        *)
(* CliLoop and IngestAsync.                                                *)
(*                                                                         *)
(* The service behind the message client is external: it takes a job in or *)
(* refuses it, has its result ready at some time, and gives it out once.   *)
(***************************************************************************)
EXTENDS Naturals, Sequences, FiniteSets

CONSTANTS
  Jobs,      \* job indices, which are handed out in the order of the files
  Workers    \* threads of _worker_pool

ASSUME ClientAssumption == Jobs \subseteq Nat \ {0}

\* JobStateEnum, in its order. A job nobody has added yet is "absent".
JobStateEnum ==
  <<"PENDING", "SUBMITTED_ASYNC", "SUBMITTED", "PROCESSING", "COMPLETED", "FAILED", "CANCELLED">>
Rank(s) == CHOOSE i \in DOMAIN JobStateEnum : JobStateEnum[i] = s
States == {"absent", "PENDING", "SUBMITTED_ASYNC", "SUBMITTED", "PROCESSING",
           "COMPLETED", "FAILED", "CANCELLED"}
TerminalStates == {"COMPLETED", "FAILED", "CANCELLED"}

VARIABLES
  state,         \* JobState.state of each job
  job_states,    \* the jobs in _job_states
  job_specs,     \* the jobs in _job_index_to_job_spec
  job_id,        \* JobState.job_id: not set, that of the service, or ""
  work,          \* the pool's queue: submit and fetch tasks
  thread,        \* what each worker is doing
  submit_future, \* futures of submit_job_async
  fetch_future,  \* futures of fetch_job_result_async, one at a time per job
  service,       \* what has become of each job at the service
  verdict        \* whether its result is a good one or tells of a failure

jobVars     == <<state, job_states, job_specs, job_id>>
poolVars    == <<work, thread, submit_future, fetch_future>>
serviceVars == <<service, verdict>>
clientVars  == <<jobVars, poolVars, serviceVars>>

Task(what, j) == [do |-> what, job |-> j]
Tasks(what, list) == [i \in DOMAIN list |-> Task(what, list[i])]
Idle == [at |-> "idle"]
At(where, j) == [at |-> where, job |-> j]

-----------------------------------------------------------------------------
(* JobState and the registry.                                              *)

\* Whether the setter of state accepts s.
CanBecome(j, s) ==
  state[j] \notin TerminalStates /\ Rank(state[j]) <= Rank(s)
Become(j, s) == state' = [state EXCEPT ![j] = s]

\* _get_and_check_job_state with the states that fetching demands.
IsSubmitted(j) ==
  j \in job_states /\ state[j] \in {"SUBMITTED", "SUBMITTED_ASYNC"}

\* add_job and then submit_job_async, by one caller, for a list of new jobs.
AddAndSubmit(list) ==
  LET new == {list[i] : i \in DOMAIN list} IN
    /\ state' = [j \in Jobs |-> IF j \in new THEN "SUBMITTED_ASYNC" ELSE state[j]]
    /\ job_states' = job_states \cup new
    /\ job_specs' = job_specs \cup new
    /\ submit_future' = [j \in Jobs |-> IF j \in new THEN "pending" ELSE submit_future[j]]
    /\ work' = work \o Tasks("submit", list)

\* add_job for jobs that are then not submitted.
AddOnly(list) ==
  LET new == {list[i] : i \in DOMAIN list} IN
    /\ state' = [j \in Jobs |-> IF j \in new THEN "PENDING" ELSE state[j]]
    /\ job_states' = job_states \cup new
    /\ job_specs' = job_specs \cup new

\* fetch_job_result_async once _ensure_submitted has returned.
FetchAsync(list) ==
  /\ \A i \in DOMAIN list : list[i] \in job_states
  /\ fetch_future' = [j \in Jobs |-> IF \E i \in DOMAIN list : list[i] = j
                                     THEN "pending" ELSE fetch_future[j]]
  /\ work' = work \o Tasks("fetch", list)

-----------------------------------------------------------------------------
(* The threads of the pool. A thread that has ended a submission goes on   *)
(* to there: to the callbacks of its future, or back to the queue.         *)

Take(w) ==
  /\ thread[w].at = "idle" /\ work # <<>>
  /\ thread' = [thread EXCEPT ![w] = At(Head(work).do, Head(work).job)]
  /\ work' = Tail(work)
  /\ UNCHANGED <<jobVars, submit_future, fetch_future, serviceVars>>

\* _submit_job up to the answer of submit_message, which may be a refusal.
Send(w) ==
  /\ thread[w].at = "submit"
  /\ \E answer \in {"processing", "refused"} :
       service' = [service EXCEPT ![thread[w].job] = answer]
  /\ thread' = [thread EXCEPT ![w] = At("mark", thread[w].job)]
  /\ UNCHANGED <<jobVars, work, submit_future, fetch_future, verdict>>

\* _submit_job when submit_message raises.
SendRaises(w, there) ==
  /\ thread[w].at = "submit"
  /\ LET j == thread[w].job IN
       /\ Become(j, "FAILED")
       /\ submit_future' = [submit_future EXCEPT ![j] = "error"]
       /\ thread' = [thread EXCEPT ![w] = there]
  /\ UNCHANGED <<job_states, job_specs, job_id, work, fetch_future, serviceVars>>

\* The job's state is set, whatever the answer was ...
Mark(w) ==
  /\ thread[w].at = "mark"
  /\ LET j == thread[w].job IN
       /\ CanBecome(j, "SUBMITTED") /\ Become(j, "SUBMITTED")
       /\ thread' = [thread EXCEPT ![w] = At("name", j)]
  /\ UNCHANGED <<job_states, job_specs, job_id, work, submit_future,
                 fetch_future, serviceVars>>

\* ... then its id, and the future is done.
Name(w, there) ==
  /\ thread[w].at = "name"
  /\ LET j == thread[w].job IN
       /\ job_id' = [job_id EXCEPT ![j] = IF service[j] = "refused" THEN "empty" ELSE "issued"]
       /\ submit_future' = [submit_future EXCEPT ![j] = "value"]
       /\ thread' = [thread EXCEPT ![w] = there]
  /\ UNCHANGED <<state, job_states, job_specs, work, fetch_future, serviceVars>>

\* _fetch_job_result of a job that may not be fetched: ValueError.
FetchRefused(j, answer) ==
  /\ ~IsSubmitted(j) /\ answer = "error"
  /\ UNCHANGED <<state, job_states, service>>

\* The service has a result for the id that is asked for: the job's state is
\* set, and the job leaves the registry.
FetchAnswered(j, answer) ==
  /\ IsSubmitted(j) /\ job_id[j] = "issued" /\ service[j] = "ready"
  /\ answer = verdict[j]
  /\ Become(j, "PROCESSING") /\ job_states' = job_states \ {j}
  /\ service' = [service EXCEPT ![j] = "taken"]

\* Mutant: the job leaves the registry whatever the answer is.
FetchTimesOut_popping(j, answer) ==
  /\ IsSubmitted(j) /\ answer = "timeout"
  /\ job_id[j] # "issued" \/ service[j] # "ready"
  /\ job_states' = job_states \ {j}
  /\ UNCHANGED <<state, service>>

\* Any other answer is a TimeoutError: there is no result yet or any more, the
\* service does not know the id, or the answer is lost, and the result with it.
\* A connection that fails at once looks like a result that is not there yet.
FetchTimesOut(j, answer) ==
  /\ IsSubmitted(j) /\ answer = "timeout"
  /\ IF job_id[j] = "issued" /\ service[j] = "ready"
     THEN service' = [service EXCEPT ![j] = "taken"]
     ELSE UNCHANGED service
  /\ UNCHANGED <<state, job_states>>

\* The service has given the job's result out, and the client never got it.
Lost(j) == service[j] = "taken" /\ IsSubmitted(j)

Fetch(j, answer) ==
  FetchRefused(j, answer) \/ FetchAnswered(j, answer) \/ FetchTimesOut(j, answer)

Answers == {"good", "failed", "timeout", "error"}

\* fetch_job_result_cli, by a worker.
FetchTask(w) ==
  /\ thread[w].at = "fetch"
  /\ \E answer \in Answers :
       /\ Fetch(thread[w].job, answer)
       /\ fetch_future' = [fetch_future EXCEPT ![thread[w].job] = answer]
  /\ thread' = [thread EXCEPT ![w] = Idle]
  /\ UNCHANGED <<job_specs, job_id, work, submit_future, verdict>>

-----------------------------------------------------------------------------
(* The service.                                                            *)

Process(j) ==
  /\ service[j] = "processing"
  /\ service' = [service EXCEPT ![j] = "ready"]
  /\ UNCHANGED <<jobVars, poolVars, verdict>>

-----------------------------------------------------------------------------
ClientInit ==
  /\ state = [j \in Jobs |-> "absent"]
  /\ job_states = {} /\ job_specs = {}
  /\ job_id = [j \in Jobs |-> "none"]
  /\ work = <<>> /\ thread = [w \in Workers |-> Idle]
  /\ submit_future = [j \in Jobs |-> "none"]
  /\ fetch_future = [j \in Jobs |-> "none"]
  /\ service = [j \in Jobs |-> "absent"]
  /\ verdict \in [Jobs -> {"good", "failed"}]

ThreadStates ==
  {Idle} \cup [at : {"submit", "mark", "name", "fetch", "callback"}, job : Jobs]

ClientTypeOK ==
  /\ state \in [Jobs -> States]
  /\ job_states \subseteq Jobs /\ job_specs \subseteq Jobs
  /\ job_id \in [Jobs -> {"none", "issued", "empty"}]
  /\ work \in Seq([do : {"submit", "fetch"}, job : Jobs])
  /\ thread \in [Workers -> ThreadStates]
  /\ submit_future \in [Jobs -> {"none", "pending", "value", "error"}]
  /\ fetch_future \in [Jobs -> {"none", "pending"} \cup Answers]
  /\ service \in [Jobs -> {"absent", "refused", "processing", "ready", "taken"}]
  /\ verdict \in [Jobs -> {"good", "failed"}]
=============================================================================
