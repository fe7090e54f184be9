------------------------------ MODULE IngestAsync ------------------------------
(***************************************************************************)
(* Ingestor.ingest_async: it submits all its jobs, and gives each          *)
(* submission a callback that fetches the job's result and, if it is the   *)
(* last, completes the one future that the caller holds. A callback runs   *)
(* in the worker that ends the submission or, when that has ended already, *)
(* in the thread that adds it. Callbacks of different jobs interleave.     *)
(***************************************************************************)
EXTENDS JobClient

CONSTANT Upload  \* whether a bulk upload of the results was asked for

ASSUME AsyncAssumption ==
  /\ Cardinality(Jobs) \in Nat /\ Jobs = 1..Cardinality(Jobs)
  /\ Upload \in BOOLEAN

VARIABLES
  main,              \* where ingest_async is
  registered,        \* the number of callbacks added so far
  callback,          \* where each job's _done_callback is
  result,            \* its variable result
  completed_futures, \* the jobs whose callbacks have noted their future
  future_results,    \* the jobs whose data is in the list of results
  combined_future,   \* pending or done
  uploaded           \* the jobs whose data went to the bulk upload

callbackVars == <<callback, result, completed_futures, future_results, combined_future>>
asyncVars == <<main, registered, uploaded, callbackVars>>
vars == <<clientVars, asyncVars>>

Running == {"fetch", "finish", "note", "extend", "compare", "set"}
Move(j, to) == callback' = [callback EXCEPT ![j] = to]

\* The callback ends, well or with an exception that the future logs. A worker
\* that ran it is free again.
End(j) ==
  /\ Move(j, "over")
  /\ thread' = [w \in Workers |-> IF thread[w] = At("callback", j) THEN Idle ELSE thread[w]]

\* The main thread is in a callback.
MainIsBusy ==
  \E j \in Jobs : callback[j] \in Running /\ \A w \in Workers : thread[w] # At("callback", j)

-----------------------------------------------------------------------------
(* ingest_async.                                                           *)

Start ==
  /\ main = "start"
  /\ AddAndSubmit([i \in 1..Cardinality(Jobs) |-> i])
  /\ main' = "register"
  /\ UNCHANGED <<job_id, thread, fetch_future, serviceVars, registered,
                 uploaded, callbackVars>>

\* add_done_callback: a future that is done already has its callback run here.
AddDoneCallback ==
  /\ main = "register" /\ ~MainIsBusy /\ registered < Cardinality(Jobs)
  /\ LET j == registered + 1 IN
       /\ registered' = j
       /\ Move(j, IF submit_future[j] = "pending" THEN "registered" ELSE "fetch")
  /\ UNCHANGED <<clientVars, main, uploaded, result, completed_futures,
                 future_results, combined_future>>

\* combined_future is returned, at once or when it is done and uploaded.
Return ==
  /\ main = "register" /\ ~MainIsBusy /\ registered = Cardinality(Jobs)
  /\ Upload => combined_future = "done"
  /\ uploaded' = IF Upload THEN future_results ELSE uploaded
  /\ main' = "returned"
  /\ UNCHANGED <<clientVars, registered, callbackVars>>

-----------------------------------------------------------------------------
(* _done_callback.                                                         *)

\* fetch_with_retries asks again after a timeout, without limit.
Fetched(answer) == answer # "timeout"

\* fetch_job_result: a job that failed, or may not be fetched, gives an empty
\* list, and its spec is let go.
CallbackFetch(j) ==
  /\ callback[j] = "fetch"
  /\ \E answer \in Answers :
       /\ Fetch(j, answer)
       /\ IF Fetched(answer)
          THEN /\ result' = [result EXCEPT ![j] = IF answer = "good" THEN "data" ELSE "empty"]
               /\ job_specs' = job_specs \ {j} /\ Move(j, "finish")
          ELSE UNCHANGED <<result, job_specs, callback>>
  /\ UNCHANGED <<job_id, poolVars, verdict, main, registered, uploaded,
                 completed_futures, future_results, combined_future>>

\* Mutant: the state of a job is overwritten, whatever it is.
Finish_overwriting(j) ==
  /\ callback[j] = "finish" /\ Become(j, "COMPLETED")
  /\ Move(j, "note")
  /\ UNCHANGED <<job_states, job_specs, job_id, poolVars, serviceVars, main,
                 registered, uploaded, result, completed_futures, future_results,
                 combined_future>>

\* The job becomes COMPLETED; if it is FAILED, the setter raises.
Finish(j) ==
  /\ callback[j] = "finish"
  /\ IF CanBecome(j, "COMPLETED")
     THEN Become(j, "COMPLETED") /\ UNCHANGED result
     ELSE result' = [result EXCEPT ![j] = "None"] /\ UNCHANGED state
  /\ Move(j, "note")
  /\ UNCHANGED <<job_states, job_specs, job_id, poolVars, serviceVars, main,
                 registered, uploaded, completed_futures, future_results,
                 combined_future>>

Note(j) ==
  /\ callback[j] = "note"
  /\ completed_futures' = completed_futures \cup {j}
  /\ Move(j, "extend")
  /\ UNCHANGED <<clientVars, main, registered, uploaded, result, future_results,
                 combined_future>>

\* future_results.extend(result), which raises if result is None.
Extend(j) ==
  /\ callback[j] = "extend"
  /\ IF result[j] = "None" THEN End(j) ELSE Move(j, "compare") /\ UNCHANGED thread
  /\ future_results' = IF result[j] = "data" THEN Append(future_results, j) ELSE future_results
  /\ UNCHANGED <<jobVars, work, submit_future, fetch_future, serviceVars, main,
                 registered, uploaded, result, completed_futures, combined_future>>

\* Mutant: the future that is missing is not waited for.
AllCompleted_but_one == Cardinality(completed_futures) + 1 >= Cardinality(Jobs)

\* Mutant: results are counted, which a job that failed has none of.
AllCompleted_by_results == Len(future_results) = Cardinality(Jobs)

AllCompleted == completed_futures = Jobs

Compare(j) ==
  /\ callback[j] = "compare"
  /\ IF AllCompleted THEN Move(j, "set") /\ UNCHANGED thread ELSE End(j)
  /\ UNCHANGED <<jobVars, work, submit_future, fetch_future, serviceVars, main,
                 registered, uploaded, result, completed_futures, future_results,
                 combined_future>>

\* set_result; of two callbacks that get here, the second raises.
SetResult(j) ==
  /\ callback[j] = "set"
  /\ combined_future' = "done"
  /\ End(j)
  /\ UNCHANGED <<jobVars, work, submit_future, fetch_future, serviceVars, main,
                 registered, uploaded, result, completed_futures, future_results>>

-----------------------------------------------------------------------------
(* A submission that ends runs the callback its future has by then.        *)

HasCallback(w) == callback[thread[w].job] = "registered"

There(w) == IF HasCallback(w) THEN At("callback", thread[w].job) ELSE Idle

EndSubmission(w) ==
  /\ thread[w].at \in {"submit", "name"}
  /\ SendRaises(w, There(w)) \/ Name(w, There(w))
  /\ IF HasCallback(w) THEN Move(thread[w].job, "fetch") ELSE UNCHANGED callback
  /\ UNCHANGED <<main, registered, uploaded, result, completed_futures,
                 future_results, combined_future>>

Init ==
  /\ ClientInit
  /\ main = "start" /\ registered = 0 /\ uploaded = <<>>
  /\ callback = [j \in Jobs |-> "none"] /\ result = [j \in Jobs |-> "none"]
  /\ completed_futures = {} /\ future_results = <<>> /\ combined_future = "pending"

Main == Start \/ AddDoneCallback \/ Return

Callback(j) ==
  CallbackFetch(j) \/ Finish(j) \/ Note(j) \/ Extend(j) \/ Compare(j) \/ SetResult(j)

Worker(w) ==
  \/ (Take(w) \/ Send(w) \/ Mark(w)) /\ UNCHANGED asyncVars
  \/ EndSubmission(w)

Service(j) == Process(j) /\ UNCHANGED asyncVars

Next ==
  \/ Main
  \/ \E j \in Jobs : Callback(j) \/ Service(j)
  \/ \E w \in Workers : Worker(w)

AsyncSpec == Init /\ [][Next]_vars

\* Threads run; every request is answered within its timeout; and the service
\* gets every job it has taken in done.
Fairness ==
  /\ WF_vars(Main) /\ \A w \in Workers : WF_vars(Worker(w))
  /\ \A j \in Jobs : WF_vars(Callback(j)) /\ WF_vars(Service(j))
Spec == AsyncSpec /\ Fairness

-----------------------------------------------------------------------------
(* Properties.                                                             *)

\* The type of every variable; callbacks are added in the order of the jobs.
TypeOK ==
  /\ ClientTypeOK
  /\ main \in {"start", "register", "returned"} /\ registered \in 0..Cardinality(Jobs)
  /\ callback \in [Jobs -> {"none", "registered", "over"} \cup Running]
  /\ \A j \in Jobs : callback[j] = "none" <=> j > registered
  /\ result \in [Jobs -> {"none", "data", "empty", "None"}]
  /\ completed_futures \subseteq Jobs /\ combined_future \in {"pending", "done"}
  /\ future_results \in Seq(Jobs) /\ uploaded \in Seq(Jobs)

\* The combined future is not done before every job is in a terminal state,
\* in whatever order the callbacks run and the jobs fail.
CompletesOnlyAtEnd == combined_future = "done" => \A j \in Jobs : state[j] \in TerminalStates

\* A job whose callback is over has its data in the list of results once, if
\* the service took it in and processed it well, and else not at all; its spec
\* is let go, and one that could not be submitted is left FAILED.
Collected ==
  \A j \in Jobs : callback[j] = "over" =>
    /\ Cardinality({i \in DOMAIN future_results : future_results[i] = j})
         = IF service[j] \in {"processing", "ready", "taken"} /\ verdict[j] = "good" THEN 1 ELSE 0
    /\ j \notin job_specs
    /\ submit_future[j] = "error" => state[j] = "FAILED"

\* If every job is taken in and no answer is lost, the combined future gets
\* done, although every callback may find others unfinished when it compares.
CombinedCompletes ==
  <>(combined_future = "done"
     \/ \E j \in Jobs : submit_future[j] = "error" \/ service[j] = "refused" \/ Lost(j))

\* interface.py, of ingest_async: "A future that completes when all submitted
\* jobs have reached a terminal state."
CompletesAtEnd ==
  (\A j \in Jobs : state[j] \in TerminalStates) ~> (combined_future = "done")
=============================================================================
