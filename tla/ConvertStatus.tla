---------------------------- MODULE ConvertStatus ----------------------------
(***************************************************************************)
(* POST /convert and GET /status of the REST service: a conversion of      *)
(* several files under one job id, and the cache entry in Redis by which   *)
(* status requests remember what they have already fetched.                *)
(*                                                                         *)
(* All files are submitted with the same job id, so that their results     *)
(* come in one Redis list, in the order in which the pipeline ends them.   *)
(* A handler makes blocking Redis calls only and runs to its end in its    *)
(* process; handlers overlap when they run in different worker processes.  *)
(* A push of a job that raised may have been carried out all the same, and *)
(* RedisClient repeats it: then the pipeline gets the file twice. <<f, n>> *)
(* is the n-th push of file f, and stands for its result as well. A result *)
(* is one fragment: how fragments are collected is in ResponseChannel.     *)
(***************************************************************************)
EXTENDS Naturals, Sequences, FiniteSets

CONSTANTS
  Files,      \* the files of the conversion: 1 .. the number of them
  Pollers,    \* status requests that may be under way at once
  MayExpire,  \* whether the cache entry may outlive its 3600 seconds
  MaxErrors   \* bound on Redis commands that fail

ASSUME ConvertAssumption ==
  /\ IsFiniteSet(Files) /\ Files # {} /\ Files = 1 .. Cardinality(Files)
  /\ MayExpire \in BOOLEAN /\ MaxErrors \in Nat

VARIABLES
  bad,        \* a file whose content type is not accepted, or 0
  broken,     \* files the pipeline ends as failed
  converting, \* where /convert is: submitting, caching, done or error
  file,       \* the file it submits next
  pushes,     \* how often each file was pushed on the task queue
  submitted,  \* pushes in the task queue or in the pipeline
  results,    \* the Redis list of the job id: pushes whose results it holds
  cache,      \* the cache entry: none, or its list of ProcessingJobs
  poll,       \* each status request: where it is, its list, the entry it is at
  reply,      \* the latest answer of /status
  errors,     \* Redis commands that failed
  upset       \* two handlers overlapped, one failed, or the entry expired

convertVars == <<bad, broken, converting, file, pushes, submitted, results, cache,
                 poll, reply, errors, upset>>

NoCache == [set |-> FALSE, jobs |-> <<>>]
Cached(jobs) == [set |-> TRUE, jobs |-> jobs]
NoPush == <<0, 0>>
Processing(f) ==
  [filename |-> f, status |-> "in_progress", result |-> NoPush, content |-> ""]
NoReply == [status |-> "none", jobs |-> <<>>]
Away == [at |-> "away"]

\* ingest_json_results_to_blob returns "" for what it cannot read, such as the
\* null data of a failed job.
blob(push) == IF push[1] \in broken THEN "" ELSE "text"

\* Mutant: a job whose result was fetched stays in progress.
Fetched_in_progress(job, push) ==
  [job EXCEPT !.result = push, !.content = blob(push)]

\* A status request marks every fetched result as a success.
Fetched(job, push) ==
  [job EXCEPT !.status = "success", !.result = push, !.content = blob(push)]

Overlapping == converting \in {"submitting", "caching"} \/ \E p \in Pollers : poll[p] # Away

-----------------------------------------------------------------------------
(* POST /convert.                                                          *)

\* The job of the file is on the task queue once more.
PushFile ==
  /\ pushes' = [pushes EXCEPT ![file] = @ + 1]
  /\ submitted' = submitted \cup {<<file, pushes[file] + 1>>}

\* One turn of the loop over the files: the job is pushed on the task queue. An
\* unsupported content type ends the handler, without a cache entry.
SubmitFile ==
  /\ converting = "submitting"
  /\ IF file = bad
     THEN /\ converting' = "error" /\ upset' = TRUE
          /\ UNCHANGED <<pushes, submitted, file>>
     ELSE /\ PushFile
          /\ file' = file + 1
          /\ converting' = IF file + 1 \in Files THEN "submitting" ELSE "caching"
          /\ UNCHANGED upset
  /\ UNCHANGED <<bad, broken, results, cache, poll, reply, errors>>

\* A push that was carried out raises, and submit_message makes another one. (One
\* that raises without having been carried out changes nothing.)
PushAgain ==
  /\ converting = "submitting" /\ file # bad
  /\ errors < MaxErrors /\ errors' = errors + 1
  /\ PushFile
  /\ UNCHANGED <<bad, broken, converting, file, results, cache, poll, reply, upset>>

\* set_processing_cache of all the jobs, once they have all been submitted.
CacheJobs ==
  /\ converting = "caching"
  /\ \/ /\ cache' = Cached([i \in Files |-> Processing(i)])
        /\ converting' = "done"
        /\ UNCHANGED <<errors, upset>>
     \/ /\ errors < MaxErrors /\ errors' = errors + 1
        /\ converting' = "error" /\ upset' = TRUE
        /\ UNCHANGED cache
  /\ UNCHANGED <<bad, broken, file, pushes, submitted, results, poll, reply>>

-----------------------------------------------------------------------------
(* The pipeline and Redis, which are external to these handlers.           *)

\* The pipeline ends one of its jobs and pushes the result.
EndJob ==
  /\ \E push \in submitted :
       submitted' = submitted \ {push} /\ results' = Append(results, push)
  /\ UNCHANGED <<bad, broken, converting, file, pushes, cache, poll, reply, errors, upset>>

\* The cache entry is gone an hour after it was last set.
Expire ==
  /\ MayExpire /\ cache.set /\ converting = "done"
  /\ cache' = NoCache /\ upset' = TRUE
  /\ UNCHANGED <<bad, broken, converting, file, pushes, submitted, results, poll, reply, errors>>

-----------------------------------------------------------------------------
(* GET /status.                                                            *)

\* get_processing_cache: no entry reads as no jobs.
Poll(p) ==
  /\ poll[p] = Away
  /\ upset' = (upset \/ Overlapping)
  /\ poll' = [poll EXCEPT ![p] = [at |-> "fetching", jobs |-> cache.jobs, next |-> 1]]
  /\ UNCHANGED <<bad, broken, converting, file, pushes, submitted, results, cache, reply, errors>>

Current(p) == poll[p].jobs[poll[p].next]
Busy(p) == poll[p].at = "fetching" /\ poll[p].next <= Len(poll[p].jobs)

\* Mutant: the fetched result is left in the Redis list.
FetchResult_keeping(p) ==
  /\ Busy(p) /\ Current(p).status = "in_progress" /\ results # <<>>
  /\ poll' = [poll EXCEPT ![p].jobs[poll[p].next] = Fetched(@, Head(results)),
                          ![p].next = @ + 1]
  /\ UNCHANGED <<bad, broken, converting, file, pushes, submitted, results, cache, reply, errors, upset>>

\* fetch_job of a job in progress finds a result: whichever file's is first.
FetchResult(p) ==
  /\ Busy(p) /\ Current(p).status = "in_progress" /\ results # <<>>
  /\ results' = Tail(results)
  /\ poll' = [poll EXCEPT ![p].jobs[poll[p].next] = Fetched(@, Head(results)),
                          ![p].next = @ + 1]
  /\ UNCHANGED <<bad, broken, converting, file, pushes, submitted, cache, reply, errors, upset>>

\* A job that has ended is passed over; one in progress as well, if fetch_job
\* raises a TimeoutError.
PassOver(p) ==
  /\ Busy(p) /\ (Current(p).status = "success" \/ results = <<>>)
  /\ poll' = [poll EXCEPT ![p].next = @ + 1]
  /\ UNCHANGED <<bad, broken, converting, file, pushes, submitted, results, cache, reply, errors, upset>>

\* A Redis command fails: RedisClient makes a ValueError of it, which the
\* handlers of TimeoutError and RedisError let through. It may have popped a
\* result; those fetched before it are not written to the cache.
PollFails(p) ==
  /\ poll[p].at = "fetching" /\ errors < MaxErrors
  /\ errors' = errors + 1 /\ upset' = TRUE
  /\ \/ UNCHANGED results
     \/ Busy(p) /\ results # <<>> /\ results' = Tail(results)
  /\ poll' = [poll EXCEPT ![p] = Away]
  /\ reply' = [status |-> "error", jobs |-> <<>>]
  /\ UNCHANGED <<bad, broken, converting, file, pushes, submitted, cache>>

Ended(jobs) == \A i \in DOMAIN jobs : jobs[i].status = "success"

\* All jobs seen: the list is written back, and answered if all have ended.
Answer(p) ==
  /\ poll[p].at = "fetching" /\ ~Busy(p)
  /\ cache' = Cached(poll[p].jobs)
  /\ reply' = [status |-> IF Ended(poll[p].jobs) THEN "completed" ELSE "202",
               jobs |-> poll[p].jobs]
  /\ poll' = [poll EXCEPT ![p] = Away]
  /\ UNCHANGED <<bad, broken, converting, file, pushes, submitted, results, errors, upset>>

-----------------------------------------------------------------------------
ConvertInit ==
  /\ bad \in Files \cup {0} /\ broken \in SUBSET Files
  /\ converting = "submitting" /\ file = 1 /\ pushes = [f \in Files |-> 0]
  /\ submitted = {} /\ results = <<>>
  /\ cache = NoCache
  /\ poll = [p \in Pollers |-> Away]
  /\ reply = NoReply /\ errors = 0 /\ upset = FALSE

Status(p) == Poll(p) \/ FetchResult(p) \/ PassOver(p) \/ PollFails(p) \/ Answer(p)
ConvertNext ==
  SubmitFile \/ PushAgain \/ CacheJobs \/ EndJob \/ Expire \/ \E p \in Pollers : Status(p)

\* Handlers run to their end, the pipeline ends its jobs, and some client asks
\* again as long as it has not been told that the conversion is completed.
ConvertFairness ==
  /\ WF_convertVars(SubmitFile) /\ WF_convertVars(CacheJobs) /\ WF_convertVars(EndJob)
  /\ \A p \in Pollers : WF_convertVars(FetchResult(p) \/ PassOver(p) \/ Answer(p))
  /\ WF_convertVars(reply.status # "completed" /\ \E p \in Pollers : Poll(p))

ConvertSpec == ConvertInit /\ [][ConvertNext]_convertVars /\ ConvertFairness

-----------------------------------------------------------------------------
(* Properties.                                                             *)

ResultsIn(jobs) == {jobs[i].result : i \in DOMAIN jobs} \ {NoPush}
NoneTwice(jobs) ==
  \A i, k \in DOMAIN jobs :
    i # k => jobs[i].result # jobs[k].result \/ jobs[i].result = NoPush

\* The pushes of file f that were carried out.
Pushed(f) == {<<f, n>> : n \in 1 .. pushes[f]}

\* Status requests take results off the list before they have them in the
\* cache: unless two handlers overlapped, a command of theirs failed or the entry
\* expired, the result of every push is to come, in the list, in a handler's hand
\* or cached.
ResultsKept ==
  ~upset =>
    \A f \in Files : \A push \in Pushed(f) :
      \/ push \in submitted \/ push \in {results[i] : i \in DOMAIN results}
      \/ push \in ResultsIn(cache.jobs)
      \/ \E p \in Pollers : poll[p] # Away /\ push \in ResultsIn(poll[p].jobs)

\* A list in which every job has a result: of different pushes, and of all the
\* files as far as no push was repeated.
AllResults(jobs) ==
  /\ Ended(jobs) /\ NoneTwice(jobs) /\ ResultsIn(jobs) \subseteq UNION {Pushed(f) : f \in Files}
  /\ (\A f \in Files : pushes[f] <= 1) => {push[1] : push \in ResultsIn(jobs)} = Files

\* However many worker processes answer status requests, whatever fails, and
\* though all files share one list: an answer "completed" gives no result at all,
\* or one for every job, no push's result twice, and so the result of every file
\* once, unless a push was carried out and repeated: then a file may be there
\* twice and another be missing. No result at all is what a client gets before the
\* entry is cached, after it expired, and for an id that was never converted. And
\* if nothing overlaps, fails or expires, no result is lost.
CompletedIsFullOrEmpty ==
  /\ reply.status = "completed" => reply.jobs = <<>> \/ AllResults(reply.jobs)
  /\ ResultsKept

\* If nothing upsets the conversion, a client that goes on asking is told that
\* it is completed.
ConversionCompletes == []~upset => <>(reply.status = "completed")
=============================================================================
