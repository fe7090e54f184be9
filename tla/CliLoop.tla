-------------------------------- MODULE CliLoop --------------------------------
(***************************************************************************)
(* create_and_process_jobs, the loop of the command-line client: it makes  *)
(* jobs of the files in batches, submits them, waits until all of a batch  *)
(* are submitted, fetches them, and takes those that timed out into the    *)
(* next batch. Files are numbered in their order; one that cannot be read  *)
(* makes no job, the others are the Jobs.                                  *)
(***************************************************************************)
EXTENDS JobClient

CONSTANTS
  FileCount,    \* len(files)
  BatchSize     \* batch_size

Files == 1..FileCount

ASSUME LoopAssumption ==
  /\ FileCount \in Nat /\ BatchSize \in Nat \ {0}
  /\ Jobs \subseteq Files

VARIABLES
  fail_on_error, \* the parameter of this name
  main,        \* where the loop is
  processed,   \* the number of files taken so far
  retry,       \* retry_job_ids
  batch,       \* job_ids, of the current batch
  unchecked,   \* those _ensure_submitted has still to look at
  awaiting,    \* those whose submission it waits for
  outstanding, \* those whose fetch future has not been handled
  job_id_map,  \* the file a job is taken to be of, 0 if none
  progress,    \* pbar.n
  done,        \* jobs with a good result
  failed_jobs  \* jobs that failed

loopVars == <<fail_on_error, main, processed, retry, batch, unchecked, awaiting,
              outstanding, job_id_map, progress, done, failed_jobs>>
vars == <<clientVars, loopVars>>

Elements(list) == {list[i] : i \in DOMAIN list}
AtTop == main = "loop" /\ outstanding = {}

-----------------------------------------------------------------------------
(* generate_job_batch_for_iteration.                                       *)

\* The files of the next batch, beside the retries, and the jobs they make.
Room == IF Len(retry) < BatchSize THEN BatchSize - Len(retry) ELSE 0

\* Mutant: the last file is never taken.
NewCount_short_of_one ==
  IF Room < FileCount - processed - 1 THEN Room ELSE FileCount - processed - 1

NewCount == IF Room < FileCount - processed THEN Room ELSE FileCount - processed

NewFiles == [i \in 1..NewCount |-> processed + i]

\* create_jobs_for_batch: the loop over the files after the first p appends the
\* job of each that can be read.
JobsAfter(p, n) ==
  LET job_indices[k \in 0..n] ==
        IF k = 0 THEN <<>>
        ELSE IF p + k \in Jobs THEN Append(job_indices[k - 1], p + k) ELSE job_indices[k - 1]
  IN  job_indices[n]

NewJobs == JobsAfter(processed, NewCount)
Missing == NewCount - Len(NewJobs)

\* The jobs that are paired with the files of the batch, by zip, so that a file
\* without a job shifts the names of those after it.
Paired == NewJobs

GenerateBatch ==
  /\ AtTop /\ (processed < FileCount \/ retry # <<>>)
  /\ ~(fail_on_error /\ Missing > 0)
  /\ AddAndSubmit(NewJobs)
  /\ progress' = progress + Missing
  /\ job_id_map' = [j \in Jobs |->
       LET places == {i \in DOMAIN Paired \cap DOMAIN NewFiles : Paired[i] = j} IN
         IF places = {} THEN job_id_map[j] ELSE NewFiles[CHOOSE i \in places : TRUE]]
  /\ processed' = processed + NewCount
  /\ batch' = retry \o NewJobs /\ unchecked' = retry \o NewJobs /\ retry' = <<>>
  /\ main' = "ensure"
  /\ UNCHANGED <<job_id, thread, fetch_future, serviceVars, awaiting,
                 outstanding, done, failed_jobs>>

\* fail_on_error: a file that makes no job ends the loop, before the others of
\* its batch are submitted.
GenerateRaises ==
  /\ AtTop /\ fail_on_error /\ Missing > 0
  /\ AddOnly(NewJobs)
  /\ main' = "raised"
  /\ UNCHANGED <<job_id, poolVars, serviceVars, processed, retry, batch,
                 unchecked, awaiting, outstanding, job_id_map, progress, done,
                 failed_jobs>>

-----------------------------------------------------------------------------
(* _ensure_submitted and fetch_job_result_async.                           *)

Checking == main = "ensure" /\ unchecked # <<>>

\* The state of a job is read twice: a job that is neither SUBMITTED nor
\* SUBMITTED_ASYNC at first makes the call raise ...
Check ==
  /\ Checking /\ IsSubmitted(Head(unchecked))
  /\ main' = "checked"
  /\ UNCHANGED <<clientVars, processed, retry, batch, unchecked, awaiting,
                 outstanding, job_id_map, progress, done, failed_jobs>>

CheckRaises ==
  /\ Checking /\ ~IsSubmitted(Head(unchecked))
  /\ main' = "raised"
  /\ UNCHANGED <<clientVars, processed, retry, batch, unchecked, awaiting,
                 outstanding, job_id_map, progress, done, failed_jobs>>

\* ... and one that is not SUBMITTED_ASYNC any more is not waited for.
CheckAgain ==
  /\ main = "checked"
  /\ unchecked' = Tail(unchecked)
  /\ awaiting' = IF state[Head(unchecked)] = "SUBMITTED_ASYNC"
                 THEN awaiting \cup {Head(unchecked)} ELSE awaiting
  /\ main' = "ensure"
  /\ UNCHANGED <<clientVars, processed, retry, batch, outstanding, job_id_map,
                 progress, done, failed_jobs>>

Awaited(j) ==
  /\ main = "ensure" /\ unchecked = <<>>
  /\ j \in awaiting /\ submit_future[j] # "pending"

\* The submission is over.
Await(j) ==
  /\ Awaited(j) /\ CanBecome(j, "SUBMITTED")
  /\ Become(j, "SUBMITTED")
  /\ awaiting' = awaiting \ {j}
  /\ UNCHANGED <<job_states, job_specs, job_id, poolVars, serviceVars, main,
                 processed, retry, batch, unchecked, outstanding, job_id_map,
                 progress, done, failed_jobs>>

\* The submission failed: the setter of state raises.
AwaitRaises(j) ==
  /\ Awaited(j) /\ ~CanBecome(j, "SUBMITTED")
  /\ main' = "raised"
  /\ UNCHANGED <<clientVars, processed, retry, batch, unchecked, awaiting,
                 outstanding, job_id_map, progress, done, failed_jobs>>

Launch ==
  /\ main = "ensure" /\ unchecked = <<>> /\ awaiting = {}
  /\ FetchAsync(batch)
  /\ outstanding' = Elements(batch)
  /\ main' = "loop"
  /\ UNCHANGED <<jobVars, thread, submit_future, serviceVars, processed, retry,
                 batch, unchecked, awaiting, job_id_map, progress, done,
                 failed_jobs>>

-----------------------------------------------------------------------------
(* The loop over as_completed.                                             *)

Handled(j) ==
  /\ main = "loop" /\ j \in outstanding
  /\ outstanding' = outstanding \ {j}
  /\ UNCHANGED <<clientVars, main, processed, batch, unchecked, awaiting, job_id_map>>

HandleResult(j) ==
  /\ fetch_future[j] = "good" /\ Handled(j)
  /\ done' = done \cup {j}
  /\ progress' = progress + 1
  /\ UNCHANGED <<retry, failed_jobs>>

\* Mutant: a timeout is counted as progress as well.
HandleTimeout_counting(j) ==
  /\ fetch_future[j] = "timeout" /\ Handled(j)
  /\ retry' = Append(retry, j)
  /\ progress' = progress + 1
  /\ UNCHANGED <<done, failed_jobs>>

HandleTimeout(j) ==
  /\ fetch_future[j] = "timeout" /\ Handled(j)
  /\ retry' = Append(retry, j)
  /\ UNCHANGED <<progress, done, failed_jobs>>

HandleFailure(j) ==
  /\ fetch_future[j] \in {"failed", "error"} /\ Handled(j)
  /\ failed_jobs' = failed_jobs \cup {j}
  /\ progress' = progress + 1
  /\ UNCHANGED <<retry, done>>

Return ==
  /\ AtTop /\ processed = FileCount /\ retry = <<>>
  /\ main' = "returned"
  /\ UNCHANGED <<clientVars, processed, retry, batch, unchecked, awaiting,
                 outstanding, job_id_map, progress, done, failed_jobs>>

-----------------------------------------------------------------------------
Init ==
  /\ ClientInit
  /\ fail_on_error \in BOOLEAN
  /\ main = "loop" /\ processed = 0 /\ progress = 0
  /\ retry = <<>> /\ batch = <<>> /\ unchecked = <<>>
  /\ awaiting = {} /\ outstanding = {} /\ done = {} /\ failed_jobs = {}
  /\ job_id_map = [j \in Jobs |-> 0]

Main ==
  /\ \/ GenerateBatch \/ GenerateRaises \/ Check \/ CheckRaises \/ CheckAgain
     \/ Launch \/ Return
     \/ \E j \in Jobs : Await(j) \/ AwaitRaises(j)
     \/ \E j \in Jobs : HandleResult(j) \/ HandleTimeout(j) \/ HandleFailure(j)
  /\ UNCHANGED fail_on_error

Worker(w) ==
  /\ \/ Take(w) \/ Send(w) \/ SendRaises(w, Idle) \/ Mark(w) \/ Name(w, Idle)
     \/ FetchTask(w)
  /\ UNCHANGED loopVars

Service == (\E j \in Jobs : Process(j)) /\ UNCHANGED loopVars

Next == Main \/ (\E w \in Workers : Worker(w)) \/ Service

LoopSpec == Init /\ [][Next]_vars

\* Threads run; every request is answered within its timeout; and the service
\* gets every job it has taken in done.
Fairness ==
  /\ WF_vars(Main) /\ \A w \in Workers : WF_vars(Worker(w))
  /\ \A j \in Jobs : WF_vars(Process(j) /\ UNCHANGED loopVars)
Spec == LoopSpec /\ Fairness

-----------------------------------------------------------------------------
(* Properties.                                                             *)

\* The jobs the loop has still to do something about.
InProgress ==
  IF main \in {"ensure", "checked"} THEN Elements(batch) ELSE outstanding \cup Elements(retry)

\* No two results are put down under the name of one file, nor any under that
\* of a later file, although unreadable files shift the names within a batch.
NamesApart ==
  \A i, j \in done :
    /\ job_id_map[j] \in 1..j
    /\ i # j => job_id_map[i] # job_id_map[j]

\* Every file taken so far is accounted for once, by the progress bar and by
\* the results: it made no job, its job is done, under a name of its own, has
\* failed, or is in progress, through any number of timeouts and retries.
FilesAccounted ==
  main # "raised" =>
    /\ progress + Cardinality(InProgress) = processed
    /\ Jobs \cap (1..processed) = done \cup failed_jobs \cup InProgress
    /\ done \cap failed_jobs = {} /\ InProgress \cap (done \cup failed_jobs) = {}
    /\ NamesApart

InPool(j) ==
  \/ \E i \in DOMAIN work : work[i].job = j
  \/ \E w \in Workers : thread[w].at # "idle" /\ thread[w].job = j

Fetched(j) ==
  \/ \E i \in DOMAIN work : work[i] = Task("fetch", j)
  \/ \E w \in Workers : thread[w] = At("fetch", j)

\* Retries and new jobs together keep within the batch: no more jobs than
\* batch_size are with the pool at a time.
PoolWithinBatch == Cardinality({j \in Jobs : InPool(j)}) <= BatchSize

\* A job to be retried can be fetched again, whatever became of its submission
\* meanwhile: it is registered and submitted, so the next _ensure_submitted
\* lets it pass, no fetch of it is left to compete for its result, and it takes
\* its place in the batch.
RetriesAreLive ==
  /\ \A j \in Elements(retry) : IsSubmitted(j) /\ ~Fetched(j)
  /\ PoolWithinBatch

\* The loop ends, returning or raising, unless the broker refuses a job or an
\* answer is lost.
LoopEnds ==
  <>(main \in {"returned", "raised"}
     \/ \E j \in Jobs : service[j] = "refused" \/ Lost(j))
=============================================================================
