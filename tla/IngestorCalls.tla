----------------------------- MODULE IngestorCalls -----------------------------
(* The Ingestor interface of the client as its callers use it: a chain of     *)
(* calls that name documents and tasks, and ingest, which submits a job for   *)
(* each document and waits for all results.  The calls come in any order, and *)
(* ingest may be called again, also after it raised.                          *)
EXTENDS Integers, Sequences, FiniteSets, SequencesExt

CONSTANTS DocumentTypes,   \* the types that extract_file_content knows
          CallersDocuments, \* [host, name, document_type, remote, known], as a caller names them
          max_fetches,     \* max_retries of fetch_job_result
          max_calls        \* bound on the calls of the chain

VARIABLES _documents,      \* [of, local]: the document a path leads to, and whether it is here
          _job_specs,      \* the types and the specs of a BatchJobSpec, once it is made
          _all_local,
          _vdb_bulk_upload,
          phase,           \* "build" | "submit" | "fetch" | "returned" | "raised"
          submission,      \* submission[k]: "no" | "sent" | "empty" | "error", for the k-th spec
          fetched,         \* fetched[k]: "asking" | "success" | "failed" | "none"
          fetches,         \* fetches[k]: how often it was asked for in vain
          result, failure, \* the jobs as_completed has passed
          uploaded,        \* the jobs whose results MilvusOperator was given by this ingest
          asked,           \* history: the tasks asked for since the specs were built
          calls

ingestorVars == <<_documents, _job_specs, _all_local, _vdb_bulk_upload, phase, submission, fetched,
                  fetches, result, failure, uploaded, asked, calls>>
runVars == <<submission, fetched, fetches, result, failure, uploaded>>

BatchSpecs == _job_specs.specs
BatchJobs == DOMAIN BatchSpecs
MayCall == phase \in {"build", "returned", "raised"} /\ calls < max_calls
Called == calls' = calls + 1 /\ phase' = "build"

-----------------------------------------------------------------------------
(* Job specifications.                                                        *)

\* One spec for each document whose content can be read, in the order of their
\* types: a type has the place at which it first came up.
Types(documents) ==
  LET type(i) == documents[i].of.document_type
      seen(i) == \E k \in 1..(i - 1) : documents[k].of.known /\ type(k) = type(i)
  IN FlattenSeq([i \in 1..Len(documents) |->
       IF documents[i].of.known /\ ~seen(i) THEN <<type(i)>> ELSE <<>>])
OfType(documents, t) ==
  FlattenSeq([i \in 1..Len(documents) |->
    IF documents[i].of.known /\ documents[i].of.document_type = t THEN <<documents[i].of>> ELSE <<>>])
ByType(documents) ==
  FlattenSeq([i \in 1..Len(Types(documents)) |-> OfType(documents, Types(documents)[i])])

BatchJobSpec(documents) ==
  [made |-> TRUE, file_types |-> Types(documents),
   specs |-> [k \in DOMAIN ByType(documents) |->
                [of |-> ByType(documents)[k], tasks |-> <<>>, payload |-> TRUE]]]

\* JobSpec.add_task: an extraction brings the tasks for tables and charts with it.
With(task) == IF task.type = "extract" THEN <<task, [type |-> "table_data_extract"], [type |-> "chart_data_extract"]>>
              ELSE <<task>>

\* The task goes to the first spec of its type only.
add_task_first(batch_spec, task, document_type) ==
  [batch_spec EXCEPT !.specs = [k \in DOMAIN @ |->
     IF k = 1 \/ (document_type # "any" /\ @[k].of.document_type = document_type)
     THEN [@[k] EXCEPT !.tasks = @ \o With(task)] ELSE @[k]]]

\* BatchJobSpec.add_task, for one type or for all; asking for a type that is not
\* in the batch adds the type, without a spec.
add_task(batch_spec, task, document_type) ==
  [made |-> TRUE,
   file_types |-> IF document_type = "any" \/ Contains(batch_spec.file_types, document_type)
                  THEN batch_spec.file_types ELSE Append(batch_spec.file_types, document_type),
   specs |-> [k \in DOMAIN batch_spec.specs |->
     LET s == batch_spec.specs[k] IN
     IF document_type \in {"any", s.of.document_type} THEN [s EXCEPT !.tasks = @ \o With(task)] ELSE s]]

\* Several tasks in turn, each for its type.
AddTasks(batch_spec, list) ==
  LET after[n \in 0..Len(list)] ==
        IF n = 0 THEN batch_spec ELSE add_task(after[n - 1], list[n].task, list[n].document_type)
  IN after[Len(list)]

\* Ingestor.extract: a type the caller gives takes the place of the first one.
extract(batch_spec, document_type) ==
  LET types == IF document_type = "any" \/ batch_spec.file_types = <<>> THEN batch_spec.file_types
               ELSE <<document_type>> \o Tail(batch_spec.file_types)
      extract_task(t) == [task |-> [type |-> "extract", document_type |-> t], document_type |-> t]
  IN AddTasks(batch_spec, [i \in 1..Len(types) |-> extract_task(types[i])])

DefaultTasks == <<"dedup", "filter", "split", "embed", "store_embedding">>
all_tasks(batch_spec) ==
  AddTasks(extract(batch_spec, "any"),
           [i \in 1..5 |-> [task |-> [type |-> DefaultTasks[i]], document_type |-> "any"]])

-----------------------------------------------------------------------------
(* The calls of the chain.                                                    *)

_check_files_local(documents) == documents # <<>> /\ \A i \in DOMAIN documents : documents[i].local

IngestorInit ==
  /\ _documents = <<>> /\ _job_specs = [made |-> FALSE, file_types |-> <<>>, specs |-> <<>>]
  /\ _all_local = FALSE /\ _vdb_bulk_upload = FALSE
  /\ phase = "build" /\ submission = <<>> /\ fetched = <<>> /\ fetches = <<>>
  /\ result = {} /\ failure = {} /\ uploaded = {} /\ asked = <<>> /\ calls = 0

\* files: when all documents are here the specs are built anew, without the
\* tasks that were added; when they are not, the specs stay as they are.
files(d) ==
  /\ MayCall /\ Called
  /\ LET documents == Append(_documents, [of |-> d, local |-> ~d.remote]) IN
       /\ _documents' = documents /\ _all_local' = _check_files_local(documents)
       /\ IF _check_files_local(documents) THEN _job_specs' = BatchJobSpec(documents) /\ asked' = <<>>
          ELSE UNCHANGED <<_job_specs, asked>>
  /\ UNCHANGED <<_vdb_bulk_upload, runVars>>

\* load: remote documents go into one directory under their own names, and are
\* read when all are there, so that of two with one name the last is read twice.
Loaded(i) ==
  LET sameName == {k \in DOMAIN _documents : ~_documents[k].local /\ _documents[k].of.name = _documents[i].of.name}
  IN IF _documents[i].local THEN _documents[i]
     ELSE [of |-> _documents[CHOOSE k \in sameName : \A l \in sameName : l <= k].of, local |-> TRUE]
load ==
  /\ MayCall /\ ~_all_local /\ _documents # <<>> /\ Called
  /\ LET documents == [i \in DOMAIN _documents |-> Loaded(i)] IN
       /\ _documents' = documents /\ _job_specs' = BatchJobSpec(documents)
       /\ _all_local' = TRUE /\ asked' = <<>>
  /\ UNCHANGED <<_vdb_bulk_upload, runVars>>

\* ensure_job_specs
AskExtract(document_type) ==
  /\ MayCall /\ _job_specs.made /\ Called
  /\ _job_specs' = extract(_job_specs, document_type)
  /\ UNCHANGED <<_documents, _all_local, _vdb_bulk_upload, asked, runVars>>
embed ==
  /\ MayCall /\ _job_specs.made /\ Called
  /\ _job_specs' = add_task(_job_specs, [type |-> "embed"], "any") /\ asked' = Append(asked, "embed")
  /\ UNCHANGED <<_documents, _all_local, _vdb_bulk_upload, runVars>>
vdb_upload ==
  /\ MayCall /\ ~_vdb_bulk_upload /\ Called /\ _vdb_bulk_upload' = TRUE
  /\ UNCHANGED <<_documents, _job_specs, _all_local, asked, runVars>>

-----------------------------------------------------------------------------
(* ingest.                                                                    *)

\* The default tasks are for a batch none of whose types has a task.
Prepared == IF \E k \in BatchJobs : BatchSpecs[k].tasks # <<>> THEN _job_specs ELSE all_tasks(_job_specs)

ingest ==
  /\ MayCall /\ _job_specs.made /\ calls' = calls + 1 /\ phase' = "submit"
  /\ _job_specs' = Prepared
  /\ asked' = IF Prepared = _job_specs THEN asked ELSE DefaultTasks
  /\ submission' = [k \in BatchJobs |-> "no"] /\ fetched' = [k \in BatchJobs |-> "asking"]
  /\ fetches' = [k \in BatchJobs |-> 0] /\ result' = {} /\ failure' = {} /\ uploaded' = {}
  /\ UNCHANGED <<_documents, _all_local, _vdb_bulk_upload>>

\* _submit_job drops the payload of what it has sent: a job that is sent again is empty.
Submit(k) ==
  /\ phase = "submit" /\ submission[k] = "no" /\ \A l \in 1..(k - 1) : submission[l] # "no"
  /\ \/ /\ submission' = [submission EXCEPT ![k] = IF BatchSpecs[k].payload THEN "sent" ELSE "empty"]
        /\ _job_specs' = [_job_specs EXCEPT !.specs[k].payload = FALSE]
     \/ submission' = [submission EXCEPT ![k] = "error"] /\ UNCHANGED _job_specs
  /\ UNCHANGED <<_documents, _all_local, _vdb_bulk_upload, phase, fetched, fetches, result, failure,
                 uploaded, asked, calls>>

\* submit_job goes through all jobs and then raises the first error; what was
\* sent stays in the service, where nobody asks for it.
EndSubmission ==
  /\ phase = "submit" /\ \A k \in BatchJobs : submission[k] # "no"
  /\ phase' = IF \E k \in BatchJobs : submission[k] = "error" THEN "raised" ELSE "fetch"
  /\ UNCHANGED <<_documents, _job_specs, _all_local, _vdb_bulk_upload, runVars, asked, calls>>

\* fetch_with_retries, in a thread for each job.
FetchEnds(k, outcome) == fetched' = [fetched EXCEPT ![k] = outcome] /\ UNCHANGED fetches
FetchAgain(k) ==
  /\ fetches' = [fetches EXCEPT ![k] = @ + 1]
  /\ fetched' = [fetched EXCEPT ![k] = IF fetches[k] + 1 < max_fetches THEN "asking" ELSE "none"]
Fetch(k) ==
  /\ phase = "fetch" /\ fetched[k] = "asking"
  /\ \/ FetchAgain(k)
     \/ submission[k] = "sent" /\ \E o \in {"success", "failed", "none"} : FetchEnds(k, o)
  /\ UNCHANGED <<_documents, _job_specs, _all_local, _vdb_bulk_upload, phase, submission, result,
                 failure, uploaded, asked, calls>>

\* The loop over as_completed: handle_future_result raises for a job that failed
\* and for one without a result.
CollectJob(k) ==
  /\ phase = "fetch" /\ fetched[k] # "asking" /\ k \notin result \cup failure
  /\ IF fetched[k] = "success" THEN result' = result \cup {k} /\ UNCHANGED failure
     ELSE failure' = failure \cup {k} /\ UNCHANGED result
  /\ UNCHANGED <<_documents, _job_specs, _all_local, _vdb_bulk_upload, phase, submission, fetched, fetches,
                 uploaded, asked, calls>>

\* The upload asked for is forgotten when it is done, and not when it raises.
ReturnResults ==
  /\ phase = "fetch" /\ result \cup failure = BatchJobs
  /\ uploaded' = IF _vdb_bulk_upload THEN result ELSE {}
  /\ \/ phase' = "returned" /\ _vdb_bulk_upload' = FALSE
     \/ phase' = "raised" /\ _vdb_bulk_upload /\ UNCHANGED _vdb_bulk_upload
  /\ UNCHANGED <<_documents, _job_specs, _all_local, submission, fetched, fetches, result, failure, asked, calls>>

IngestorNext ==
  \/ \E d \in CallersDocuments : files(d)
  \/ load \/ embed \/ vdb_upload \/ ingest \/ EndSubmission \/ ReturnResults
  \/ \E t \in DocumentTypes \cup {"any"} : AskExtract(t)
  \/ _job_specs.made /\ \E k \in BatchJobs : Submit(k) \/ Fetch(k) \/ CollectJob(k)

IngestorSpec == IngestorInit /\ [][IngestorNext]_ingestorVars

-----------------------------------------------------------------------------
\* The types of a spec's tasks but for those an extraction brings.
Common(s) ==
  FlattenSeq([i \in 1..Len(s.tasks) |->
    IF s.tasks[i].type \in {"extract", "table_data_extract", "chart_data_extract"} THEN <<>>
    ELSE <<s.tasks[i].type>>])

\* What ingest sends and returns is about the documents and tasks of the specs as
\* they stand: every job carries the tasks that were asked for since the specs
\* were built, in their order, and jobs of one type the same tasks; every job is
\* answered once, as a result exactly if its document was sent by this very call
\* and a success of it was fetched, and an upload gets all results and no others.
EveryJobAnswered ==
  phase \in {"submit", "fetch", "returned"} =>
    /\ \A k \in BatchJobs : Common(BatchSpecs[k]) = asked
    /\ \A k, l \in BatchJobs : BatchSpecs[k].of.document_type = BatchSpecs[l].of.document_type => BatchSpecs[k].tasks = BatchSpecs[l].tasks
    /\ result \cap failure = {}
    /\ \A k \in result : submission[k] = "sent" /\ fetched[k] = "success"
    /\ phase = "returned" => /\ result \cup failure = BatchJobs
                             /\ uploaded # {} => uploaded = result
                             /\ \A k \in failure : fetched[k] # "success"

\* "Job specifications are not initialized because some files are remote or not
\* accesible locally. Ensure file paths are correct, and call `.load()` first if
\* files are remote.": ingest does not start while a document is left behind.
NoneLeftBehind ==
  phase = "submit" => \A i \in DOMAIN _documents :
    _documents[i].of.known => \E k \in BatchJobs : BatchSpecs[k].of = _documents[i].of
=============================================================================
