# nv-ingest: specifications, model checking and proofs

nv-ingest splits documents into work packages ("jobs"), runs each job through a
pipeline of extraction and transformation stages, and hands the result back to the
client that asked for it. This directory holds TLA+ modules translated from its
source, TLC configurations that check them on small instances, and TLAPS proofs of
what holds for every value of their constants. Paths below are relative to the
repository (`src/`).

Contents: [the system](#the-system), [the modules](#the-modules), [the message
broker](#the-message-broker), [the pipeline stage](#the-pipeline-stage), [the
client](#the-client), [the way of a job](#the-way-of-a-job), [the way of a
result](#the-way-of-a-result), [extraction and inference](#extraction-and-inference),
[vector databases](#vector-databases), [the pipeline's processes](#the-pipelines-processes),
[the runs](#the-runs), [what is proved](#what-is-proved), [disagreements
found](#disagreements-found), [not modelled and limits](#not-modelled-and-limits).

## The system

A job's way through the system:

    Ingestor / CLI ── NvIngestClient ── RestClient ──HTTP── REST service ── RedisClient ── Redis
                             │                                                              │
                             └── SimpleClient ──TCP── SimpleMessageBroker                   │
                                                            │                               │
       result channel  ◄── sink ◄── ... stages ... ◄── injector ◄── source ◄────────────────┘

The client turns a document into a JobSpec, submits it to the task queue
(`morpheus_task_queue`), and polls for the response under the job's id. The broker
is Redis (reached by the REST service or directly) or, in the single-process
deployment, the SimpleMessageBroker. The pipeline's source fetches jobs and makes
`IngestControlMessage`s; the stages each take the tasks meant for them, and ask NIMs
(models behind gRPC or HTTP) about images and texts; the sink cuts the result into
fragments and pushes them to the job's response channel.

### Components

| Component | State | Operations | Correct when |
|---|---|---|---|
| SimpleMessageBroker and SimpleClient (`util/message_brokers/simple_message_broker`) | per queue: heap of (index, message), `in_flight`, `next_index`; per connection: a handler thread | PUSH, POP, SIZE, PING; client `submit_message`, `fetch_message` | no message is lost or doubled inside; each reaches one caller, oldest first; answers are true; a stalled client holds nothing up |
| Multiprocessing stage (`stages/multiprocessing_stage.py`) and failure wrappers | ledger, pass-through queue, per engine two queues of one place and two threads | `on_next`, `on_error`, `on_completed`, the handler threads, `reconstruct_fn`, `merge_fn`, `join` | what comes in goes out once with its own verdict; it finishes when the upstream does |
| Worker pool (`util/multi_processing/mp_pool_singleton.py`) | task queue, worker processes, one pipe per task | `submit_task`, `SimpleFuture.result`, `_worker` | each waiter gets the outcome of its own task, or an error |
| NvIngestClient (`client/client.py`, `primitives/jobs/job_state.py`) | `_job_states`, the job index, executor of workers | `add_job`, `submit_job(_async)`, `fetch_job_result(_async/_cli)` | each result is given for its own job; timeouts are retried, failures reported once |
| CLI loop (`cli/util/processing.py`) | retry list, counters, per-batch maps | `generate_job_batch_for_iteration`, `create_and_process_jobs` | every file is accounted for once, under its name; jobs under way are bounded |
| Ingestor (`client/interface.py`) | documents, job specs, job states, combined future | the chain of calls, `ingest`, `ingest_async` | what was asked for is sent; the combined future completes when all jobs are terminal |
| REST client (`message_clients/rest/rest_client.py`) | none across calls | `submit_message`, `fetch_message`, backoff | terminal answers are not retried, transient ones are, a bounded number of times |
| REST service (`api/v1/ingest.py`, `redis_ingest_service.py`) | processing cache in Redis, shared by worker processes | `submit_job`, `fetch_job`, `convert_pdf`, `get_status` | no result vanishes between Redis and caller; a status is complete |
| RedisClient (`message_brokers/redis/redis_client.py`) | connection, retry count | `submit_message`, `fetch_message` (fragments) | a response is put together from all its fragments, once |
| Source, sink (`modules/sources`, `modules/sinks`) | fetch loop; none | `fetch_and_process_messages`, `process_message`; `split_large_dict`, `push_to_broker`, `handle_failure` | each job becomes one control message; one complete response per job, also for failed ones |
| Tasks and stages of the pipeline (`nv_ingest_api/primitives`, `stages/*`, `util/pipeline`) | tasks and rows of a message | routing, extraction, filters, splitting, captioning, embedding, storing | every task is run by its stage, on the rows it is meant for |
| Extraction (`extraction_workflows/pdf`, `docx`, `pptx`, `image`) | rows, pending batches, futures | loops over pages, slides, paragraphs | every text, picture and table is in one row, in its place |
| NIM clients (`util/nim`) | version cache shared by processes | `infer`, `get_version`, readers of answers | answers stay with their inputs; calls end; a cached version does not stay wrong |
| Vector databases (`client/util/milvus.py`) | collections, files | create, insert, bulk upload | each row is stored once, in the collections of its kind |
| Counters (`job_counter.py`, `global_stats.py`) | `GlobalStats` | `increment_stat` | submitted = completed + failed + under way |
| Pipeline runner (`util/pipeline/pipeline_runners.py`) | subprocesses, exit and signal handlers | `start_pipeline_subprocess`, `_terminate_subprocess` | no pipeline outlives its program |

Schemas, converters, file reading, reports, telemetry exports, deployment, examples and
offline tools have no behaviour of their own to model. `PROJECT.json` lists every part
with its files, its status and what of it is left out.

The hard behaviours are: overlapping broker handlers whose critical sections are
separated by a network round trip; ACK timeouts racing late ACKs, lost final
responses and retries; engines of a stage sharing a ledger and a pool of processes
that may be killed; chains of bounded queues that block on each other; job futures
that end, time out and are retried while others go on; a result channel whose reads
destroy what they read, in fragments; a status cache read and written by several
processes; batches of requests whose answers come back in any order; loops that hand
work to threads and go on; and signals that arrive during a launch or an exit. Each is
listed at its line under `hazards` in `PROJECT.json`.

## The modules

| Module | Models | Run |
|---|---|---|
| `SimpleBroker`, abstract `LeaseQueue` | broker, its handler threads, SimpleClient | `broker_push_retry`, `broker_pop_retry` |
| `MPStage`, abstract `StageContract` | a stage and the worker pool | `stage_safety`, `stage_live` |
| `JobClient`, extended by `CliLoop` and `IngestAsync` | NvIngestClient under its two concurrent callers | `cli_loop`, `async`, `async_last_fails` |
| `IngestorCalls` | the chain of calls and the synchronous `ingest` | `pipeline`, `ingestor_behind` |
| `JobSubmission` | a job from `submit_message` to its control message | `pipeline` |
| `JobPipeline` | a control message through all stages | `pipeline` |
| `MilvusUpload` | the client's way into a vector database | `pipeline`, `milvus_bulk` |
| `PipelineRunner` | pipelines as subprocesses | `pipeline` |
| `ResponseChannel` | a result from the sink to the client | `service` |
| `ConvertStatus` | `/convert` and `/status` | `service` |
| `NimInference`, `NimMetadata`, `BoxFusion`, `TableLayout` | calls of models and the reading of answers | `extraction` |
| `PdfExtraction`, `PageCrops`, `OfficeExtraction` | documents into rows | `extraction` |

The modules meet at interfaces that one of them promises and another assumes. `JobClient`
takes from the service what `JobSubmission` and `ResponseChannel` show of it: a job is
taken in, refused, or the attempt raises, and a result is given out once or lost with a
broken request. `JobPipeline` takes each stage as a step on one message, which is what
`StageContract` says of it and `MPStage` is shown to implement. The tables, pictures and
embeddings its stages ask for come back in place because of `NimInference`, and the rows
an extractor adds are those of `PdfExtraction` and `OfficeExtraction`. `JobSubmission`
over the "simple" route takes the broker as the queue `LeaseQueue` describes. A whole
system in one state space is beyond TLC; a message's life is followed piece by piece.

Three of the MC modules, `MCService`, `MCPipeline` and `MCExtraction`, hold several
machines that have no variable in common. A behaviour there belongs to one machine,
chosen by the initial state, while the others rest in a state in which they have nothing
to do. This costs nothing in state space (the states add up, they do not multiply) and
says nothing about interleavings of two machines, of which there are none in the code
that matter: what they share is in one module each.

In all modules parameters are CONSTANTS with a named assumption, an action is one
operation or one step between two points at which another thread, process or message can
come in, and definitions have the names of the source.

## The message broker

`SimpleBroker.tla` models one queue of `SimpleMessageBroker` with the `SimpleClient`
calls that use it; `LeaseQueue.tla` says what such a queue promises.

**State.** `queue`, `in_flight` and `next_index` are the fields of
`OrderedMessageQueue`, the heap being a set of entries with their index. `handler`,
`offers`, `reply` and `final` are the positions of the broker's handler threads (one
per connection, `ThreadingMixIn`) and the responses they have sent; `link` and
`acked` are what a connection has come to and carried; `call`, `attempt` and `result`
are the clients' loops. A connection is `<<call, attempt>>`: every attempt opens its
own, the broker draws one transaction id (and, for PUSH_FOR_NV_INGEST, one job id) per
connection, so all three are the same value here. A message is named by the
transaction that stored it.

**Actions.** The queue's operations (`push`, `pop`, `acknowledge`, `return_message`,
`full`, `empty`) are those of `ordered_message_queue.py`. The handler of a push takes
`HandlePush` (the test for room in a critical section, the initial response), that of a
fetch `HandlePop` (test and pop in one critical section) and `SendMessage` (the initial
response, with the message); then comes `FinishPush` or `FinishPop` (the outcome of
`_wait_for_ack`, the second critical section, the final response). `SendMessage` is a step
of its own because it may block for ever: `sendall` goes to a socket whose timeout is set
only for the ACK (`broker.py:318`, `:353`), and a message does not fit into its buffers if
the client does not read. The other responses are a few dozen bytes. The wait for the ACK
touches nothing but the connection, so it is one step with what follows; its outcome
is a choice: with the ACK sent it may still return False, because the ACK is late.
`WaitRaises` is an OSError `_wait_for_ack` does not catch, `DropRequest` a request
that never arrives. A client call takes `Connect`, then `Rejected` (queue full or
empty: sleep, loop), `SendAck` and `ReadFinal`, or `Retry` when the connection breaks
or its own socket timeout strikes, at any point; `TimeOut` is the deadline, looked at
only at the top of the loop. `_handle_push` and `_handle_pop` take the same steps and
are one set of actions; `offer` stands for a response with a transaction id.

A rejected attempt leaves nothing behind in the broker, so its connection is used
again: retries on a full or empty queue are unbounded. Connections that fail count
against `Attempts`, the only bound of the model.

**Abstraction.** `LeaseQueue` has four steps: `Store`, `Lease` (oldest first),
`Settle`, `Release` (back to the old place). The refinement mapping takes `queue` to
`waiting`, `in_flight` to `leases`, and to `settled` the offers whose final response
says they were acknowledged. That the oldest message goes first, also after returns,
is part of this refinement.

**Properties.** `ExactlyOnePlace` (inside the broker nothing is lost or doubled),
`PushAnswerIsTrue` (what a push is told; nothing is stored without the handshake; and it
stores two only after a connection it had acknowledged failed), `DeliveredOnce`,
`LostOnlyWithItsConnection` (the connection fails after the ACK: the one way to lose a
message; a refused fetch leaves its message for others), `LeaseEnds`, and
`CallsWaitOnlyForQueue` (progress of the calls).

**Fairness.** `Spec` has weak fairness of the handlers' steps other than `SendMessage`
(`Serve`): the critical sections do not block and the wait for the ACK is bounded
(`timeout`, 100 s by default, `broker.py` and `request_schema.py`). Clients may stall for
ever or die. `LeaseEnds` says what is left of the leases then: one that is held for ever is
still being sent, to a client that does not read, or the wait for its ACK has raised.
`CallsWaitOnlyForQueue` has `ClientsRun` as a premise: a client's thread is scheduled, and
runs its loop until it returns, and what is sent to it is read or its connection breaks. A
loop is not assumed to find room; the property asks for room, or a message, for good.

## The pipeline stage

`MPStage.tla` models `MultiProcessingBaseStage` with `ProcessWorkerPoolSingleton`,
`filter_by_task` and the failure wrapper; `StageContract.tla` says what a stage
promises: each message enters once, leaves at most once, and a mark of failure is
never cleared.

**State.** Each progress engine has its receiver (`observable_fn`'s callbacks), input queue,
child thread (`work_package_input_handler`), response queue and handler thread
(`work_package_response_handler`); queues of one place are sets of at most one event. Shared
by the engines are the `ledger`, the pass-through queue, the edge to `reconstruct_fn`
(`passed_on`) and the pool: `task_queue` (2 places per worker), `running`, `alive`, and a
`pipe` per task. `came` is a history variable, the tasks and marks with which the messages
arrived. A message gets a fresh `cm_id` when it is received, once, so it stands for its id,
its work package and its pipe.

**Actions.** `Accept` and `Forward` are `on_next`: a message that carries the stage's
task and has not failed is entered in the ledger, with its task removed, and its
package sent on; any other goes to `put_in_queue`. `End` is `on_completed` or
`on_error`. `Send`, `submit_task`, `Respond` and `Close` are the blocking puts. `Result`
is `future.result()`, turned into an error package if it raises. `HandlerGet` hands
packages to the subscriber; `Reconstruct` (with `merge_fn`) takes the message out of the
ledger, marks it if its package failed, and emits it; `ReconstructRaises` is the
KeyError of a package without an entry (in particular the event made of an upstream
error, which has no `cm_id`), which ends the node. `PassThrough` is
`_pass_thru_source_fn`. `TakeTask`, `RunTask` and `Die` are the pool's processes: a
process killed in a task closes its pipe, which raises in `result()`, and is not
replaced. `join` sets the cancellation token. A loop's look at the token is one step
with the put before it, and the child may take one more event after the token is set.
`sub.is_subscribed()` turning false has the effect of the token.

**External.** The MRC runtime: an edge delivers what it is given, in any order, to any
engine. `process_fn` returns or raises. Traces and annotations are left out.
`on_next` is taken not to raise once the filter has matched (the payload is never None
and the task is there).

**Properties.** `TypeOK` (with the capacity of every queue: one place in each of an
engine's own, so at most four of its packages are on their way through the pool;
`BufferSize` places in the pass-through queue; 2 places per worker in the pool's task
queue), `LedgerIsUnderWay` (ledger and packages agree, so `reconstruct_fn` never misses),
`OwnVerdict` (a message that was due for the stage leaves only with the verdict of its own
task, although engines share the pool; any other leaves as it came), `AbstractSpec`,
`MessagesLeave` and `StageFinishes`.

**Fairness.** Weak, for each thread, node and worker: waits are polls or blocking
calls that return once they can, and `process_fn` is taken to return or raise. Nothing
is assumed of deaths, of `join`, or of which thread is served first.

## The client

`JobClient.tla` models `NvIngestClient` for two of its callers, which extend it:
`CliLoop.tla` (`create_and_process_jobs`) and `IngestAsync.tla` (`ingest_async`).
`IngestorCalls.tla` models the third, whose own threads do not overlap.

**State.** `job_states` and `job_specs` are the two dictionaries of the registry;
`state` and `job_id` are fields of a job's `JobState`. `work` and `thread`
are the queue and the threads of `_worker_pool`, `submit_future` and `fetch_future`
the futures of the two `_async` calls. `service` and `verdict` say what became of a job
outside. Jobs are numbered as `_generate_job_index` does.

**Actions.** `AddAndSubmit` is `add_job` and `submit_job_async`, which only the calling
thread can tell apart. A worker's `_submit_job` is `Send`, then `Mark` (the state) and
`Name` (the id, the end of the future): two assignments another thread may come
between. `SendRaises` is its `except` branch. `Fetch` is `_fetch_job_result`: refused by
the check of the state, answered (state set, job popped), or timed out. RestClient
turns every other outcome of a fetch (202, terminal codes, retries used up) into one
non-zero code, which `_fetch_job_result` makes a TimeoutError. A result that cannot be
decoded ends like one that tells of a failure.

**External.** The service takes a job in or refuses it, and gives its result out once.
A submission may raise: RestClient catches its own errors, but `json.dumps` of the job
and other message clients do raise. Any answer to a fetch may get lost, with the result or
without; the first is `Lost`. A refused job has the id "", which the service does not
know. Trace ids are left out.

**`CliLoop`.** `GenerateBatch`/`GenerateRaises` are `generate_job_batch_for_iteration` with
the update of the maps, for either value of `fail_on_error`; `Check`, `CheckAgain`, `Await`
and `AwaitRaises` are `_ensure_submitted`, which reads a job's state twice; `Launch` starts
the fetches; the three `Handle` actions are the bodies of the loop over `as_completed`, in
any order of the futures. Files are numbers, and those that cannot be read are not in
`Jobs`. `FilesAccounted` ties the progress bar, the results, the failures and the retries to
the files taken, and says that results are put down under different names (after an
unreadable file those of its batch are wrong, but still apart). `RetriesAreLive` is about
what the pool holds: a retry can be fetched again, and the batch is not exceeded.

**`IngestAsync`.** `Start`, `AddDoneCallback` and `Return` are `ingest_async`. Each
`_done_callback` has a position of its own (`callback`), because callbacks of several
workers, and of the main thread when a future is done before the callback is added,
interleave between any two of their statements: `CallbackFetch` (again and again while
it times out), `Finish` (the state), `Note`, `Extend`, `Compare`, `SetResult`. An
exception in a callback ends it, and the future logs it. `CompletesOnlyAtEnd` and
`Collected` are what holds whatever fails; `CombinedCompletes` excepts failures.

**`IngestorCalls`.** Any order of `files`, `load`, task calls, `vdb_upload` and `ingest`
on documents that are local, remote, or of a type nobody knows, and `ingest` again after
it returned or raised. `EveryJobAnswered` says that what is sent and returned is about
the documents and tasks as they stand, although specs are built, dropped and rebuilt
by some of the calls and kept by others.

**Fairness.** Weak, for the loop, each thread and callback, and the service for each
job it has taken in. `LoopEnds` and `CombinedCompletes` except the behaviours in which
the service refuses a job or a result is lost (and, for the second, a submission
raises): the code then asks for the result for ever, and counts retries without looking
at the count.

## The way of a job

`JobSubmission.tla`: the attempts of `RestClient.submit_message` (or one of SimpleClient),
the service's `submit_job` with validation and a push that RedisClient may repeat, the
task queue, and the engines of the source with `process_message`. A broken connection
leaves the handler at work, and the next attempt has another trace id, so a call may put
two jobs in the queue, which `MadeOnce` says is the only way to get two messages (but for
a repeated push). `SubmittedIsHandled` is the other half: a submitter with an id has a
message, a failed one at least. Kinds of jobs are those the code tells apart: valid,
refused by the schema, with lists of different lengths, without tracing options.

`JobPipeline.tla`: one message through the nodes in the order of the edges. A stage takes
the tasks its filter matches (type, and for extractions the document type), and each of its
`process_fn`s is translated by what it does to the rows: extraction, deduplication and
filtering (which drop rows and keep the old index), tables, charts and infographics,
splitting by tokens, captions, embeddings in concurrent batches, storing, and the two
counters. A text is a number of tokens of which some are only space: the splitter makes no
row of a chunk in which nothing else is. Any `process_fn` may raise, and then the later
stages let the message pass. The first part of a document is the document itself, as it was
submitted, with the content type of its document type; the others are what an extractor
finds in it, and their content is any. `RowsKept` and `TasksDone` are about all of these
together, whatever the combination and the order of the tasks. The instance has every choice
of tasks that the client's interface builds after an extraction, over documents with
duplicates, small images, tables before and after texts, and none, and a set of jobs in
unusual orders.

What the code does here is not always what one expects, and the two properties say it as it
is. A stage runs if any task of its type fits, with the properties of the first of that
type, so of several deduplications or filters only the first one's `filter` flag counts
(`Applied`). A text is cut into chunks of the size its task asks for, which leave out
nothing but space; but the splitter takes the labels of rows for positions, so that a text
whose label is beyond the rows that are left stays whole (`KeptItsPlace`). A copy that is
only marked is an `info_msg` from then on: the filter does not drop it, but it is captioned
(`caption_extract_stage` looks at the metadata). The audio stage takes the content of every
row, whatever its type, so tables are not read after it. An `extract` task takes the
document type of the task and the extractor that of the document, so an SVG is read if the
task says `png`, and a task that says `svg` is taken by nobody. A job that asks for its
images to be stored never succeeds.

Fairness: everyone goes on when he can; nothing is assumed of failures, which
`MaxTroubles` bounds.

## The way of a result

`ResponseChannel.tla`: the sink makes a payload, `split_large_dict` cuts it by the size
of its rows, `push_to_broker` pushes the fragments and begins anew with the first when a
push fails (a failed command may have been carried out); a failed message, or a payload
that is too large, becomes a failure message. `GET /fetch_job` pops fragment after
fragment, and gives up when one does not come in time; RestClient asks again, and a
request whose client has gone goes on in its process, taking fragments with it.
`GivenIsTrue` is that what the client is given is the whole result or a failure that
happened; `ClientIsAnswered` that it is given one if nothing fails. The rows of the
instance are those that make the arithmetic interesting: none, one, exactly two
fragments, a first row above the limit (which leaves an empty fragment before it), and
one that cannot be pushed at all.

`ConvertStatus.tla`: `/convert` submits all files under one id and then caches what it has
submitted; `/status` reads the cache, fetches what is missing, writes the cache, and
answers. Two handlers in different processes overlap, the entry expires, a command fails,
and a push that raised but had been carried out is repeated (`PushAgain`), so that a file
is in the pipeline twice. `CompletedIsFullOrEmpty` says that "completed" comes with no result
at all or with one of another push for every job, which are those of all files unless a
push was repeated, and that results are lost only by overlap, failure or expiry;
`ConversionCompletes` needs a client that goes on asking.

## Extraction and inference

`NimInference.tla` is one call of `NimClient.infer`: for each model interface (page
elements, OCR, captions, embeddings, DePlot, cached, nemoretriever-parse) and protocol, the
batches it makes of the inputs (within the limits of the caller and of the server, which the
caller may override) and of the shapes of their images, the pool's threads, the HTTP retries
with their classes of answers, the reading of an answer that may be short or have nothing in
it, and the results put together in order. `NimMetadata.tla` is the version and model name
that processes cache for each other, an empty answer of an endpoint that is down included.
`BoxFusion.tla` is what becomes of overlapping charts and titles of a page;
`TableLayout.tla` how the texts of a table's image get into its content; where a text is
(its cell, rows, columns and line) is given, and the order within a line is left out.

`PdfExtraction.tla` is the loop of pdfium and of nemoretriever-parse: pages, batches of
page images given to a pool of threads while the loop goes on, and the rows made of what
they return, for each text depth and choice of what to extract. `PageCrops.tla` is the
grouping of boxes and the crops of a page. `OfficeExtraction.tla` is the reading order of
slides and documents, their texts at every depth, pictures, and the tables and charts
found in them. `Selections.tla` has what two of these need of lists: a comprehension with
a condition (`Select`) and the numbers of a set in order (`InOrder`).

Here the data is most of the program, and is abstracted to identities: an input, a page
element, a run or a picture is named by where it comes from, so "nothing is lost, doubled or
in the wrong place" can be said (`AnswersInPlace`, `BoxesAccounted`, `TextsShown`,
`PagesAreRead`, `TextsReadOnce`, `PicturesKeptOnce`). Only `PageCrops` computes with
coordinates, on small whole numbers (`NoPictureTorn`). The properties say what is lost as
well: a form around one that is too small to be cut, the texts of a Word document at the
depths "line" and "span", and the pictures in its tables and links. Fairness: threads are
not starved, and requests over HTTP time out at the latest. What is asked over gRPC, an
inference (`helpers.py:322`) or the limit of the server (`:178`), has no timeout, and no
fairness is assumed of it: `InferEnds` says that a call ends or waits for such an answer for
ever. In `NimMetadata` each stage goes on and each cached function is looked up again and
again, for which strong fairness is needed because another worker's lookup may come first
(`VersionSettles`).

## Vector databases

`MilvusUpload.tla` is `MilvusOperator.run` of the client: several collections with their
kinds of content, by stream or by files (`CollectionsHoldTheirKinds`). The sink of the
pipeline that writes to a database (`vdb_task_sink.py`) is not modelled: the pipeline is
built without it (`pipeline_builders.py:66`, `:100`).

## The pipeline's processes

`PipelineRunner.tla` is `start_pipeline_subprocess` in one program, several times: the
fork and the registration of the handlers one step after the other, signals that arrive
between any two, during another handler and during the exit, `atexit` callbacks in
reverse order, a pipeline that ignores SIGTERM, and the death of the program without
notice. `NoneOutlives` says which pipelines are then dead and which were at least told.

## The runs

| Run | Instance | Properties |
|---|---|---|
| `broker_push_retry` | 2 pushes (one with 2 attempts), 1 fetch, no deadline, `MaxSize` 1 | `ExactlyOnePlace`, `PushAnswerIsTrue`, `LeaseEnds`, `CallsWaitOnlyForQueue`: two handlers overlap on the last place |
| `broker_pop_retry` | 2 pushes, 2 fetches with a deadline (one with 2 attempts), `MaxSize` 2 | `DeliveredOnce`, `LostOnlyWithItsConnection`, `AbstractSpec`: two messages are needed to be out of order, two fetches to take each other's |
| `stage_safety` | 3 messages of every kind, 2 engines, 1 worker that may die, `join` at any point | `TypeOK`, `LedgerIsUnderWay`, `OwnVerdict`, `AbstractSpec` |
| `stage_live` | 2 messages, 2 engines (one whose upstream may end in an error), 2 workers (one of which may die) | `MessagesLeave`, `StageFinishes` |
| `cli_loop` | 4 files of which the second makes no job, batches of 2, 2 threads, both values of `fail_on_error`, any outcome, lost answers | `FilesAccounted`, `RetriesAreLive`, `LoopEnds`: a retry shares a batch with a new job, a later batch follows |
| `async` | 3 jobs, 2 threads, any outcome, lost answers, an upload | `CompletesOnlyAtEnd`, `Collected`, `CombinedCompletes`: two callbacks in workers overlap with one in the main thread |
| `service` | a result of up to 3 fragments, 2 requests at once, 2 faults, the sink with 0 or 2 retries; a conversion of 2 files, 2 status requests at once, expiry, 1 failing command or repeated push | `GivenIsTrue`, `CompletedIsFullOrEmpty`, `ClientIsAnswered`, `ConversionCompletes` |
| `pipeline` | 3 attempts, 2 source engines, 3 troubles; 598 jobs, with texts of which a chunk or all is space; uploads of 4 records to 1 or 2 collections, files of 2 or 5; 4 calls on 5 documents, 2 fetches per job; 2 launches, 3 signals | `MadeOnce`, `SubmittedIsHandled`, `RowsKept`, `TasksDone`, `CollectionsHoldTheirKinds`, `EveryJobAnswered`, `NoneOutlives` |
| `extraction` | calls of 0 to 5 inputs, limits 2 and 4, 2 threads, 2 attempts; 2 workers with a version cache; pages of 3 or 4 charts and 2 titles in every overlap; tables of 3 texts; PDFs of 0 to 5 pages in batches of 2; slides and documents of every item in threes, at every depth, pictures in a table and in links; pages of up to 3 boxes, also in a corner made by two others | `AnswersInPlace`, `BoxesAccounted`, `TextsShown`, `PagesAreRead`, `NoPictureTorn`, `TextsReadOnce`, `PicturesKeptOnce`, `InferEnds`, `VersionSettles` |
| `async_last_fails`, `ingestor_behind`, `milvus_bulk` | 1 job; as `pipeline` | the disagreements below |

Deadlock is not checked: calls, messages and documents are finitely many, so a behaviour
may end. The bounds are enough for the cases in question because an interaction is
between two parties and one resource: two handlers and a place, two transactions and a
message, two engines and a worker, two requests and a list of fragments, two pollers and
a cache entry, a loop and a batch that is cut short, three boxes of which the middle one
joins the others. Every bound is a CONSTANT of the `.cfg`. Symmetry is used only where no
liveness is checked, over messages and engines, which `MPStage` never names.

Each property has a mutant in `PROJECT.json`: a plausible bug in one definition, under
which the run fails. They stand in the modules, before the definition they change, under
a comment that begins with "Mutant".

## What is proved

Proved with TLAPS, for every value of the constants (any sets of calls, messages, jobs,
engines and workers, finite or not unless an assumption says so; any queue size and number
of attempts), from the ASSUME of the module alone. All safety properties that the runs
check of the broker, the stage, the client's two concurrent callers, the source, the
pipeline's processes, the result channel, the status requests, the
inference client, the chain of calls, the upload to the vector database, the loops over
the pages of a PDF and the reading of texts from slides and documents are proved.

**Broker.**
- `LeaseQueueProofs!OnePlaceAlways`: in the abstract queue every message is in one
  place. The strengthening is `Fresh`: all indices in use are below the count.
- `SimpleBrokerProofs!TypeCorrect`. `TypeOK` is not inductive: `Rejected` gives an
  attempt back, and stays in `Nat` only because a waiting call has made one, which is
  `CallControl`.
- `SimpleBrokerProofs!ImplementsLeaseQueue`: every step is a `Store`, `Lease`,
  `Settle`, `Release` or a stutter of `LeaseQueue`. The inductive invariant `IInv` adds
  `HandlerControl` (which responses a handler has sent, by its position) and
  `LeaseControl` (a transaction is offered one message, and `in_flight` is just what
  the sending and waiting handlers, and those that raised, were given). Without the second,
  `acknowledge` and `return_message` might end several leases in one step, or none.
- `SimpleBrokerProofs!NothingLostOrDoubled`: `ExactlyOnePlace`, from the refinement and
  the abstract theorem, as instances of `LeaseQueueProofs`.
- `SimpleBrokerProofs!PushesAreToldTheTruth`, `MessagesAreDeliveredOnce` and
  `NothingElseIsLost`: `PushAnswerIsTrue`, `DeliveredOnce`, `LostOnlyWithItsConnection`.
  They speak of what a caller is told, so the strengthening relates the two ends of a
  connection: `Truth` (what a final response says is so in the queue) and `Calling` (a
  call's earlier connections have failed, its later ones carried nothing, and its position
  says what the current one has carried).

**Stage.**
- `MPStageProofs!TypeCorrect`: types, and that no queue holds more than it may
  (`QueueBounds`, `SharedBounds`). The two shared queues are sets of any messages, so the
  bound is on a cardinality, and a put or a get changes it by one (`OneMore`, `OneLess`).
- `MPStageProofs!ImplementsContract`: with the invariant `Apart`, that a message is in
  only one of the upstream, the ledger, an engine's hands and the pass-through queue.
- `MPStageProofs!LedgerIsRight` and `VerdictsAreOwn`: `LedgerIsUnderWay` and `OwnVerdict`.
  The strengthening `Inv` adds where packages are (`Ledger`: in one place of one engine, and
  then in the ledger; `Hands`: as the threads' positions say), that a task in the pool has
  one child thread waiting for it and no outcome yet (`Tasks`), what a package is at each
  place by what is on its pipe (`Outcomes`), and what a message is before it gets to the
  pool or goes by it (`Before`), compared with what it came as. `Tasks` is why engines that
  share a pool cannot mix up outcomes: an outcome becomes known while its package is in just
  one hand.

**Client.**
- `IngestAsyncProofs!TypeCorrect`, and `IngestAsyncProofs!DoneAtEnd`, which is
  `CompletesOnlyAtEnd`. The strengthening `Order` says that a callback which got past the
  state of its job left it in a terminal state, that only such callbacks are noted in
  `completed_futures`, and that the combined future, and whoever is about to set it, has
  seen all of them noted. The lemmas about the client's own steps, those of `JobClient`,
  stand at the start of this module and of `CliLoopProofs`.
- `IngestAsyncProofs!ResultsAreCollected`: `Collected`. It needs that a job is submitted
  by one task (`OneTask`), how far its submission is by where that task is (`Submission`),
  what the callback has found by its position (`Outcomes`), and that what it files is filed
  once (`KeptOnce`).

- `CliLoopProofs!FilesAreAccounted`: `FilesAccounted`. It needs that the lists of the
  loop hold no job twice and share none (`Lists`), that only files already taken have
  names, each its own (`Named`), and `Accounts`, the property's own counts. What a batch
  adds to them is a fact about `JobsAfter`, the recursion over its files, proved by
  induction on their number.
- `CliLoopProofs!RetriesAreAlwaysLive`: `RetriesAreLive`. The strengthening `Pool` says
  that a job has one submission and one fetch at most, queued or in a thread (`OneTask`),
  and what its state and its futures are while it is submitted, waited for and fetched
  (`Submissions`, `Ensuring`, `Fetching`). A timeout is the end of the fetch: this is why
  a retry has no rival.

**Source, stages and runner** (`PipelineProofs`).
- `OneMessage`: `MadeOnce`, for any number of attempts and engines. The strengthening
  says that attempts are posted in turn, a later one only after a broken connection
  (`InTurn`), that only pushed jobs are on their way (`OnlyPushed`), that a job pushed
  once is in one place of the queue, with one engine or made into one message
  (`OnePlace`), and what a message is marked with (`Marked`).
- `NoPipelineOutlives`: `NoneOutlives`, for any number of launches and signals. The
  strengthening is about the stack of calls that signals pile up: a launch is only at its
  bottom, all above it is about the pipeline the handlers know, and a handler that comes
  to `sys.exit` has ended that pipeline (`Stacked`); the launch under way is the only
  pipeline without handlers (`Launching`); and while the program exits each pipeline is
  still registered, being terminated, or dead (`Exiting`).
- `RowsAreKept` and `TasksAreDone`: `RowsKept` and `TasksDone`, for any document and any
  tasks in any order. The strengthening `PipelineInv` says, for a message that has not
  failed before node `n`, which parts are gone by then (`Gone`) and which are marked or
  split (`MarkedCopy`, `Split`); that every other part has one row or chunks that leave out
  nothing but space (`Covered`); what kind each row is by the stages' own choice
  (`KindRight`), and which enrichments it must have and may only have of its own part
  (`EnrichmentsRight`); that the rows are in the order of the document up to the
  deduplication (`Ordered`), which is why the first of two copies is the one that stays; and
  that the tasks of a type a later stage takes are still the job's, with the same first one
  (`SameTasks`). Each stage has a lemma about its outcomes and one for its step; `StageStep`
  is what all have in common. Underneath are the lemmas about `InOrder` and `AtPositions` (a
  set of positions is listed once each, in order), about the concatenation of split rows,
  about the batches of embeddings, which return each answer to its row (`_async_runner`),
  and about the windows of `_split_into_chunks`, which overlap or meet since `chunk_overlap
  < chunk_size`.

**REST service, result channel, inference, upload and chain of calls**
(`ServiceProofs`).
- `CompletedIsTrue`: `CompletedIsFullOrEmpty`, for any number of files, repeated pushes and
  pollers. The strengthening: the result of a push is not yet made, under way, in the Redis
  list, or in lists of jobs, and none is twice in one list (`Separate`); as long as nothing
  upsets the conversion one handler runs at a time and holds at least what the cache has
  (`Alone`), and every push is somewhere (`Kept`). That an answer "completed" has every
  file's result if no push was repeated is a counting argument: a list with as many
  successes as files and no result twice has them all.
- `WhatIsGivenIsTrue`: `GivenIsTrue`, for any rows, limits, retries and failures. The
  strengthening: what the sink has still to push are the last fragments (`Pushing`); a
  fragment that was pushed once is on the channel or with one handler (`OnChannel`,
  `Held`); so a handler that has as many fragments as there are has them all, and sorting
  puts them in order (`Given`). The lemmas say what `split_large_dict` makes of any rows
  (its fragments, one after the other, are the rows, none is empty, and if one is too large
  to push then one of its rows is), and that a stable sort of all fragments is the
  fragments.
- `ResultsInPlace`: `AnswersInPlace`, for any call, limits and number of threads. The
  strengthening `NimInv` says that the requests under way are of all inputs and fit the
  limit (`Fitting`), and that the results are what was read of the answers, in the order of
  the requests, whichever ended first. The work is in the lemmas about the requests: the
  loops that cut the inputs into chunks (`Cut`) take each input once, in order, and none too
  many (`CutUpTo`); the images and their shapes are cut alike; and all that is done with the
  answers leaves each at its input (`AllShown`).
- `BoxesAreKept`: `BoxesAccounted`, for pages with any number of boxes that overlap in any
  way. A round of the clustering keeps what the clusters have and adds its box
  (`JoinedStep`), whichever cluster takes it; sorting them keeps them all (`ByScoreFact`); and
  the titles that are left share none with those taken (`TakenApart`).
- `EachKindInItsCollection`: `CollectionsHoldTheirKinds`. The strengthening `UploadInv`
  gives the content of each collection by whether it is past, under way or still to come
  (`Content`); `Written` lists the positions of a kind, each once, by induction on the
  number of records.
- `JobsAreAnswered`: `EveryJobAnswered`, for any documents, types and order of the calls.
  The strengthening `IngestorInv` keeps from call to call that a batch is uniform
  (`Uniform`: its specs have the tasks asked for in common, and those of one type all
  tasks), and during `ingest` that a success was of a job sent by it (`SuccessWasSent`) and
  that a collected job had come to its end (`Collected`). A lemma for each operation on a
  batch (`AddKeeps`, `ExtractKeeps`, `DefaultsFact`, `BatchFact`) says what it adds to the
  common tasks, and that it keeps the jobs.

**Extraction** (`ExtractionProofs`).
- `PdfPagesAreRead`: `PagesAreRead`, for any document, options, sizes of batches and number
  of threads. The strengthening `PdfInv` (`PdfInvariant`) follows the pages: each page the
  loop has passed is in the list or in one call of each model that is asked (`ListsInv`,
  `CallsInv`); what nemoretriever-parse has answered and is not yet assembled is just what
  its gathered calls were given (`ResultsInv`); and the rows and the text are those of the
  pages read, gathered or assembled by then, each once (`RowsInv`, `TextInv`). A document of
  one batch goes to nemoretriever-parse in one call (`InOneCall`), which is why its pages
  come out in order, and why only then. That `pages_for_ocr` is empty when pdfium reads the
  text had to be said too: without it the end of the loop would not be kept from giving
  pages to nemoretriever-parse. The sequences are dealt with by `Lists(s, S)`: `s` has the
  members of `S`, each once. The lemmas say when a flattened, filtered, mapped or joined
  sequence lists the set it should (`ListsFlatten`, `ListsSelect`, `ListsMapped`,
  `ListsJoin`), and that a function kept by each part is kept by the whole
  (`FlattenInduction`).
- `LayoutTextsShown`: `TextsShown`, for any number of texts in whatever cells, rows, columns
  and lines, in both forms. The strengthening `LayoutInv` says that the assignments list
  entries that share no text and have all of them (`EntriesInv`), and that the content
  shows them (`Shown`). A text of the table is in the cell of one of its rows and one of its
  columns (`MarkdownFact`), and the table is on a line that is gone through, that of its
  middle (`ShownFact`, `MaxFact`); a text outside is on one line (`OnLineFact`). In the
  simple form each text is in one chain of lines, the one that begins at the least line
  from which no line is missing up to its own (`RunsFact`).
- `OfficeTextsReadOnce`: `TextsReadOnce`, for any presentation or document and any depth,
  also those at which a document has no row of text. The strengthening `OfficeInv`
  (`OfficeInvariant`) says that the texts of the rows made, followed by those that wait, are
  the texts of the file before the place of the loop (`UpTo`, a prefix of the parts put
  together); that nothing waits at a depth below the slide, and at the depth of a slide only
  texts of this slide; and that each row says where its texts are (`GoodRow`), which the
  last row of a document would not if a depth were left out there. The texts of a shape are
  those of its rows at either of three depths (`ShapeRowsFact`), a title is read when its
  first run is and at no other (`TextsOfFact`), and the groups of one style that
  `format_paragraph` makes leave no item out, whatever styles blank items have
  (`AddItemFact`, `ParagraphTextsFact`). The lemmas under them say what a list is when each
  of its members is read in its own way (`Each`, `EachJoin`, `EachFlatten`).

Proofs over recursive functions go by induction on the numbers they are defined on: the
library's induction theorems, which take an operator, cannot be used here, but a set of
numbers without a least element is empty, and so `SetInduction` and `Recursion`, which gives
a recursive function its values, are lemmas of these modules. Some models were reworded for
this, with the same meaning, since the provers do not see into `SelectSeq` and `SortSeq`:
`JobsAfter`, `AddTasks`, `split_large_dict` and the loops of `Cut` are recursive functions,
`Sorted` and `ByScore` are stable sorts by counting, the stages of `JobPipeline` choose rows
by sets of positions (`AtPositions`), and `Written`, `ByType` and `Common` are
concatenations; `PdfExtraction`, `TableLayout` and `OfficeExtraction` filter lists with
`Select` (module `Selections`), which is a concatenation too, and sort by rank. The proof of
`LayoutTextsShown` led back to the source: `TableLayout` had put the table on the line where
it begins, and the code puts it on that of its middle, which may be none of the texts'.

Assumptions on the constants beyond their types: at least one file is converted (the
endpoint requires one, `ingest.py:193`), files and retries are numbered from 1, one client
at least asks for the result, and the overhead of an empty fragment is below the limit of
its size (a few bytes against `split_large_dict`'s limit, `message_broker_task_sink.py:62`);
an upload is into one collection at least (with an empty dictionary nothing is written), and
a file of the bulk writer holds a row at least; a request for embeddings has room for one
prompt at least; and a submitted job is one the schemas admit (`IsJob`): a chunk overlap
below the chunk size (`IngestTaskSplitSchema`), a flag in each deduplication and filter
task, a document that is at least itself, and other parts only where an extractor can find
some; batches of pages hold one at least, and an engine has a thread (`PdfAssumption`); the
rows, columns and lines in which a text of an image lies are finitely many numbers
(`IsImage`); a slide is made of shapes and a document of paragraphs and tables, at one of
the five depths (`IsFile`).

Only model-checked:
- liveness (`LeaseEnds`, `CallsWaitOnlyForQueue`, `MessagesLeave`, `StageFinishes`,
  `LoopEnds`, `CombinedCompletes`, `SubmittedIsHandled`, `ClientIsAnswered`,
  `ConversionCompletes`, `InferEnds`, `VersionSettles`): it depends on fairness and ENABLED
  and is out of the provers' reach;
- `NoPictureTorn` and `PicturesKeptOnce`, whose inputs are enumerated instead. The
  first is about rectangles that are joined through chains of neighbours, in a fold over
  a list; the second needs, of the rows of pictures, that the places in them differ.

## Disagreements found

Runs marked `violation` in `PROJECT.json`, each with the text it contradicts:

- `async_last_fails`: if the callback of a failed submission is the last, the combined
  future is never done.
- `ingestor_behind`: after a local document, a remote one is added, and `ingest` goes
  through without it, although it says it refuses to.
- `milvus_bulk`: of the files the bulk writer has made only the first is imported.

The models also have the following, for which no run is kept.

- Broker: a queue exceeds `max_queue_size`, since the test for room and the push are
  separate critical sections (`broker.py:160`, `:406`); a popped message whose ACK wait
  ends in an uncaught OSError is neither delivered nor returned (`broker.py:329`).
- Stage: after `join` the child thread of an engine may wait for ever on the response
  queue, which its handler no longer empties (`multiprocessing_stage.py:297`, `:615`); an
  engine whose upstream ended in an error does not return.
- Client: after a file that makes no job, the jobs of its batch get the names of the files
  before their own (`processing.py:507`); a submission that raises ends the command-line
  loop even without `fail_on_error` (`client.py:495`), and a job that fails does not end it
  with `fail_on_error` (`processing.py:648`); a job the broker refuses is SUBMITTED, and is
  fetched for ever (`client.py:561`); a job may be fetched between the assignments of its
  state and its id (`client.py:567`), which costs a retry; the combined future may be
  done before all results are in its list (`interface.py:301`), and a job that failed in
  the service counts as completed (`interface.py:296`); `completed_jobs()` fails after a
  synchronous `ingest`; `files()` after task calls drops the tasks; a second `ingest` sends
  empty payloads.
- Conversion: results are given to files in the order of their completion, since all come
  in one list, and a push that is repeated may put one file there twice and leave another
  out (`ConvertStatus`).
- Tasks: every `store` task fails its job (`image_storage.py:167`); a table image below 32
  pixels fails its job in the simple format; audio transcripts are never embedded; a text
  after dropped rows is not split (`text_splitter.py:115`); an override of the document
  type reaches the first type only.
- Extraction: infographics are dropped where charts are not asked for (`yolox.py:823`);
  depths "span" and "line" give no text of a Word document, and depths finer than a page
  none of nemoretriever-parse, which gives no tables or pictures without `extract_text`;
  pages may be out of order there when they need several batches
  (`nemoretriever_parse_helper.py:252`); pictures in tables and links of Word documents are
  lost, and a text next to one of another style may get its mark (`docxreader.py:358`); a
  form that encloses a tiny one is lost; an unknown version of a chart model is taken to be
  of the newest kind (`chart_extraction.py:140`).
- Models: a server that takes a request over gRPC and never answers keeps `infer`, its
  pool of threads and the stage waiting for ever (`helpers.py:322`).
- Databases: a failed import keeps `bulk_insert_milvus` waiting for ever; a collection
  asked to hold audio raises; the reranker ignores `topk`.

## Not modelled and limits

- Not modelled, as `PROJECT.json` says with the reasons: file reading, names and reports of
  the client; the Adobe, LlamaParse, Tika and Unstructured extractors, which only hand
  documents to services; the sink that writes to a vector database, which no pipeline is
  built with; schemas and converters; offline tools, deployment and docs.
- Broker: SIZE and PING only read. A death of the broker process loses its queues,
  which live in memory, and is not modelled; nor is the singleton's constructor.
  Several queues share nothing, so one is modelled.
- Stage: `close()` of the pool is called by nothing and left out. After `join`, what is
  inside the stage is lost with the process. If every worker dies the stage hangs;
  `MessagesLeave` is checked with one that lives.
- Client: saving results to disk (an error there makes the job a failed one), page
  counts and statistics are left out of `CliLoop`; two files of one name are taken to
  be two files.
- Pipeline: the counters are those of one message at a time; two engines that count at
  once are not modelled. Answers of models are right or short, never about other inputs;
  of several choices the first is read. A server that allows no batch at all
  (`max_batch_size` 0) is excluded by an assumption.
- Runner: a program that dies between the fork and `prctl` leaves its pipeline without a
  death signal; workers of a pipeline are not told by it. Copying threads, CPU affinity
  and the pipeline's configuration are left out.
