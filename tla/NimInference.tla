---------------------------- MODULE NimInference ----------------------------
(***************************************************************************)
(* One call of NimClient.infer: the inputs are cut into requests, a pool   *)
(* of threads sends them (over HTTP with retries), the answers come back   *)
(* in any order and are put together again in the order of the inputs.     *)
(*                                                                         *)
(* An input is its number. An answer is the sequence of the inputs it is   *)
(* about: the whole request, one too few, or nothing (no "data", no        *)
(* "choices"). What a model says of an image is left out, but for the      *)
(* labels of detected page elements, which decide whether it can be read.  *)
(***************************************************************************)
EXTENDS Naturals, Sequences, FiniteSets, SequencesExt, FiniteSetsExt

CONSTANTS
  Calls,           \* [interface, protocol, n, config, limit, requested, force, labels, served]
  max_retries,     \* attempts of one HTTP request
  max_pool_workers \* threads of one call

ASSUME NimAssumption ==
  /\ max_retries \in Nat \ {0} /\ max_pool_workers \in Nat \ {0}
  \* limit is max_batch_size of the server's configuration. It is 0 for a model
  \* that takes no batches, which none of these does: chunk_list would raise,
  \* chunk_list_geometrically would never end.
  /\ \A c \in Calls : c.n \in Nat /\ c.limit \in Nat \ {0} /\ c.requested \in Nat
  /\ \A c \in Calls :
       /\ c.interface \in {"page", "ocr", "cached", "deplot", "caption", "embedding", "parse"}
       /\ c.protocol \in {"grpc", "http"} /\ c.config \in {"none", "refused", "answered"}

VARIABLES
  call,     \* the arguments
  pc,       \* "asked", "running", "done" or "raised"
  batches,  \* the requests: [inputs, shapes]
  request,  \* of each: its state, attempts made, and answer
  all_results

nimVars == <<call, pc, batches, request, all_results>>

\* The interfaces: page elements, graphic elements and table structure ("page"),
\* PaddleOCR ("ocr"), CACHED, Deplot, captions, embeddings, nemoretriever_parse
\* ("parse").

Grpc == call.protocol = "grpc"

-----------------------------------------------------------------------------
(* Cutting the inputs.                                                     *)

Least(a, b) == IF a < b THEN a ELSE b

\* The server's limit: 1 if it was refused, or no gRPC endpoint was given.
_fetch_max_batch_size == IF call.config = "answered" THEN call.limit ELSE 1

\* The size of every request: the limit of the server and the caller's, the
\* latter alone when forced.
max_batch_size ==
  IF call.requested = 0 THEN _fetch_max_batch_size
  ELSE IF call.force THEN call.requested ELSE Least(_fetch_max_batch_size, call.requested)

Slice(i, size) == [k \in 1..size |-> i + k - 1]

\* The loop of both, which is at the i-th input: as long as there are inputs,
\* size[i] of them are the next chunk.
NoChunks == [chunks |-> <<>>, i |-> 1]
NextChunk(so_far, n, size) ==
  IF so_far.i > n THEN so_far
  ELSE [chunks |-> Append(so_far.chunks, Slice(so_far.i, size[so_far.i])),
        i |-> so_far.i + size[so_far.i]]
Cut(n, size) ==
  LET after[k \in 0..n] == IF k = 0 THEN NoChunks ELSE NextChunk(after[k - 1], n, size)
  IN  after[n].chunks

\* chunk_list
Chunks(n, chunk_size) == Cut(n, [i \in 1..n |-> Least(chunk_size, n - i + 1)])

\* The largest power of two up to left, left > 0: its divisors are even.
PowerUpTo(left) == Max({p \in 1..left : \A d \in 1..p : p % d = 0 => d = 1 \/ d % 2 = 0})

\* chunk_list_geometrically: a power of two each time, so that the server sees
\* few different shapes.
ChunksGeometrically(n, max_size) ==
  Cut(n, [i \in 1..n |-> Least(PowerUpTo(n - i + 1), max_size)])

\* Mutant: the shapes of the images are cut in equal parts, whatever the protocol.
Shapes_in_equal_parts(n) == Chunks(n, max_batch_size)

\* original_image_shapes of page elements, cut as the images are.
Shapes(n) == IF Grpc THEN ChunksGeometrically(n, max_batch_size) ELSE Chunks(n, max_batch_size)

\* The parallel lists are zipped.
Paired(inputs, shapes) ==
  [b \in 1..Least(Len(inputs), Len(shapes)) |-> [inputs |-> inputs[b], shapes |-> shapes[b]]]

Formatted(chunks, shapes) == [refused |-> FALSE, batches |-> Paired(chunks, shapes)]
Equal == LET chunks == Chunks(call.n, max_batch_size) IN Formatted(chunks, chunks)
Refused == [refused |-> TRUE, batches |-> <<>>]

\* format_input of each interface. Two of them have no images to concatenate when
\* there are none, three know HTTP only.
page_format ==
  Formatted(IF Grpc THEN ChunksGeometrically(call.n, max_batch_size) ELSE Chunks(call.n, max_batch_size),
            Shapes(call.n))
ocr_format == Equal
cached_format == IF Grpc /\ call.n = 0 THEN Refused ELSE Equal
deplot_format == IF Grpc /\ call.n = 0 THEN Refused ELSE Equal
caption_format == IF Grpc THEN Refused ELSE Equal
embedding_format == IF Grpc THEN Refused ELSE Equal
parse_format == IF Grpc THEN Refused ELSE Equal

Format ==
  CASE call.interface = "page" -> page_format     [] call.interface = "ocr" -> ocr_format
    [] call.interface = "cached" -> cached_format [] call.interface = "deplot" -> deplot_format
    [] call.interface = "caption" -> caption_format
    [] call.interface = "embedding" -> embedding_format
    [] call.interface = "parse" -> parse_format

-----------------------------------------------------------------------------
(* Reading an answer: parse_output of each interface.                      *)

Unreadable == <<0>>
NotEmpty(answer) == IF answer = <<>> THEN Unreadable ELSE answer
FirstOf(answer) == IF answer = <<>> THEN Unreadable ELSE <<answer[1]>>

\* A page whose elements have a label the client does not know cannot be read; no
\* "data" is no page. Over gRPC a class more is not looked at.
page_output(answer) ==
  IF Grpc \/ answer = <<>> \/ call.served \subseteq call.labels THEN answer ELSE Unreadable

\* PaddleOCR: over gRPC an array of three rows, one column for each image.
ocr_http_output(answer) == NotEmpty(answer)
ocr_grpc_output(answer) == answer
cached_output(answer) == IF Grpc THEN answer ELSE NotEmpty(answer)

\* Over HTTP only the first choice is read, however many images were asked about.
deplot_output(answer) == IF Grpc THEN answer ELSE FirstOf(answer)
caption_output(answer) == NotEmpty(answer)
embedding_output(answer) == NotEmpty(answer)
nemoretriever_output(answer) == FirstOf(answer)

parse_output(answer) ==
  CASE call.interface = "page" -> page_output(answer)
    [] call.interface = "ocr" -> IF Grpc THEN ocr_grpc_output(answer) ELSE ocr_http_output(answer)
    [] call.interface = "cached" -> cached_output(answer)
    [] call.interface = "deplot" -> deplot_output(answer)
    [] call.interface = "caption" -> caption_output(answer)
    [] call.interface = "embedding" -> embedding_output(answer)
    [] call.interface = "parse" -> nemoretriever_output(answer)

\* postprocess_results and transform_normalized_coordinates_to_original: the
\* detections of a page with the shape at its place; those without are dropped.
WithShapes(output, shapes) == SubSeq(output, 1, Least(Len(output), Len(shapes)))

process_inference_results(b, output) ==
  IF call.interface = "page" THEN WithShapes(output, batches[b].shapes) ELSE output

\* What the server may say: all, all but the last, or nothing.
Answers(b) ==
  LET inputs == batches[b].inputs IN {inputs, Front(inputs), <<>>}

-----------------------------------------------------------------------------
NimInit ==
  /\ call \in Calls
  /\ pc = "asked" /\ batches = <<>> /\ request = <<>> /\ all_results = <<>>

\* The requests of the call, or the exception of the interface.
Prepare ==
  /\ pc = "asked"
  /\ pc' = IF Format.refused THEN "raised" ELSE "running"
  /\ batches' = Format.batches
  /\ request' = [b \in DOMAIN Format.batches |-> [state |-> "queued", attempt |-> 0, output |-> <<>>]]
  /\ UNCHANGED <<call, all_results>>

Under(state) == {b \in DOMAIN request : request[b].state = state}

\* A thread of the pool takes the next request.
Take(b) ==
  /\ pc = "running" /\ b \in Under("queued")
  /\ \A other \in Under("queued") : b <= other
  /\ Cardinality(Under("sent") \cup Under("waiting")) < max_pool_workers
  /\ request' = [request EXCEPT ![b].state = "sent"]
  /\ UNCHANGED <<call, pc, batches, all_results>>

Finished(b, output) ==
  [request EXCEPT ![b].state = IF output = Unreadable THEN "failed" ELSE "answered",
                  ![b].output = output]
Failed(b) == [request EXCEPT ![b].state = "failed"]

\* _grpc_infer: no retry, and no timeout.
GrpcInfer(b) ==
  /\ pc = "running" /\ Grpc /\ b \in Under("sent")
  /\ \/ \E answer \in Answers(b) : request' = Finished(b, parse_output(answer))
     \/ request' = Failed(b)
  /\ UNCHANGED <<call, pc, batches, all_results>>

\* Mutant: a request the server is too busy for is sent again without counting.
Again_not_counted(b) ==
  IF request[b].attempt + 1 = max_retries THEN Failed(b)
  ELSE [request EXCEPT ![b].state = "waiting"]

\* The last attempt raises.
Again(b) ==
  IF request[b].attempt + 1 = max_retries THEN Failed(b)
  ELSE [request EXCEPT ![b].state = "waiting", ![b].attempt = @ + 1]

\* _http_infer: 200 with JSON is the answer; 429, 5xx, timeouts, connections
\* that break and answers that are not JSON are tried again; another status is not.
HttpInfer(b) ==
  /\ pc = "running" /\ ~Grpc /\ b \in Under("sent")
  /\ \E outcome \in {"ok", "busy", "timeout", "broken", "refused"} :
       CASE outcome = "ok" -> \E answer \in Answers(b) : request' = Finished(b, parse_output(answer))
         [] outcome = "refused" -> request' = Failed(b)
         [] OTHER -> request' = Again(b)
  /\ UNCHANGED <<call, pc, batches, all_results>>

\* The thread has slept for its backoff time.
SendAgain(b) ==
  /\ pc = "running" /\ b \in Under("waiting")
  /\ request' = [request EXCEPT ![b].state = "sent"]
  /\ UNCHANGED <<call, pc, batches, all_results>>

Over == \A b \in DOMAIN request : request[b].state \in {"answered", "failed"}

\* Leaving the pool waits for all its threads; the first exception is the
\* caller's, and no result is returned then.
Collect ==
  /\ pc = "running" /\ Over
  /\ IF Under("failed") # {} THEN pc' = "raised" /\ UNCHANGED all_results
     ELSE /\ pc' = "done"
          /\ all_results' = FlattenSeq([b \in DOMAIN batches |->
                              process_inference_results(b, request[b].output)])
  /\ UNCHANGED <<call, batches, request>>

NimNext ==
  \/ Prepare
  \/ \E b \in DOMAIN request : Take(b) \/ GrpcInfer(b) \/ HttpInfer(b) \/ SendAgain(b)
  \/ Collect

NimSpec == NimInit /\ [][NimNext]_nimVars

\* The threads of the pool are not starved, and an HTTP request that is not answered
\* is given up after its timeout. What is asked over gRPC has no timeout: neither
\* the limit of the server nor an answer need ever come.
NimFairness ==
  /\ WF_nimVars(call.config = "none" /\ Prepare)
  /\ WF_nimVars(\E b \in DOMAIN request : Take(b) \/ HttpInfer(b) \/ SendAgain(b))
  /\ WF_nimVars(Collect)

-----------------------------------------------------------------------------
(* Properties.                                                             *)

\* Every input is in exactly one request, in order, with the shape of its own
\* image (format_input). No request is larger than the caller allows, nor, unless
\* the caller forces its own size, than the server does (infer). And whatever the
\* order in which the requests are answered and how often each was sent, the k-th
\* result is of the k-th input, if what was read of each answer has an entry for
\* each input of the request: the stages give results to rows by their place. (Over
\* HTTP, what is read of deplot and nemoretriever-parse is the first choice alone:
\* it has no entry for the other inputs of a request of several.)
AnswersInPlace ==
  /\ pc \in {"running", "done"} =>
       /\ FlattenSeq([b \in DOMAIN batches |-> batches[b].inputs]) = Slice(1, call.n)
       /\ \A b \in DOMAIN batches :
            /\ batches[b].shapes = batches[b].inputs
            /\ call.requested > 0 => Len(batches[b].inputs) <= call.requested
            /\ ~call.force \/ call.requested = 0 => Len(batches[b].inputs) <= call.limit
  /\ pc = "done" /\ (\A b \in DOMAIN batches : request[b].output = batches[b].inputs)
     => all_results = Slice(1, call.n)

\* A call waits for what it has asked over gRPC.
AwaitsGrpc ==
  \/ pc = "asked" /\ call.config # "none"
  \/ pc = "running" /\ Grpc /\ Under("sent") # {}

\* A call of infer that asks nothing over gRPC ends, however the server behaves: it
\* returns or raises. One that does either ends or waits for an answer for ever.
InferEnds == <>(pc \in {"done", "raised"}) \/ <>[]AwaitsGrpc
=============================================================================
