----------------------------- MODULE JobPipeline -----------------------------
(***************************************************************************)
(* One control message on its way through the stages of the pipeline, from *)
(* the source to the counter of completed jobs: which stage takes which of *)
(* the job's tasks, and what it does to the rows of the payload.           *)
(*                                                                         *)
(* A row stands for a part of the document: a page's text, an image, a     *)
(* table. Enrichments are named by the part they were computed from. The   *)
(* queues and processes of a stage are those of MPStage.                   *)
(***************************************************************************)
EXTENDS Naturals, Sequences, FiniteSets, SequencesExt

CONSTANTS
  Jobs,      \* what may be submitted: [document_type, parts, tasks]
  BatchSize  \* prompts of one request for embeddings

Images == {"png", "jpeg", "tiff", "bmp", "svg"}
Extractable == {"pdf", "docx", "pptx"} \cup Images

\* doc_type_to_content_type of a source document.
ContentType(document_type) ==
  CASE document_type = "text" -> "text"
    [] document_type \in Images -> "image"
    [] document_type \in {"mp3", "wav"} -> "audio"
    [] OTHER -> "structured"

\* The first part of a document is the document itself, as it was submitted; the
\* others are what an extractor finds in it. len: the tokens of its text; blank:
\* those of them that are only space.
Parts == [type : {"text", "image", "structured", "audio"},
          subtype : {"none", "table", "chart", "infographic"},
          len : Nat, blank : SUBSET Nat, hash : Nat, small : BOOLEAN]

\* The schema of a task has its properties.
IsTask(t) ==
  /\ t.type = "split" => /\ t.chunk_size \in Nat /\ t.chunk_overlap \in Nat
                         /\ t.chunk_overlap < t.chunk_size
  /\ t.type \in {"dedup", "filter"} => t.filter \in BOOLEAN

IsJob(job) ==
  /\ job.document_type \in Extractable \cup {"html", "text", "mp3", "wav", "unknown"}
  /\ job.parts \in Seq(Parts) /\ job.parts # <<>>
  /\ job.parts[1].type = ContentType(job.document_type)
  /\ job.document_type \notin Extractable => Len(job.parts) = 1
  /\ job.tasks \in Seq(ToSet(job.tasks)) /\ \A t \in ToSet(job.tasks) : IsTask(t)

ASSUME PipelineAssumption ==
  /\ BatchSize \in Nat \ {0}
  /\ \A job \in Jobs : IsJob(job)

\* The stages, in the order of the edges; every other node comes before or
\* after all of them.
AllNodes == <<"metadata_injector", "pdf_extractor", "image_extractor",
           "docx_extractor", "pptx_extractor", "audio_extractor", "dedup_images",
           "filter_images", "table_extractor", "chart_extractor",
           "infographic_extractor", "text_splitter", "image_caption",
           "embed_extractions", "image_storage", "embedding_storage", "sink",
           "completed_job_counter", "out">>

\* Mutant: the embeddings are made before the captions.
Nodes_embedding_first ==
  [i \in DOMAIN AllNodes |-> IF i = 13 THEN AllNodes[14] ELSE IF i = 14 THEN AllNodes[13] ELSE AllNodes[i]]

Nodes == AllNodes

VARIABLES
  document,  \* the job as submitted
  at,        \* the node the message is before
  tasks,     \* the tasks it still carries, in order
  rows,      \* its payload
  cm_failed, \* its metadata entry of that name
  stats,     \* GlobalStats
  answer     \* what the sink sends: "none", "success" or "failure"

pipelineVars == <<document, at, tasks, rows, cm_failed, stats, answer>>

-----------------------------------------------------------------------------
(* Rows.                                                                   *)

Part(r) == document.parts[r.part]
Type(r) == Part(r).type

\* raw: made by the source, with metadata of the injector; lo and hi: the first
\* and last token of its text; content: metadata has its content.
Row(label, part, document_type, raw) ==
  [label |-> label, part |-> part, raw |-> raw, document_type |-> document_type,
   lo |-> 1, hi |-> document.parts[part].len, content |-> TRUE,
   table_content |-> 0, caption |-> 0, embedding |-> <<0, 0>>]

\* reset_index: the labels are the positions.
Relabelled(rs) == [i \in DOMAIN rs |-> [rs[i] EXCEPT !.label = i - 1]]

\* A set of positions in order, and what a sequence has there.
InOrder(S) == [k \in 1 .. Cardinality(S) |-> CHOOSE i \in S : Cardinality({j \in S : j < i}) = k - 1]
AtPositions(rs, S) == [k \in DOMAIN InOrder(S) |-> rs[InOrder(S)[k]]]

Ok(rs) == [raised |-> FALSE, rows |-> rs]
Raised == [raised |-> TRUE, rows |-> <<>>]

-----------------------------------------------------------------------------
(* What the stages do to the rows: the process_fn of each, as the set of   *)
(* its outcomes. A service, a tokenizer or a store may always fail.        *)

\* An extractor reads the content of the source document, with its own format;
\* rows that have been extracted have no such column.
decode_and_extract(formats) ==
  {Raised} \cup
  IF \E i \in DOMAIN rows : ~rows[i].raw THEN {}
  ELSE IF document.document_type \notin formats THEN {}
  ELSE {Ok([i \in 1 .. Len(document.parts) - 1 |->
              Row(i - 1, i + 1, document.parts[i + 1].type, FALSE)])}

process_pdf_bytes(t) == decode_and_extract({"pdf"})
process_image(t) == decode_and_extract(Images)

\* A failure is made an exception tag, of two columns where a row has three: so
\* it raises after all.
_process_docx_bytes(t) == decode_and_extract({"docx"})
_process_pptx_bytes(t) == decode_and_extract({"pptx"})

\* The content is popped from every row, of whatever type.
_transcribe_audio(t) ==
  {Raised} \cup IF \A i \in DOMAIN rows : rows[i].content
                THEN {Ok([i \in DOMAIN rows |-> [rows[i] EXCEPT !.content = FALSE]])} ELSE {}

IsImage(i) == rows[i].document_type = "image"
Duplicates == {i \in DOMAIN rows :
  IsImage(i) /\ \E k \in 1 .. i - 1 : IsImage(k) /\ Part(rows[k]).hash = Part(rows[i]).hash}
Informed(S) == [i \in DOMAIN rows |-> IF i \in S THEN [rows[i] EXCEPT !.document_type = "info_msg"]
                                      ELSE rows[i]]

\* Images first; no label changes.
_cpu_only_apply_dedup_filter(filter_flag) ==
  LET images == {i \in DOMAIN rows : IsImage(i)} IN
  IF \E i \in images : ~rows[i].content THEN {Raised}
  ELSE IF images = {} THEN {Ok(rows)}
  ELSE IF filter_flag
  THEN {Ok(AtPositions(rows, images \ Duplicates) \o AtPositions(rows, DOMAIN rows \ images))}
  ELSE {Ok(Informed(Duplicates))}
dedup_image_stage(t) == _cpu_only_apply_dedup_filter(t.filter)

image_filter_stage(t) ==
  LET out == {i \in DOMAIN rows : IsImage(i) /\ Part(rows[i]).small} IN
  IF t.filter THEN {Ok(AtPositions(rows, DOMAIN rows \ out))} ELSE {Ok(Informed(out))}

\* A NIM answers in the order of its inputs (see NimInference).
Infer(rs) == [k \in DOMAIN rs |-> rs[k].part]

\* Mutant: the results of the images that are large enough are dealt out as if
\* all of them were.
update_metadata_shifted(rs) ==
  LET valid == AtPositions(rs, {i \in DOMAIN rs : ~Part(rs[i]).small}) IN
  [i \in DOMAIN rs |-> IF i <= Len(valid) THEN Infer(valid)[i] ELSE 0]

\* Images below 32 pixels are not sent; each result goes to its original index.
_update_metadata(rs) ==
  LET valid_indices == InOrder({i \in DOMAIN rs : ~Part(rs[i]).small})
      results == Infer([k \in DOMAIN valid_indices |-> rs[valid_indices[k]]])
  IN [i \in DOMAIN rs |-> IF Part(rs[i]).small THEN 0
                          ELSE results[CHOOSE k \in DOMAIN valid_indices : valid_indices[k] = i]]

meets_criteria(r, subtype) == Type(r) = "structured" /\ Part(r).subtype = subtype /\ r.content

\* table_content of the rows that meet the criteria.
Filled(subtype) ==
  LET valid == InOrder({i \in DOMAIN rows : meets_criteria(rows[i], subtype)})
      bulk_results == _update_metadata([k \in DOMAIN valid |-> rows[valid[k]]])
  IN [i \in DOMAIN rows |->
        IF \E k \in DOMAIN valid : valid[k] = i
        THEN [rows[i] EXCEPT !.table_content = bulk_results[CHOOSE k \in DOMAIN valid : valid[k] = i]]
        ELSE rows[i]]

\* In the simple format the texts are joined, and a small table has none.
_extract_table_data(t) ==
  LET tables == {i \in DOMAIN rows : meets_criteria(rows[i], "table")} IN
  {Raised} \cup IF t.format = "simple" /\ \E i \in tables : Part(rows[i]).small
                THEN {} ELSE {Ok(Filled("table"))}
_extract_chart_data(t) == {Raised, Ok(Filled("chart"))}
_extract_infographic_data(t) == {Raised, Ok(Filled("infographic"))}

\* Whether the tokens of a row are more than space.
Says(r) == \E x \in r.lo .. r.hi : x \notin Part(r).blank

\* Each chunk begins chunk_size - chunk_overlap tokens after the one before it; no
\* row is made of one that is blank.
_split_into_chunks(r, t) ==
  LET chunk(i) == [r EXCEPT !.lo = i, !.hi = IF i + t.chunk_size - 1 < r.hi THEN i + t.chunk_size - 1 ELSE r.hi]
      starts == {i \in 1 .. r.hi : /\ \E k \in 0 .. r.hi : i = 1 + k * (t.chunk_size - t.chunk_overlap)
                                   /\ Says(chunk(i))}
  IN [k \in DOMAIN InOrder(starts) |-> chunk(InOrder(starts)[k])]

\* The column of json_normalize is labelled by position: a row whose label is
\* not one of them is left as it is, and no rows have no such column.
split_and_forward(t) ==
  LET chosen == {i \in DOMAIN rows : /\ rows[i].document_type = "text"
                                     /\ rows[i].label < Len(rows)
                                     /\ document.document_type \in t.split_source_types}
      split_docs == FlattenSeq([i \in DOMAIN rows |->
                      IF i \in chosen THEN _split_into_chunks(rows[i], t) ELSE <<>>])
  IN {Raised} \cup
     IF rows = <<>> \/ \E i \in chosen : ~rows[i].content THEN {}
     ELSE IF chosen = {} THEN {Ok(rows)}
     ELSE {Ok(Relabelled(split_docs \o AtPositions(rows, DOMAIN rows \ chosen)))}

\* Chosen by the metadata: a duplicate marked as such is captioned too.
caption_extract_stage(t) ==
  LET images == {i \in DOMAIN rows : Type(rows[i]) = "image"} IN
  IF images = {} THEN {Ok(rows)}
  ELSE {Raised} \cup
       IF \E i \in images : ~rows[i].content THEN {}
       ELSE {Ok([i \in DOMAIN rows |->
                   IF i \in images THEN [rows[i] EXCEPT !.caption = rows[i].part] ELSE rows[i]])}

\* The text of a row that is to be embedded; chosen by document_type.
HasPrompt(r) ==
  CASE r.document_type = "text" -> Says(r)
    [] r.document_type = "structured" -> r.table_content # 0
    [] r.document_type = "image" -> r.caption # 0
    [] OTHER -> FALSE

_generate_batches(rs) ==
  [b \in 1 .. (Len(rs) + BatchSize - 1) \div BatchSize |->
     SubSeq(rs, (b - 1) * BatchSize + 1, IF b * BatchSize < Len(rs) THEN b * BatchSize ELSE Len(rs))]

\* Batches are sent concurrently; the answers are put together in their order.
_async_runner(rs) ==
  LET batches == _generate_batches(rs) IN
  FlattenSeq([b \in DOMAIN batches |->
        [k \in DOMAIN batches[b] |-> <<batches[b][k].part, batches[b][k].lo>>]])

_add_embeddings(rs) ==
  LET embeddings == _async_runner(rs) IN
  [k \in DOMAIN rs |-> [rs[k] EXCEPT !.embedding = embeddings[k]]]

\* By content type, and then the rows without a prompt; new labels.
_generate_text_embeddings_df(t) ==
  LET Of(type) == AtPositions(rows, {i \in DOMAIN rows : rows[i].document_type = type /\ HasPrompt(rows[i])})
      rest == AtPositions(rows, {i \in DOMAIN rows : ~HasPrompt(rows[i])})
  IN {Raised} \cup
     IF \E i \in DOMAIN rows : rows[i].document_type = "text" /\ ~rows[i].content THEN {}
     ELSE {Ok(Relabelled(_add_embeddings(Of("text")) \o _add_embeddings(Of("structured"))
                           \o _add_embeddings(Of("image")) \o rest))}

\* The payload is a DataFrame of pandas, which has no mutable_dataframe.
image_storage_on_data(t) == {Raised}

\* Metadata of the injector have no source_location.
upload_embeddings(t) ==
  {Raised} \cup IF \A i \in DOMAIN rows : ~rows[i].raw /\ rows[i].content THEN {Ok(rows)} ELSE {}

-----------------------------------------------------------------------------
(* The wrappers of a stage.                                                *)

\* Any of the tasks the stage requires will do for it to run...
filter_by_task(type, required) == \E t \in ToSet(tasks) : t.type = type /\ t \in required

\* ... and it takes the first of that type.
remove_task_by_type(type) == Min({i \in DOMAIN tasks : tasks[i].type = type})
First(type) == tasks[remove_task_by_type(type)]

At(node) == Nodes[at] = node
Forward == at' = at + 1 /\ UNCHANGED <<document, stats>>

\* An exception marks the message, whose payload stays as it was.
Fail == cm_failed' = TRUE /\ UNCHANGED rows

\* A stage that runs a process_fn, which has these outcomes, with a task.
Stage(node, type, required, outcomes) ==
  /\ At(node) /\ Forward /\ UNCHANGED answer
  /\ IF cm_failed \/ ~filter_by_task(type, required) THEN UNCHANGED <<tasks, rows, cm_failed>>
     ELSE /\ tasks' = RemoveAt(tasks, remove_task_by_type(type))
          /\ \E outcome \in outcomes :
               IF outcome.raised THEN Fail
               ELSE rows' = outcome.rows /\ UNCHANGED cm_failed

AnyTask == ToSet(tasks)
OfImages == {t \in ToSet(tasks) : t.type \in {"dedup", "filter"} /\ t.content_type = "image"}

\* The document type is that of the task, not of the document.
Extractor(node, formats, outcomes) ==
  Stage(node, "extract",
        {t \in ToSet(tasks) : t.type = "extract" /\ t.document_type \in formats}, outcomes)

-----------------------------------------------------------------------------
(* The nodes.                                                              *)

\* on_data: a document_type the enumeration has not raises.
metadata_injector ==
  /\ At("metadata_injector") /\ Forward
  /\ cm_failed' = (cm_failed \/ document.document_type = "unknown")
  /\ UNCHANGED <<tasks, rows, answer>>

pdf_extractor == Extractor("pdf_extractor", {"pdf"}, process_pdf_bytes(First("extract")))
image_extractor == Extractor("image_extractor", Images \ {"svg"}, process_image(First("extract")))
docx_extractor == Extractor("docx_extractor", {"docx"}, _process_docx_bytes(First("extract")))
pptx_extractor == Extractor("pptx_extractor", {"pptx"}, _process_pptx_bytes(First("extract")))
audio_extractor ==
  Stage("audio_extractor", "audio_data_extract", AnyTask,
        _transcribe_audio(First("audio_data_extract")))
dedup_images == Stage("dedup_images", "dedup", OfImages, dedup_image_stage(First("dedup")))
filter_images == Stage("filter_images", "filter", OfImages, image_filter_stage(First("filter")))
table_extractor ==
  Stage("table_extractor", "table_data_extract", AnyTask,
        _extract_table_data(First("table_data_extract")))
chart_extractor ==
  Stage("chart_extractor", "chart_data_extract", AnyTask,
        _extract_chart_data(First("chart_data_extract")))
infographic_extractor ==
  Stage("infographic_extractor", "infographic_data_extract", AnyTask,
        _extract_infographic_data(First("infographic_data_extract")))
text_splitter == Stage("text_splitter", "split", AnyTask, split_and_forward(First("split")))
image_caption == Stage("image_caption", "caption", AnyTask, caption_extract_stage(First("caption")))
embed_extractions ==
  Stage("embed_extractions", "embed", AnyTask, _generate_text_embeddings_df(First("embed")))
image_storage == Stage("image_storage", "store", AnyTask, image_storage_on_data(First("store")))
embedding_storage ==
  Stage("embedding_storage", "store_embedding", AnyTask, upload_embeddings(First("store_embedding")))

\* extract_data_frame and create_json_payload (the rest is in ResponseChannel).
sink ==
  /\ At("sink") /\ Forward
  /\ answer' = IF cm_failed THEN "failure" ELSE "success"
  /\ UNCHANGED <<tasks, rows, cm_failed>>

\* submitted_jobs was counted before the first of these nodes.
_count_jobs_impl ==
  /\ At("completed_job_counter") /\ at' = at + 1
  /\ stats' = IF cm_failed THEN [stats EXCEPT !.failed_jobs = @ + 1]
              ELSE [stats EXCEPT !.completed_jobs = @ + 1]
  /\ UNCHANGED <<document, tasks, rows, cm_failed, answer>>

PipelineInit ==
  /\ document \in Jobs
  /\ at = 1 /\ tasks = document.tasks
  /\ rows = <<Row(0, 1, document.document_type, TRUE)>>
  /\ cm_failed = FALSE
  /\ stats = [submitted_jobs |-> 1, completed_jobs |-> 0, failed_jobs |-> 0]
  /\ answer = "none"

Preprocess == metadata_injector
Extract == pdf_extractor \/ image_extractor \/ docx_extractor \/ pptx_extractor \/ audio_extractor
PostProcess == \/ dedup_images \/ filter_images
               \/ table_extractor \/ chart_extractor \/ infographic_extractor
               \/ text_splitter \/ image_caption \/ embed_extractions
               \/ image_storage \/ embedding_storage
Finish == sink \/ _count_jobs_impl
PipelineNext == Preprocess \/ Extract \/ PostProcess \/ Finish

PipelineSpec == PipelineInit /\ [][PipelineNext]_pipelineVars /\ WF_pipelineVars(PipelineNext)

-----------------------------------------------------------------------------
(* Properties.                                                             *)

Succeeded == At("out") /\ answer = "success"

Asked(type) == {i \in DOMAIN document.tasks : document.tasks[i].type = type}

\* Whether a stage on images runs, and the flag of the task it takes.
Applied(type, flag) ==
  /\ \E i \in Asked(type) : document.tasks[i].content_type = "image"
  /\ document.tasks[Min(Asked(type))].filter = flag

\* The parts of the result: what was found in the document, or itself.
Expected == IF \A i \in DOMAIN rows : ~rows[i].raw THEN 2 .. Len(document.parts) ELSE {1}

\* The images a job asked to drop: copies of an earlier one, and small ones, of
\* which a copy that is only marked is none.
Copy(p) ==
  /\ document.parts[p].type = "image"
  /\ \E q \in 2 .. p - 1 : /\ document.parts[q].type = "image"
                           /\ document.parts[q].hash = document.parts[p].hash
Small(p) == document.parts[p].type = "image" /\ document.parts[p].small
Unwanted(p) ==
  /\ p # 1
  /\ \/ Copy(p) /\ Applied("dedup", TRUE)
     \/ Small(p) /\ Applied("filter", TRUE) /\ ~(Copy(p) /\ Applied("dedup", FALSE))

\* The label of a part, from 0, is a position of one of the rows that came to the
\* splitter: not many of those before it were dropped.
KeptItsPlace(p) == p < 2 + Cardinality({q \in Expected : ~Unwanted(q)})

\* The rows of a text of a job that asked for it to be split: chunks of no more than
\* the size asked for, or the whole text, if it is of another type of document or
\* the splitter took its label for a position that no row has.
CutAsAsked(r) ==
  LET t == document.tasks[Min(Asked("split"))] IN
  IF document.document_type \in t.split_source_types /\ KeptItsPlace(r.part)
  THEN r.hi < r.lo + t.chunk_size
  ELSE r.lo = 1 /\ r.hi = Part(r).len

\* Whatever the tasks of a successful job, every part of an extracted document is
\* in the result once, but for the images the job asked to drop; one that is not
\* extracted is there itself; a text that is to be split is there as chunks, of the
\* size asked for, that leave out no token but space, or whole if rows dropped
\* before it took its place; what the services made of a part is in the row of
\* that part, however many rows were dropped, split and reordered; and the
\* counters hold the job as completed.
RowsKept ==
  Succeeded =>
    /\ \A p \in DOMAIN document.parts :
         LET of == {i \in DOMAIN rows : rows[i].part = p}
             held == UNION {rows[i].lo .. rows[i].hi : i \in of}
             len == document.parts[p].len
         IN IF p \notin Expected \/ Unwanted(p) THEN of = {}
            ELSE IF document.parts[p].type = "text" /\ Asked("split") # {}
            THEN /\ held \subseteq 1 .. len /\ (1 .. len) \ held \subseteq document.parts[p].blank
                 /\ \A i \in of : CutAsAsked(rows[i])
            ELSE held = 1 .. len /\ Cardinality(of) = 1
    /\ \A i \in DOMAIN rows :
         /\ rows[i].table_content \in {0, rows[i].part}
         /\ rows[i].caption \in {0, rows[i].part}
         /\ rows[i].embedding \in {<<0, 0>>, <<rows[i].part, rows[i].lo>>}
    /\ stats = [submitted_jobs |-> 1, completed_jobs |-> 1, failed_jobs |-> 0]

\* The tasks some stage takes.
Taken(t) ==
  CASE t.type = "extract" -> t.document_type \in Extractable \ {"svg"}
    [] t.type \in {"dedup", "filter"} -> t.content_type = "image"
    [] OTHER -> t.type \in {"audio_data_extract", "table_data_extract", "chart_data_extract",
                            "infographic_data_extract", "split", "caption", "embed", "store",
                            "store_embedding"}

\* A successful job is done: all that has a text is embedded, all images are
\* captioned, all tables that still have their content are read and no image is
\* there twice, as far as the job asked for it; and of its tasks, if no two have
\* the same type, it carries only those no stage takes. A job that asks for its
\* images to be stored never succeeds.
TasksDone ==
  Succeeded =>
    /\ Asked("embed") # {} => \A i \in DOMAIN rows :
         HasPrompt(rows[i]) => rows[i].embedding # <<0, 0>>
    /\ Asked("caption") # {} => \A i \in DOMAIN rows :
         Type(rows[i]) = "image" => rows[i].caption # 0
    /\ Asked("table_data_extract") # {} => \A i \in DOMAIN rows :
         meets_criteria(rows[i], "table") /\ ~Part(rows[i]).small => rows[i].table_content # 0
    /\ (\E i \in Asked("dedup") : document.tasks[i].content_type = "image") => Duplicates = {}
    /\ (\A i, k \in DOMAIN document.tasks : document.tasks[i].type = document.tasks[k].type => i = k) =>
         \A i \in DOMAIN tasks : ~Taken(tasks[i])
    /\ Asked("store") = {}
=============================================================================
