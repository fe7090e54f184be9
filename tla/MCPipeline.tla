----------------------------- MODULE MCPipeline -----------------------------
(* Small instances for TLC of the modules around one ingest, in one run: a    *)
(* behaviour is one of one of the modules, while the machines of the others   *)
(* are at rest in a state in which they have nothing to do.                   *)
EXTENDS JobSubmission, JobPipeline, MilvusUpload, IngestorCalls, PipelineRunner

APart(type, subtype, len, blank, hash, small) ==
  [type |-> type, subtype |-> subtype, len |-> len, blank |-> blank, hash |-> hash, small |-> small]
Text(len) == APart("text", "none", len, {}, 0, FALSE)
WithSpace(len, blank) == APart("text", "none", len, blank, 0, FALSE)
Image(hash, small) == APart("image", "none", 0, {}, hash, small)
Structured(subtype, small) == APart("structured", subtype, 0, {}, 0, small)
Audio == APart("audio", "none", 0, {}, 0, FALSE)

Task(type) == <<[type |-> type]>>
ExtractTask(document_type) == <<[type |-> "extract", document_type |-> document_type]>>
FilterTask(type, content_type, filter) ==
  <<[type |-> type, content_type |-> content_type, filter |-> filter]>>
TableTask(format) == <<[type |-> "table_data_extract", format |-> format]>>
SplitTask == <<[type |-> "split", chunk_size |-> 2, chunk_overlap |-> 1,
                split_source_types |-> {"text", "pdf"}]>>

\* Copies of images, small images, a text after them and one before, tables; blanks
\* that fill a chunk, or a text.
Documents == {
  <<Image(1, FALSE), Image(1, FALSE), Image(2, TRUE), Text(3)>>,
  <<WithSpace(3, {2, 3}), Structured("table", TRUE), Structured("table", FALSE), Image(2, TRUE), Image(2, TRUE), Text(1)>>,
  <<Structured("chart", TRUE), Structured("chart", FALSE), Structured("infographic", FALSE), Image(1, TRUE)>>,
  <<>>}

\* What is submitted, and its parts.
Itself(document_type) == <<CASE ContentType(document_type) = "text" -> Text(4)
                             [] ContentType(document_type) = "image" -> Image(1, TRUE)
                             [] ContentType(document_type) = "audio" -> Audio
                             [] OTHER -> Structured("none", FALSE)>>
Job(document_type, parts, list) ==
  [document_type |-> document_type, parts |-> Itself(document_type) \o parts, tasks |-> list]

Maybe(task) == {<<>>, task}

\* The lists a client builds, with each choice of what follows an extraction.
PdfJobs == {Job("pdf", parts, ExtractTask("pdf") \o dedup \o filter \o tables \o split \o caption \o embedding) :
  parts \in Documents,
  dedup \in {<<>>, FilterTask("dedup", "image", TRUE), FilterTask("dedup", "image", FALSE)},
  filter \in Maybe(FilterTask("filter", "image", TRUE)),
  tables \in {<<>>, TableTask("simple"),
              TableTask("markdown") \o Task("chart_data_extract") \o Task("infographic_data_extract")},
  split \in Maybe(SplitTask), caption \in Maybe(Task("caption")), embedding \in Maybe(Task("embed"))}

\* Other documents, tasks in another order, tasks no stage takes, and two tasks
\* of one type.
OtherJobs == {
  Job("pdf", <<Text(2)>>, Task("embed") \o Task("store_embedding") \o ExtractTask("pdf")),
  Job("pdf", <<Text(2)>>, ExtractTask("pdf") \o Task("store") \o Task("vdb_upload")),
  Job("pdf", <<Text(2)>>, SplitTask \o Task("embed")),
  Job("pdf", <<Text(2)>>, ExtractTask("docx") \o ExtractTask("pdf")),
  Job("pdf", <<Image(1, TRUE)>>, FilterTask("filter", "text", TRUE) \o ExtractTask("pdf")
                                   \o FilterTask("filter", "image", TRUE)),
  Job("pdf", <<Image(1, TRUE), Image(1, TRUE)>>,
      ExtractTask("pdf") \o FilterTask("dedup", "image", FALSE) \o FilterTask("dedup", "image", TRUE)
        \o FilterTask("filter", "image", FALSE) \o FilterTask("filter", "image", TRUE)),
  Job("pdf", <<Image(1, FALSE), Image(1, FALSE)>>,
      ExtractTask("pdf") \o FilterTask("dedup", "text", TRUE) \o Task("caption")),
  Job("pdf", <<Structured("table", FALSE)>>,
      ExtractTask("pdf") \o Task("audio_data_extract") \o TableTask("markdown")),
  Job("docx", <<Text(3), Image(1, FALSE)>>, ExtractTask("docx") \o Task("caption")),
  Job("pptx", <<Text(3)>>, ExtractTask("pptx") \o ExtractTask("pptx")),
  Job("png", <<Image(1, FALSE)>>, ExtractTask("png") \o Task("caption") \o Task("vdb_upload")),
  Job("png", <<Structured("table", FALSE)>>, ExtractTask("png") \o TableTask("simple") \o Task("embed")),
  Job("png", <<Image(1, FALSE)>>, Task("caption") \o Task("embed") \o FilterTask("filter", "image", TRUE)),
  Job("svg", <<>>, ExtractTask("png") \o Task("caption")),
  Job("text", <<>>, ExtractTask("text") \o SplitTask \o Task("embed")),
  Job("pdf", <<WithSpace(3, {1, 2, 3}), WithSpace(0, {}), Text(3)>>, ExtractTask("pdf") \o SplitTask \o Task("embed")),
  Job("pdf", <<WithSpace(2, {1, 2}), Text(3)>>, ExtractTask("pdf") \o Task("embed")),
  Job("text", <<>>, Task("embed") \o Task("store_embedding")),
  Job("mp3", <<>>, Task("audio_data_extract") \o Task("embed")),
  Job("pdf", <<Text(2)>>, Task("audio_data_extract") \o ExtractTask("pdf") \o Task("embed")),
  Job("html", <<>>, ExtractTask("html")),
  Job("unknown", <<>>, <<>>)}

AllJobs == PdfJobs \cup OtherJobs

SubmissionAtRest ==
  /\ route = "rest" /\ spec = "valid" /\ posted = [n \in Attempts |-> "unposted"]
  /\ submitter = [at |-> "submitted", attempt |-> 1, job_id |-> 0]
  /\ task_queue = <<>> /\ engine = [e \in Engines |-> 0] /\ made = <<>>
  /\ troubles = 0 /\ broke = FALSE /\ repushed = FALSE /\ lost = {}

PipelineAtRest ==
  /\ document = Job("unknown", <<>>, <<>>) /\ at = Len(Nodes) /\ tasks = <<>> /\ rows = <<>>
  /\ cm_failed = TRUE /\ answer = "failure"
  /\ stats = [submitted_jobs |-> 1, completed_jobs |-> 0, failed_jobs |-> 1]

Record(kind, text, embedding) == [kind |-> kind, text |-> text, embedding |-> embedding]
Batch(records, collections, recreate, held, stream, per_file) ==
  [records |-> records, collections |-> collections, recreate |-> recreate, held |-> held,
   stream |-> stream, per_file |-> per_file]
OneForAll == <<[kinds |-> {"text", "table", "chart"}]>>
OnePerKind == <<[kinds |-> {"text"}], [kinds |-> {"table", "chart"}]>>
WithAudio == <<[kinds |-> {"text", "audio"}]>>

\* Two, three or four rows in files of two or of five.
AllBatches == {
  Batch(<<Record(a, TRUE, TRUE), Record(b, TRUE, e), Record("table", t, TRUE), Record("text", TRUE, TRUE)>>,
        collections, recreate, held, stream, per_file) :
  a \in {"text", "chart", "audio"}, b \in {"text", "table"}, e \in BOOLEAN, t \in BOOLEAN,
  collections \in {OneForAll, OnePerKind, WithAudio},
  recreate \in BOOLEAN, held \in BOOLEAN, stream \in BOOLEAN, per_file \in {2, 5}}

UploadAtRest ==
  /\ batch = Batch(<<>>, OneForAll, FALSE, TRUE, TRUE, 5) /\ nth = 1 /\ contents = <<<<0>>>>
  /\ meta = <<1>> /\ batch_files = <<>> /\ step = "done"

Document(host, name, document_type, known) ==
  [host |-> host, name |-> name, document_type |-> document_type, remote |-> host # "here", known |-> known]
AllDocuments == {Document("here", "a", "docx", TRUE), Document("here", "b", "pdf", TRUE),
                 Document("one", "c", "pdf", TRUE), Document("other", "c", "pdf", TRUE),
                 Document("here", "d", "docx", FALSE)}

IngestorAtRest ==
  /\ _documents = <<>> /\ _job_specs = [made |-> FALSE, file_types |-> <<>>, specs |-> <<>>]
  /\ _all_local = FALSE /\ _vdb_bulk_upload = FALSE /\ phase = "build" /\ submission = <<>>
  /\ fetched = <<>> /\ fetches = <<>> /\ result = {} /\ failure = {} /\ uploaded = {}
  /\ asked = <<>> /\ calls = max_calls

RunnerAtRest ==
  /\ program = "ended" /\ frames = <<>> /\ launched = 0 /\ leader = [p \in Pipelines |-> "none"]
  /\ port = 0 /\ registered = <<>> /\ handler = 0 /\ signals = 0 /\ disturbed = FALSE /\ killed = TRUE

MCInit ==
  \/ /\ SubmissionInit /\ PipelineAtRest /\ UploadAtRest /\ IngestorAtRest /\ RunnerAtRest
  \/ /\ SubmissionAtRest /\ PipelineInit /\ UploadAtRest /\ IngestorAtRest /\ RunnerAtRest
  \/ /\ SubmissionAtRest /\ PipelineAtRest /\ UploadInit /\ IngestorAtRest /\ RunnerAtRest
  \/ /\ SubmissionAtRest /\ PipelineAtRest /\ UploadAtRest /\ IngestorInit /\ RunnerAtRest
  \/ /\ SubmissionAtRest /\ PipelineAtRest /\ UploadAtRest /\ IngestorAtRest /\ RunnerInit

MCNext ==
  \/ SubmissionNext /\ UNCHANGED <<pipelineVars, uploadVars, ingestorVars, runnerVars>>
  \/ PipelineNext /\ UNCHANGED <<submissionVars, uploadVars, ingestorVars, runnerVars>>
  \/ UploadNext /\ UNCHANGED <<submissionVars, pipelineVars, ingestorVars, runnerVars>>
  \/ IngestorNext /\ UNCHANGED <<submissionVars, pipelineVars, uploadVars, runnerVars>>
  \/ RunnerNext /\ UNCHANGED <<submissionVars, pipelineVars, uploadVars, ingestorVars>>

MCSpec ==
  /\ MCInit
  /\ [][MCNext]_<<submissionVars, pipelineVars, uploadVars, ingestorVars, runnerVars>>
  /\ SubmissionFairness /\ WF_pipelineVars(PipelineNext)
=============================================================================
