----------------------------- MODULE MilvusUpload ------------------------------
(* MilvusOperator.run of the client: results are written into one or several  *)
(* collections, each for some kinds of content, row by row through the        *)
(* database's connection or as files it imports.                              *)
EXTENDS Integers, Sequences, FiniteSets, SequencesExt

CONSTANTS Batches   \* [records, collections, recreate, held, stream, per_file]

\* An empty dictionary of collections writes nothing; a file holds a row at least.
ASSUME UploadAssumption ==
  \A b \in Batches : /\ DOMAIN b.records = 1..Len(b.records) /\ Len(b.records) \in Nat
                      /\ Len(b.collections) \in Nat \ {0} /\ b.per_file \in Nat \ {0}

VARIABLES batch,
          nth,       \* the collection being written
          contents,  \* contents[c]: the rows collection c holds
          meta,      \* collections noted in the meta collection
          batch_files,
          step       \* "create" | "write" | "import" | "done" | "raised"

uploadVars == <<batch, nth, contents, meta, batch_files, step>>

Collection == batch.collections[nth]

\* _dict_to_params: each collection gets its own copy of the parameters.
_dict_to_params_shared(k) == batch.collections[Len(batch.collections)].kinds
_dict_to_params(k) == batch.collections[k].kinds

\* enable_audio is no parameter of write_to_nvingest_collection: it stays on,
\* and a collection that is asked to hold audio raises.
Enabled(k) == _dict_to_params(k) \cup {"audio"}

\* _pull_text: content of an enabled kind that has a text and an embedding.
_pull_text(k, record) == record.kind \in Enabled(k) /\ record.text /\ record.embedding

\* What a pass over the records hands to the collection.
Written(k) ==
  FlattenSeq([i \in 1..Len(batch.records) |->
                IF _pull_text(k, batch.records[i]) THEN <<i>> ELSE <<>>])

UploadInit == /\ batch \in Batches /\ nth = 1 /\ meta = <<>> /\ batch_files = <<>> /\ step = "create"
              /\ contents = [c \in 1..Len(batch.collections) |-> IF batch.held THEN <<0>> ELSE <<>>]

\* create_nvingest_collection: an existing collection is dropped only if the
\* caller says so; either way it is noted once more in the meta collection.
CreateCollection ==
  /\ step = "create" /\ step' = "write"
  /\ contents' = [contents EXCEPT ![nth] = IF batch.recreate THEN <<>> ELSE @]
  /\ meta' = Append(meta, nth)
  /\ UNCHANGED <<batch, nth, batch_files>>

NextCollection ==
  IF nth < Len(batch.collections) THEN nth' = nth + 1 /\ step' = "create"
  ELSE step' = "done" /\ UNCHANGED nth

\* stream_insert_milvus: one insert for all rows.
StreamInsert ==
  /\ step = "write" /\ "audio" \notin Collection.kinds /\ batch.stream
  /\ contents' = [contents EXCEPT ![nth] = @ \o Written(nth)]
  /\ NextCollection
  /\ UNCHANGED <<batch, meta, batch_files>>

\* The writer begins a new file for every per_file rows.
InFiles(rows) ==
  [f \in 1..((Len(rows) + batch.per_file - 1) \div batch.per_file) |->
     SubSeq(rows, (f - 1) * batch.per_file + 1,
            IF f * batch.per_file < Len(rows) THEN f * batch.per_file ELSE Len(rows))]

\* write_records_minio
WriteRecords ==
  /\ step = "write" /\ "audio" \notin Collection.kinds /\ ~batch.stream
  /\ batch_files' = InFiles(Written(nth))
  /\ step' = IF Written(nth) = <<>> THEN "raised" ELSE "import"
  /\ UNCHANGED <<batch, nth, contents, meta>>

\* bulk_insert_milvus asks for the import of the first file only, and waits
\* until the import is completed: it goes on waiting when it has failed.
BulkInsert ==
  /\ step = "import"
  /\ contents' = [contents EXCEPT ![nth] = @ \o batch_files[1]]
  /\ NextCollection
  /\ UNCHANGED <<batch, meta, batch_files>>

UnknownParameter ==
  /\ step = "write" /\ "audio" \in Collection.kinds /\ step' = "raised"
  /\ UNCHANGED <<batch, nth, contents, meta, batch_files>>

UploadNext == CreateCollection \/ StreamInsert \/ WriteRecords \/ BulkInsert \/ UnknownParameter

UploadSpec == UploadInit /\ [][UploadNext]_uploadVars

-----------------------------------------------------------------------------
\* The records a collection is for.
Meant(k) ==
  {i \in DOMAIN batch.records :
     /\ batch.records[i].kind \in batch.collections[k].kinds \cup {"audio"}
     /\ batch.records[i].text /\ batch.records[i].embedding}
Before == IF batch.held /\ ~batch.recreate THEN {0} ELSE {}

\* After an upload every collection holds what it held, unless it was recreated,
\* and exactly the records of its own kinds once, however many collections are
\* written with the parameters of one call; rows the caller asked to keep are
\* never dropped.  Without a stream this is so as long as the rows fit one file.
CollectionsHoldTheirKinds ==
  /\ \A k \in DOMAIN contents : batch.held /\ ~batch.recreate => Head(contents[k]) = 0
  /\ step = "done" /\ (batch.stream \/ \A k \in DOMAIN contents : Cardinality(Meant(k)) <= batch.per_file) =>
       \A k \in DOMAIN contents : /\ ToSet(contents[k]) = Meant(k) \cup Before
                                  /\ IsInjective(contents[k])

\* "Once the function is complete all records have been uploaded to the milvus
\* collection."
AllRecordsUploaded ==
  step = "done" => \A k \in DOMAIN contents : Meant(k) \subseteq ToSet(contents[k])
=============================================================================
