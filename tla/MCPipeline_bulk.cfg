SPECIFICATION MCSpec
CONSTANTS
  MaxAttempts = 3
  Engines = {e1, e2}
  MaxTroubles = 3
  Jobs <- AllJobs
  BatchSize = 2
  Batches <- AllBatches
  DocumentTypes = {"pdf", "docx"}
  CallersDocuments <- AllDocuments
  max_fetches = 2
  max_calls = 4
  Launches = 2
  max_signals = 3
INVARIANTS AllRecordsUploaded
CHECK_DEADLOCK FALSE
