SPECIFICATION MCSpec
CONSTANTS
  Calls <- AllCalls
  max_retries = 2
  max_pool_workers = 2
  Workers = {w1, w2}
  max_calls = 1
  Pages <- AllPages
  Images <- AllImages
  Requests <- AllRequests
  YOLOX_MAX_BATCH_SIZE = 2
  NEMORETRIEVER_PARSE_MAX_BATCH_SIZE = 2
  workers_per_progress_engine = 2
  Files <- AllFiles
  Sheets <- AllSheets
  threshold = 0
  max_num_boxes = 3
  min_num_components = 2
  min_size = 2
INVARIANTS AnswersInPlace BoxesAccounted TextsShown PagesAreRead NoPictureTorn TextsReadOnce PicturesKeptOnce
PROPERTIES InferEnds VersionSettles
CHECK_DEADLOCK FALSE
