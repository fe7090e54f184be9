SPECIFICATION MCSpec
CONSTANTS
  Requests = {r1, r2}
  RowLists <- Results
  SizeLimit = 8
  Overhead = 1
  PushRetries = {0, 2}
  FetchRetries = 0
  ClientRetries = 1
  MaxFaults = 2
  Files = {1, 2}
  Pollers = {c1, c2}
  MayExpire = TRUE
  MaxErrors = 1
INVARIANTS GivenIsTrue CompletedIsFullOrEmpty
PROPERTIES ClientIsAnswered ConversionCompletes
CHECK_DEADLOCK FALSE
