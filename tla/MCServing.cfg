CONSTANTS
  t1 = t1
  NumUsers = 2
  MaxReplies = 3
  Tokenizer = {t1}
  TaskCancelled = TRUE
  Args <- RunArgs
SPECIFICATION FairServing
CHECK_DEADLOCK FALSE
INVARIANTS
  CancelsCleanly
  RepliesInOrder
  NothingUnwanted
PROPERTIES
  ImplementsService
  RequestsEnd
