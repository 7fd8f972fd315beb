SPECIFICATION FairSpec
CONSTANTS
  Workloads <- MCWorkloads
  BufSize = 4
  MaxRead = 3
  EnableKeepAlive = TRUE
INVARIANTS
  TypeOK
  BufferContiguous
  BodyWithinMessage
  FirstBodyExact
  ServedInOrder
PROPERTIES
  NothingAfterMustClose
  HandlesPipeline
  Terminates
CHECK_DEADLOCK FALSE
