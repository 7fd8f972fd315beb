SPECIFICATION Spec
CONSTANTS
  Workloads <- MCWorkloads
  BufSize = 4
  MaxRead = 3
  EnableKeepAlive = TRUE
INVARIANT AlwaysInSync
CHECK_DEADLOCK FALSE
