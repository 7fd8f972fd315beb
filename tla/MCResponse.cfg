SPECIFICATION FairSpec
CONSTANTS
  Throttles <- MCThrottles
  FileSize = 2
  FileBuf = 1
  MaxPosition = 2
  MaxWrite = 2
  MaxCalls = 3
  MaxRequests = 2
INVARIANTS
  TypeOK
  HeadInOrder
  ChunksWhole
  ThrottleDelaysOnly
  SlicesJoin
PROPERTIES
  LengthDelivered
  CallsReturn
CHECK_DEADLOCK FALSE
