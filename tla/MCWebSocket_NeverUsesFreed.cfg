SPECIFICATION Spec
CONSTANTS
  Streams <- MCStreams
  Sides = {"client"}
  Room = 2
  MemSize = 1
  MaxUnansweredPing = 1
  Reader = reader
  Writers = {w1}
  Waiters = {}
  Placings <- MCOneThread
  NoOne = no_one
  Lost = lost
  Messages = {"small", "large"}
  MaxWrites = 1
INVARIANT NeverUsesFreed
CHECK_DEADLOCK FALSE
