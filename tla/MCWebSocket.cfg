SPECIFICATION FairSpec
CONSTANTS
  Streams <- MCStreams
  Sides = {"server", "client"}
  Room = 2
  MemSize = 1
  MaxUnansweredPing = 1
  Reader = reader
  Writers = {w1}
  Waiters = {c1, c2}
  Placings <- MCPlacings
  NoOne = no_one
  Lost = lost
  Messages = {"small", "large"}
  MaxWrites = 1
INVARIANTS
  TypeOK
  QueueAtFrame
  FramesUnmixed
  MutexInUse
  PingsBounded
  WaitMeansMessage
PROPERTIES
  DeliversChannel
  SilentPeerDropped
  CloseEndsLoop
CHECK_DEADLOCK FALSE
