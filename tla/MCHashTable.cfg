SPECIFICATION Spec
CONSTANTS
  a = a  b = b  c = c  d = d  v1 = v1  v2 = v2  null = null  empty = empty  gone = gone
  Keys = {a, b, c, d}
  Values = {v1, v2}
  Hash <- MCHash
  InitialCapacity = 3
  GrowthFactor = 4
  Kinds = {"string", "object", "map"}
  None = null
  Empty = empty
  Tombstone = gone
INVARIANTS
  TypeOK
  SizeCounts
  Reachable
  GrowsWithoutTombstones
  StringsSafe
PROPERTY IsDictionary
SYMMETRY MCSymmetry
CHECK_DEADLOCK FALSE
