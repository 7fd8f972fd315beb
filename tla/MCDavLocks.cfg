SPECIFICATION Spec
CONSTANTS
  u1 = u1  u2 = u2  p1 = p1  p2 = p2  c1 = c1  c2 = c2  null = null
  Users = {u1, u2}
  Paths = {p1, p2}
  NumLocks = 2
  Duration = 1
  MaxTime = 3
  Conns = {c1, c2}
  None = null
INVARIANTS
  TypeOK
  OneOwner
PROPERTIES
  ValidLockStays
  ImplementsService
SYMMETRY MCSymmetry
