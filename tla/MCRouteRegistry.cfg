SPECIFICATION Spec
CONSTANTS
  h1 = h1  h2 = h2  c1 = c1  c2 = c2  c3 = c3  site = site  host = host  k1 = k1  null = null
  Types = {"auth", "request"}
  Uris = {"/a", "/a/b", "/**"}
  Keys <- MCKeys
  Asked = {"/a/b"}
  Beneath <- MCBeneath
  Globs <- MCGlobs
  Handlers = {h1, h2}
  Cells = {c1, c2, c3}
  Domains = {site}
  Conns = {k1}
  MainHost = host
  None = null
INVARIANTS
  ChainIntact
  TypeOK
  ProtectedIsChecked
PROPERTIES
  ImplementsTable
  ExactRouteWins
  DomainAnswersAlike
SYMMETRY MCSymmetry
CHECK_DEADLOCK FALSE
