SPECIFICATION Levels
CONSTANTS
  p1 = p1
  p2 = p2
  r1 = r1
  k1 = k1
  Slots = {x1, x2}
  Objects = {p1, p2}
  Digests = {d1, d2}
  Unsupported = Unsupported
  Keys = {k1, k2}
  Grants = {g1, g2}
  None = None
  Durable = TRUE
  Procs = {p1, p2}
  Runtimes = {r1}
  RuntimeOf <- SameRuntime
  Ops = {x1, x2}
  Stale = Stale
  Times <- Instants
SYMMETRY Symmetry
INVARIANTS OneUse  RevokedStaysUnused FileStaysReadable
PROPERTIES ImplementsApprovalStore AnswersAreTheirOwn
