SPECIFICATION Stores
CONSTANTS
  p1 = p1
  p2 = p2
  Agents = {a1, a2}
  Ids = {i1, i2, i3, i4, i5}
  MaxEntries = 3
  MaxEntriesPerAgent = 2
  None = None
  Procs = {p1, p2}
  LimitsOf <- TwoLimits
  Ops = {o1, o2}
  Stale = Stale
  AgentIds = {g1, g2, g3}
  StateKeys = {k1, k2, k3}
  MaxInstances = 2
  MaxStateEntries = 2
  MaxLogEntries = 1
  Severities = {0, 1}
  MinSeverity = 1
  Insertions = 5
SYMMETRY Symmetry
INVARIANTS AppendsAnswerTruly KeptUntilCrowdedOut
PROPERTIES ImplementsMemoryLog
