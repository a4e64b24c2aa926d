SPECIFICATION Spec
CONSTANTS
  Ledgers = {a, b}
  Digests = {d1, d2, d3, d4}
  None = None
  Garbled = Garbled
  MaxLength = 3
SYMMETRY Symmetry
INVARIANTS OneWriter ChainSurvives AcknowledgedSurvive StatusIsTrue NotedHeadIdentifiesHistory
