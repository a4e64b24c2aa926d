SPECIFICATION Levels
CONSTANTS
  w1 = w1
  w2 = w2
  r1 = r1
  r2 = r2
  i1 = i1
  i2 = i2
  USD = USD
  m1 = m1
  Tasks = {t1, t2}
  Execs = {x1, x2}
  None = None
  MaxToolCalls = 2
  MaxTracked = 1
  CallBound = 3
  Precision = 8
  Decimals = 2
  MaxStroops = 4095
  Malformed = Malformed
  Undefined = Undefined
  Blank = Blank
  XLM = XLM
  Codes = {XLM, USD}
  Accounts = {i1, i2}
  Memos = {m1, m0}
  EmptyMemo = m0
  Objects = {o1, o2}
  Payloads <- SamplePayloads
  Amounts <- SampleAmounts
  Prototypes <- SamplePrototypes
  Missing = Missing
  Opaque = Opaque
  Rules <- SampleRules
SYMMETRY Symmetry
INVARIANTS FractionsAreNotRounded
