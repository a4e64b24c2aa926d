SPECIFICATION FairSpec
CONSTANTS
  Tasks = {t1, t2}
  Gens = {g1, g2}
  None = None
  Legacy = Legacy
  Procs = {p1, p2}
  Ops = {o1, o2}
  Stale = Stale
PROPERTIES ImplementsTaskClaimStore AnswersTruthful OperationsSettle
