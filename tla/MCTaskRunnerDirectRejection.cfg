SPECIFICATION Spec
CONSTANTS
  Runners = {r1}
  Tasks = {t1}
  Calls = {c1, c2}
  Recs = {q1}
  Gens = {g1, g2}
  None = None
  Legacy = Legacy
  Reserving = FALSE
  HasTimeout = TRUE
  OwnerEnded = TRUE
INVARIANTS TombstonesJustified
