SPECIFICATION Spec
CONSTANTS
  Runners = {r1, r2}
  Tasks = {t1}
  Calls = {c1, c2}
  Recs = {q1, q2}
  Gens = {g1, g2}
  None = None
  Legacy = Legacy
  Reserving = FALSE
  HasTimeout = TRUE
  OwnerEnded = TRUE
SYMMETRY Symmetry
INVARIANTS Fence UnrecordedEffectFenced
PROPERTIES ClaimsLeaveByName LegacyStays ImplementsTaskEffects
