SPECIFICATION Spec
CONSTANTS
  Names = {task, internal}
  Internal = internal
  Listeners = {l1}
  Wraps = {w1, w2}
  Nobody = Nobody
  MaxListeners = 2
  HasObserver = TRUE
  MaxDepth = 3
SYMMETRY Symmetry
INVARIANTS OnceFiresOnce EveryoneHears ReportsDoNotRecurse
