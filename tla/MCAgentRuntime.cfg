SPECIFICATION FairSpec
CONSTANTS
  Tasks = {t1, t2, t3}
  Execs = {x1, x2, x3}
  None = None
  MaxToolCalls = 1
  MaxTracked = 2
  CallBound = 2
  HasTimeout = TRUE
INVARIANTS ReservationCovers   StopIsTerminal
PROPERTIES StoppedEventIsExact StopSettles CustodyEnds
CHECK_DEADLOCK FALSE
