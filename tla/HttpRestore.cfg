SPECIFICATION Spec
CONSTANTS
  Tasks = {t1, t2}
  Sids = {s1}
  MaxWorkers = 3
  MaxFaults = 0
  None = None
INVARIANT AlreadyPresentImpossible
CHECK_DEADLOCK FALSE
