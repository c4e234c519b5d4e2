SPECIFICATION MCSpec
CONSTANTS
  Tasks = {t1, t2}
  Sids = {s1}
  MaxWorkers = 3
  MaxFaults = 1
  None = None
  Ops = {o1, o2}
  Askers = {a1, a2}
  Lookers = {a2}
  MaxPanics = 1
  NoOne = NoOne
INVARIANT NoZombieWorker
INVARIANT NotFoundMeansGone
PROPERTY RequestsEnd
PROPERTY AskersAreAnswered
CHECK_DEADLOCK FALSE
