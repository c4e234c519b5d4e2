SPECIFICATION StreamsSpec
CONSTANTS
  Reqs = {r1}
  Capacity = 2
  MaxShadows = 1
  Priming = TRUE
  MaxCommon = 3
  MaxConns = 3
  MaxNotes = 1
  MaxUpsets = 1
PROPERTY SkipsOnlyEvicted
PROPERTY StreamsComeToAnEnd
CHECK_DEADLOCK FALSE
