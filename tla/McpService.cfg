SPECIFICATION MCSpec
CONSTANTS
  Calls = {c1, c2}
  Timed = {c1}
  Nested = {c2}
  Reqs = {h1, h2}
  SinkSize = 2
  MaxTalks = 1
  MaxFaults = 1
  None = None
  Versions = {"v1", "v2", "v3"}
  Known = {"v1", "v2"}
  Preferred = "v2"
  MaxNoise = 2
INVARIANT AnswersMatch
PROPERTY HandshakeSettles
PROPERTY CallsEnd
PROPERTY DrainDelivers
CHECK_DEADLOCK FALSE
