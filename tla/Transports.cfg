SPECIFICATION MCSpec
CONSTANTS
  Requests = {r1}
  Notes = {n1}
  SseCapacity = 1
  HandlerCapacity = 1
  AllowStateless = TRUE
  ReinitOnExpired = TRUE
  ProtocolVersions = {v1}
  MaxSessions = 2
  MaxFaults = 2
  None = None
INVARIANT HandledOnce
INVARIANT AnswersHaveAWay
PROPERTY SendsConclude
PROPERTY ChildIsReaped
CHECK_DEADLOCK FALSE
