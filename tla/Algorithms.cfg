SPECIFICATION MCSpec
CONSTANTS
  File = {"main", "inc", "locked"}
  Main = "main"
  Unreadable = {"locked"}
  Unresolved = "nowhere"
  Macro = {"A"}
  MaxLines = 4
  Pass1Macro = {"A", "B"}
  Pass1Lines = 6
  MaxNode = 5
  EdgeType = {"Contains", "Defines", "Drives"}
  MayMiss = {2}
  MaxTargets = 2
  MaxPattern = 4
  MaxText = 3
  Alphabet = {"nl", "slash", "star", "quote", "escape", "digit", "letter"}
  MaxChars = 5
  Header <- MCHeader
  MaxHeaders = 1
  MaxServers = 2
  MaxBytes = 5
  Limits = {0, 1, 2}
  AllowedHosts <- MCAllowedHosts
  HostHeader <- MCHostHeader
  AllowedOrigins <- MCAllowedOrigins
  OriginHeader <- MCOriginHeader
  Bodies <- MCBodies
  MaxLine = 3
  MaxCall = 5
  Table <- MCTable
  Shorter <- MCShorter
  OtherMacro = "print"
  SourceLines = 2
  MaxOnLine = 2
  ToolName = {"t1", "t2"}
  Version = {"v1", "v2"}
  MaxNotices = 2
  Scopes = {a}
  Tasks = {t1, t2}
  MaxAttempts = 1
  MaxFlows = 2
  MaxTokens = 3
  AuthFaults = 1
  Nothing = Nothing
  Advertised <- MCAdvertised
INVARIANT BranchesAreExclusive
INVARIANT PlainChainsAreExact
INVARIANT ImpactIsExact
INVARIANT GlobIsExact
INVARIANT DecodedWhereTheyStand
INVARIANT DiscoveryFindsFirst
INVARIANT MethodIsOffered
INVARIANT LinesAreFrames
INVARIANT RefusalsLeaveNothing
INVARIANT CallsAreExpanded
INVARIANT CallsBecomeCode
INVARIANT ListIsCurrent
INVARIANT StateIsSpent
INVARIANT StoreIsCurrent
CHECK_DEADLOCK FALSE
