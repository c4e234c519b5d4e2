SPECIFICATION MCSpec
CONSTANTS
  Constructs <- ConstructsOfEachShape
  MaxIds = 5
  f1 = f1
  f2 = f2
  module = module
  nameless = nameless
  class = class
  sub = sub
  top = top
  File = {f1, f2}
  Project = "/p"
  Absolute = "/p"
  Content = {module, nameless, class}
  IdsOf <- MCIdsOf
  NodesOf <- MCNodesOf
  EdgesOf <- MCEdgesOf
  NoContent = NoContent
  ReuseStale = TRUE
  Missing = Missing
  Unreadable = Unreadable
  Dir = {sub, top}
  IncludeDirs = {sub}
  DirsOf <- MCDirsOf
  MaxChanges = 3
  MaxNoise = 1
INVARIANT GraphIsForest
INVARIANT WalksAreExact
INVARIANT LinksLeadToNodes
INVARIANT ToolsAgree
INVARIANT GraphIsUnionOfFiles
INVARIANT MetadataAgrees
INVARIANT NoChangeLost
PROPERTY DueIsFlushedByNextEvent
CHECK_DEADLOCK FALSE
