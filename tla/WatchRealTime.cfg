SPECIFICATION WatchSpec
CONSTANTS
  f1 = f1
  f2 = f2
  module = module
  nameless = nameless
  class = class
  sub = sub
  top = top
  File = {f1}
  Project = "/p"
  Absolute = "/p"
  Content = {module, class}
  IdsOf <- MCIdsOf
  NodesOf <- MCNodesOf
  EdgesOf <- MCEdgesOf
  NoContent = NoContent
  ReuseStale = FALSE
  Missing = Missing
  Unreadable = Unreadable
  Dir = {sub, top}
  IncludeDirs = {}
  DirsOf <- MCDirsOf
  MaxChanges = 1
  MaxNoise = 0
CHECK_DEADLOCK FALSE
PROPERTY ChangeReachesIndex
