SPECIFICATION MCSpec
CONSTANTS
  MaxId = 1
  NumNames = 2
  Strings = {s1, s2}
  EdgeType = {contains, defines}
  Unnamed = Unnamed
  Absent = Absent
  NotInterned = NotInterned
  MaxEdges = 2
  MaxCopies = 2
  Writers = {w1, w2}
  RocksIds = {1, 2}
  RocksTypes = {1}
  MaxWrites = 3
INVARIANT EdgesMirrored
INVARIANT StoredNodesAreFound
INVARIANT NoEdgeWithoutSource
PROPERTY ImplementsAbstractGraph
CHECK_DEADLOCK FALSE
