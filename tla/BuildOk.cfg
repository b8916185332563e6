SPECIFICATION FairSpec
CONSTANTS
  Node = {1, 2, 3, 4, 5, 6}
  None = None
  Worker = {w1, w2}
  Builds <- AllBuilds
INVARIANTS TypeOK RefCounts Accounted NothingLost ReportsAreReal
PROPERTIES Ordered Terminates
CHECK_DEADLOCK FALSE
