SPECIFICATION Spec
CONSTANTS
  NoGraph = NoGraph
  VER <- MCVER
  CHANDEF <- TwoChannels
  Graphs <- FewGraphs
INVARIANTS NoDanglingEdges
CHECK_DEADLOCK FALSE
