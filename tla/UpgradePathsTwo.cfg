SPECIFICATION Spec
CONSTANTS
  NoGraph = NoGraph
  VER <- MCVER
  CHANDEF <- TwoChannels
  Graphs <- ManyGraphs
INVARIANTS TypeOK StatusTells PathsDrawn ColorsTell FirstDrawingExact NoDuplicates
CHECK_DEADLOCK FALSE
