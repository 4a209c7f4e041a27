CONSTANTS
  Services <- MCServices
  TestEdges <- MCEdges
  TestCalls <- MCCalls
SPECIFICATION Spec
INVARIANTS
  AffectedIsReach
  CountedOnce
  TreeIsTheGraph
  CyclesReal
  CyclesBreakAll
  PathShortest
  NoPathIsNone
PROPERTY Termination
CHECK_DEADLOCK FALSE
