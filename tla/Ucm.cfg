SPECIFICATION Spec
CONSTANTS
  tx = 4
  ty = 3
  initial_partition <- const_partition
  Strengths <- const_Strengths
  Unit = 2520
INVARIANTS
  Ultrametric
  AveragesExact
  ContoursClosed
PROPERTIES
  LevelsFinal
CHECK_DEADLOCK FALSE
