CONSTANTS
  MaxStages = 3
  Capacity = 1
  MaxBlocks = 2
SPECIFICATION FairSpec
INVARIANTS EndsAreWhereTheyBelong NoPrematureEof NoPrematureSigpipe
PROPERTIES PipelineEnds
CHECK_DEADLOCK FALSE
