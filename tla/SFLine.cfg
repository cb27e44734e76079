CONSTANTS
  MaxLexed = 5
  MAX_TOKENS = 5
  MAX_COMMANDS = 2
  MAX_ARGS = 3
  SLACK = 5
  MaxLength = 2
  Failures = 1
  MaxLost = 0
  Environment <- MCEnvironment
  Capacity = 2
  MaxExpanded = 5
  NULL = NULL
SPECIFICATION MCSpec
INVARIANTS TypeOK OneOwner RefusesMalformed RunsAsWritten LexesAsRead ExpandsAsRead BufferHoldsText JobTextFits
PROPERTIES LineEnds
CHECK_DEADLOCK FALSE
