CONSTANTS
  MAX_LINE = 6
  MAX_TOKENS = 5
  MAX_TOKEN_LEN = 3
  MAX_ARGS = 3
  MaxTyped = 6
SPECIFICATION Spec
INVARIANTS LineAsEdited ArraysHold HandledAsRead
