SPECIFICATION Spec
CONSTANTS
  NB_COUNTERS = 1
  HOST_WINDOW = 14
  OFFSETS = {0, 1}
  SHIFTS = {2, 3}
  LIMITS = {0, 5}
  WED_AT = 1
  OUTPUT_AT = 7
  PATTERN_SIZE = 3
  PATTERNS <- MCPatterns
  CHUNKS <- MCChunks
INVARIANT AnswerIsRight
PROPERTY ImplementsOffload
