SPECIFICATION Spec
CONSTANTS
  NB_COUNTERS = 2
  BUFF_SIZE = 2
INVARIANT PatternComesBack
