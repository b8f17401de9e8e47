SPECIFICATION Spec
CONSTANTS
  NB_COUNTERS = 2
  HOST_WINDOW = 16
  BUFF_SIZE = 3
  OFFSETS = {0, 2}
  WED_AT = 4
  OUTPUT_AT = 14
INVARIANT PatternComesBack
PROPERTIES HostMemoryKept ImplementsOffload
