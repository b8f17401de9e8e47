SPECIFICATION Spec
CONSTANTS
  BUFFER_SIZE = 256
  WIRE = 3
  NB_CAPTURES = 10
  NB_EVENTS = 8
  LINES = 244
  WAIT_TIME = 1200
  SLACK = 3
  NB_TICKS = 20
  BOOT_EVENTS = 1
  MAX_TICKS = 24
  NB_EDGE = 100
  MAX_EDGES = 104
  FILE_BUFFER = 6
  FILE_LENGTH = 5
  WIDTH = 160
  HEIGHT = 120
  SIDE = 16
  NB_COUNTERS = 1
  SPY_SHIFT = 2
  SPY_LIMIT = 32
  NB_ITER = 2
  LEN_ITER = 2
  WORD_BITS = 3
  VALUES <- MCValues
INVARIANTS TypeOK NothingLost WholeFrames OneShotExact InBounds DumpsEveryPoint ResultsAreRight
PROPERTIES EdgeWakesUp EndIsSeen MainEnds
