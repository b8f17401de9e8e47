SPECIFICATION OffloadSpec
CONSTANTS
  NB_COUNTERS = 3
  TILES = 6
  TILE_ROWS = 2
  LAST_ROWS = 1
  MAT_W = 6
  NB_PE = 4
  NB_ITER = 2
  USE_TLM_MEM = TRUE
INVARIANTS HalvesApart NoDmaRace SumOnReturn TransfersInPlace
PROPERTY HostEnds
