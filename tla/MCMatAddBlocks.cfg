SPECIFICATION Spec
CONSTANTS
  NB_COUNTERS = 3
  TILES = 6
  TILE_ROWS = 2
  LAST_ROWS = 1
  MAT_W = 3
  NB_PE = 2
  NB_ITER = 1
  USE_TLM_MEM = FALSE
INVARIANT RowsInBlocks
