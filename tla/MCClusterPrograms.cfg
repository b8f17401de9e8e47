SPECIFICATION Spec
CONSTANTS
  NB_PE = 3
  MASTER_STACK_SIZE = 4
  SLAVE_STACK_SIZE = 2
  PerfEvent = {"cycles", "instr", "active_cycles", "ld_stall"}
  PASSES <- MCPasses
  MAX_WORK = 1
  ITERATIONS = 5
  INCREMENTS = 2
  TASK_PE = 4
INVARIANTS TypeOK OnWhileUsed SavedIsMeasured ShownIsMeasured VarIsTotal FrameOutlivesTasks
PROPERTY MainEnds
