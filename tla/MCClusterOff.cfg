SPECIFICATION Spec
CONSTANTS
  NB_PE = 8
  MASTER_STACK_SIZE = 4
  SLAVE_STACK_SIZE = 2
INVARIANT OffAtExit
