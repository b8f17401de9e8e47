SPECIFICATION Spec
CONSTANTS
  NB_BUFFERS = 3
  NB_EVENTS  = 3
  MaxDropped = 4
INVARIANTS TypeOK OneHolder NeverStarved OneFlush DoubleBuffered
PROPERTIES NoBufferForgotten ImplementsFrameSlots
