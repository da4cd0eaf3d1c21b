SPECIFICATION Spec
CONSTANTS
  Frame = {f1, f2}
  Damaged = Damaged
  None = None
  RX_N = 3
  TX_N = 3
CHECK_DEADLOCK FALSE
INVARIANT FrameIntact
PROPERTY RxQueueSpec
