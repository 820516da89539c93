\* After pcnet32_disable the driver is never entered again.
CONSTANTS
  Frames <- MC_Frames
  RX_RING_SIZE <- MC_RX_RING_SIZE
  TX_RING_SIZE <- MC_TX_RING_SIZE
  RxErrors <- MC_RxErrors
  MaxArrivals <- MC_MaxArrivals
  MaxSends <- MC_MaxSends
SPECIFICATION Spec
CHECK_DEADLOCK FALSE
PROPERTY ImplementsNicRx
