\* ntulip_transmit's time-out against a late transmit: TxFramesIntact.
CONSTANTS
  Frames <- MC_Frames
  NRXD <- MC_NRXD
  RxErrors <- MCClean_RxErrors
  MaxArrivals = 0
  MaxSends <- MC_MaxSends
SPECIFICATION Spec
CHECK_DEADLOCK FALSE
INVARIANT TxFramesIntact
