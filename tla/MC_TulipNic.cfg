\* After ntulip_disable the loader hands the machine to the kernel and the
\* driver is never entered again, so a state with no further step is not
\* an error.
CONSTANTS
  Frames <- MC_Frames
  NRXD <- MC_NRXD
  RxErrors = {FALSE, TRUE}
  MaxArrivals <- MC_MaxArrivals
  MaxSends <- MC_MaxSends
SPECIFICATION Spec
CHECK_DEADLOCK FALSE
INVARIANT TypeOK
INVARIANT RxRingInSync
PROPERTY ImplementsNicRx
