\* A ramdisk larger than the memory above the kernel.
CONSTANTS
  Images <- MCBigRd_Images
  Hints <- MCNoHint
  Args <- MCS_Args
  MemLower = 640
  MemUpper = 4096
  StaleAddrs <- MC_StaleAddrs
  Scripts <- MCBigRd_Scripts
  MLL_SIZE = 99
  Cmdlines = {}
SPECIFICATION MCS_Spec
INVARIANT InitrdPlaced
CHECK_DEADLOCK FALSE
