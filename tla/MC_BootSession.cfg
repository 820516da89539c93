\* Boot entries: a kernel, then modules or a ramdisk.
CONSTANTS
  Images <- MCS_Images
  Hints <- MCNoHint
  Args <- MCS_Args
  MemLower = 640
  MemUpper = 4096
  StaleAddrs <- MC_StaleAddrs
  Scripts <- MCS_Scripts
  MLL_SIZE = 99
  Cmdlines = {}
SPECIFICATION MCS_Spec
INVARIANT ModulesPlaced
INVARIANT InitrdPlaced
CHECK_DEADLOCK FALSE
