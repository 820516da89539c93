\* A module after a kernel whose symbol table was dropped.
CONSTANTS
  Images <- MCZero_Images
  Hints <- MCNoHint
  Args <- MCS_Args
  MemLower = 640
  MemUpper = 4096
  StaleAddrs <- MC_StaleAddrs
  Scripts <- MCZero_Scripts
  MLL_SIZE = 99
  Cmdlines = {}
SPECIFICATION MCS_Spec
INVARIANT ModulesPlaced
CHECK_DEADLOCK FALSE
