\* One hundred modules.
CONSTANTS
  Images <- MCMany_Images
  Hints <- MCNoHint
  Args <- MCS_Args
  MemLower = 640
  MemUpper = 4096
  StaleAddrs <- MC_StaleAddrs
  Scripts <- MCMany_Scripts
  MLL_SIZE = 99
  Cmdlines = {}
SPECIFICATION MCS_Spec
INVARIANT ModuleTableBound
CHECK_DEADLOCK FALSE
