\* A bzImage file shorter than its setup sectors.
CONSTANTS
  Images <- MCSetup_Images
  Hints <- MCNoHint
  Args <- MC_Args
  MemLower = 640
  MemUpper = 4096
  StaleAddrs <- MC_StaleAddrs
  Cmdlines <- MC_Cmdlines
SPECIFICATION BootSpec
INVARIANT PlacedInUpperMemory
CHECK_DEADLOCK FALSE
