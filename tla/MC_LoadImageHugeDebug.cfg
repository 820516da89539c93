\* An ELF kernel with a debug section larger than memory.
CONSTANTS
  Images <- MCHugeDebug_Images
  Hints <- MCNoHint
  Args <- MC_Args
  MemLower = 640
  MemUpper = 4096
  StaleAddrs <- MC_StaleAddrs
  Cmdlines <- MC_Cmdlines
SPECIFICATION BootSpec
INVARIANT DebugSectionsBestEffort
CHECK_DEADLOCK FALSE
