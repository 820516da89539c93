\* An ELF kernel whose file ends inside its loadable segment.
CONSTANTS
  Images <- MCTruncated_Images
  Hints <- MCNoHint
  Args <- MC_Args
  MemLower = 640
  MemUpper = 4096
  StaleAddrs <- MC_StaleAddrs
  Cmdlines <- MC_Cmdlines
SPECIFICATION BootSpec
INVARIANT ImageComplete
CHECK_DEADLOCK FALSE
