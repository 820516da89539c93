\* An ELF kernel whose section-header table is cut off by the end of the file.
CONSTANTS
  Images <- MCShdrCut_Images
  Hints <- MCNoHint
  Args <- MC_Args
  MemLower = 640
  MemUpper = 4096
  StaleAddrs <- MC_StaleAddrs
  Cmdlines <- MC_Cmdlines
SPECIFICATION BootSpec
INVARIANT CursorAboveImage
CHECK_DEADLOCK FALSE
