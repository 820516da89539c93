\* A Multiboot kludge image whose bss end lies past upper memory.
CONSTANTS
  Images <- MCBss_Images
  Hints <- MCNoHint
  Args <- MC_Args
  MemLower = 640
  MemUpper = 4096
  StaleAddrs <- MC_StaleAddrs
  Cmdlines <- MC_Cmdlines
SPECIFICATION BootSpec
INVARIANT PlacedInUpperMemory
CHECK_DEADLOCK FALSE
