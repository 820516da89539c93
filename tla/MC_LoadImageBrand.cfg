\* An ELF kernel branded FreeBSD only by its brand string, without a hint.
CONSTANTS
  Images <- MCBrand_Images
  Hints <- MCNoHint
  Args <- MC_Args
  MemLower = 640
  MemUpper = 4096
  StaleAddrs <- MC_StaleAddrs
  Cmdlines <- MC_Cmdlines
SPECIFICATION BootSpec
INVARIANT ClassifiedAsSpec
CHECK_DEADLOCK FALSE
