\* bsd_boot's flags against the option words of the command line: a "-"
\* inside a word (k s-s) also starts an option, so RB_SINGLE is set.
CONSTANTS
  Images <- MC_Images
  Hints <- MC_Hints
  Args <- MC_Args
  MemLower = 640
  MemUpper = 4096
  StaleAddrs <- MC_StaleAddrs
  Cmdlines <- MC_Cmdlines
SPECIFICATION BootSpec
PROPERTY OnlyOptionsSet
CHECK_DEADLOCK FALSE
