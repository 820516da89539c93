\* The same files: is measurement back on when the configuration file is read?
CONSTANTS
  Files <- MC_Files
  InitialFile = "A"
  Content <- Content2
  Missing = {"C"}
  DefaultFile <- MC_DefaultFile
  HasPreset = TRUE
  PresetMenu <- MC_PresetMenu
  Commands = {"kernel"}
  Digit <- MC_Digit
  maxlen = 7
  MAX_FALLBACK_ENTRIES = 3
  CONFIG_FILE_HISTORY_ENTRIES = 4
SPECIFICATION Spec
INVARIANT MeasurementRestored
\* The model stops where the kernel starts or the command line takes over.
CHECK_DEADLOCK FALSE
