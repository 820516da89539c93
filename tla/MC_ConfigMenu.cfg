\* Three configuration files, a preset menu, fallback lists shorter than the table.
CONSTANTS
  Files <- MC_Files
  InitialFile = "A"
  Content <- Content2
  Missing = {"C"}
  DefaultFile <- MC_DefaultFile
  HasPreset = TRUE
  PresetMenu <- MC_PresetMenu
  Commands = {"kernel"}
  Digit <- MC_Digit
  maxlen = 7
  MAX_FALLBACK_ENTRIES = 3
  CONFIG_FILE_HISTORY_ENTRIES = 4
SPECIFICATION Spec
INVARIANT TypeOK
INVARIANT LinesAsReference
INVARIANT EntriesMatchConfig
INVARIANT BootEntryValid
PROPERTY HistoryRefinement
PROPERTY MenuReached
\* The model stops where the kernel starts or the command line takes over.
CHECK_DEADLOCK FALSE
