\* A fallback list that fills the table and ends with an entry A does not have.
CONSTANTS
  Files <- MC_Files
  InitialFile = "A"
  Content <- ContentFull
  Missing = {"C"}
  DefaultFile <- MC_DefaultFile
  HasPreset = TRUE
  PresetMenu <- MC_PresetMenu
  Commands = {"kernel"}
  Digit <- MC_Digit
  maxlen = 7
  MAX_FALLBACK_ENTRIES = 3
  CONFIG_FILE_HISTORY_ENTRIES = 4
SPECIFICATION Spec
PROPERTY MenuReached
\* The model stops where the kernel starts or the command line takes over.
CHECK_DEADLOCK FALSE
