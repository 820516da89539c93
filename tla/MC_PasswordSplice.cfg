\* The password splice over short arguments holding the marker text.
CONSTANTS
  Args <- MC_Args
  Passwords <- MC_Passwords
  PwWidth <- MC_PwWidth
  WordWidth = 2
  MAX_ARGS = 10
  maxlen = 1024
SPECIFICATION Spec
INVARIANT TypeOK
INVARIANT PassThrough
INVARIANT MarkersReplaced
CHECK_DEADLOCK FALSE
