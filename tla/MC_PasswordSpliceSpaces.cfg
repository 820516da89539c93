\* A marker token after two spaces.
CONSTANTS
  Args <- MC_Args
  Passwords <- MC_Passwords
  PwWidth <- MC_PwWidth
  WordWidth = 2
  MAX_ARGS = 10
  maxlen = 1024
SPECIFICATION Spec
INVARIANT SpliceAsSpec
CHECK_DEADLOCK FALSE
