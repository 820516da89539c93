\* A ten-character password, and a module argument of eleven words.
CONSTANTS
  Args <- MCOverflow_Args
  Passwords <- MC_Passwords
  PwWidth <- MCLong_PwWidth
  WordWidth = 2
  MAX_ARGS = 10
  maxlen = 1024
SPECIFICATION Spec
INVARIANT CmdlineBuffersFit
INVARIANT FindArgsFit
CHECK_DEADLOCK FALSE
