CONSTANTS
  PcrLen <- MC_PcrLen
  Args1 <- MC_Args1
  Paths <- MC_Paths
  Disk <- MC_Disk
  MaxFiles <- MC_MaxFiles
SPECIFICATION Spec
CHECK_DEADLOCK FALSE
INVARIANT PredictsRegister
