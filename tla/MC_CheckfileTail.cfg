CONSTANTS
  Contents <- MC_Contents
  HexOf <- MC_HexOf
  FS <- MC_FS
  HashLen <- MC_HashLen
  NameMax <- MC_NameMax
  BufMax <- MC_BufMax
  Chars <- MC_Chars
  Manifests <- MCTail_Manifests
SPECIFICATION Spec
CHECK_DEADLOCK FALSE
PROPERTY ImplementsMeasurementList
