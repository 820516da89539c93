CONSTANTS
  Contents <- MC_Contents
  HexOf <- MC_HexOf
  FS <- MC_FS
  HashLen <- MC_HashLen
  NameMax <- MC_NameMax
  BufMax <- MC_BufMax
  Chars <- MC_Chars
  Manifests <- MC_Manifests
SPECIFICATION Spec
CHECK_DEADLOCK FALSE
INVARIANT TypeOK
PROPERTY ImplementsMeasurementList
