CONSTANTS
  Argcs = {2}
  BlockSize <- MC_BlockSize
  Width <- MC_Width
  Chunk <- MC_Chunk
  DataBytes <- MCWide_DataBytes
  Files <- MCWide_Files
  IntBits <- MCWide_IntBits
SPECIFICATION ToolSpec
CHECK_DEADLOCK FALSE
INVARIANT DigestCorrect
INVARIANT TypeOK
