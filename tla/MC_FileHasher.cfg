CONSTANTS
  Argcs <- MC_Argcs
  BlockSize <- MC_BlockSize
  Width <- MC_Width
  Chunk <- MC_Chunk
  DataBytes <- MC_DataBytes
  Files <- MC_Files
  IntBits <- MC_IntBits
SPECIFICATION ToolSpec
CHECK_DEADLOCK FALSE
INVARIANT TypeOK
INVARIANT DigestCorrect
INVARIANT PrintsDigestOfFile
