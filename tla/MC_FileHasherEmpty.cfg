CONSTANTS
  Argcs = {2}
  BlockSize <- MC_BlockSize
  Width <- MC_Width
  Chunk <- MC_Chunk
  DataBytes <- MC_DataBytes
  Files <- MCEmpty_Files
  IntBits <- MC_IntBits
SPECIFICATION ToolSpec
CHECK_DEADLOCK FALSE
PROPERTY HashesEveryFile
