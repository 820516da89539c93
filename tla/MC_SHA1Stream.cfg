CONSTANTS
  BlockSize <- MC_BlockSize
  Width <- MC_Width
  DataBytes <- MC_DataBytes
  MaxMsg <- MC_MaxMsg
  MaxChunk <- MC_MaxChunk
SPECIFICATION Spec
INVARIANTS
  TypeOK
  StreamInvariant
  DigestMatchesReference
