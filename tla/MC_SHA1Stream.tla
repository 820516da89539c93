---------------------------- MODULE MC_SHA1Stream ----------------------------
EXTENDS SHA1Stream

\* Four-byte blocks, 8-bit counter words: no counter wrap, every phase of
\* sha1_update reachable (a chunk of 6 after 3 buffered bytes completes the
\* block, consumes one whole block and buffers one byte).
MC_BlockSize == 4
MC_Width == 8
MC_DataBytes == {1, 2}
MC_MaxMsg == 8
MC_MaxChunk == 6
=============================================================================
