---------------------------- MODULE MC_FileHasher ----------------------------
EXTENDS CreateSha1, TLC

\* Blocks of 4 bytes (64), counter words of 4 bits (32).  A buffer of 3
\* bytes is, like 0xEFFF = 959 * 64 + 63, one byte short of a whole number
\* of blocks, so rounds end at every offset within a block.
MC_BlockSize == 4
MC_Width == 4
MC_DataBytes == {1, 2}
MC_Chunk == 3

\* Every non-empty file of up to 7 bytes (two full rounds and a last one),
\* and files of one repeated byte of up to 17 bytes: with 4-bit counter
\* words the byte count wraps at 16, as a 32-bit count does at 4 GiB, so
\* the carry into the high word and the length sha1_finish appends are
\* exercised.  An int of 8 bits holds every size.
MC_Files == (BoundedSeq(MC_DataBytes, 7) \cup BoundedSeq({1}, 17)) \ {<< >>}
MC_IntBits == 8

\* create_sha1 started without and with a file name.
MC_Argcs == {1, 2}

\* The same with the empty file.
MCEmpty_Files == BoundedSeq(MC_DataBytes, 7)

\* Files of one repeated byte of up to 17 bytes and an int of 4 bits: sizes
\* 8 .. 15 are negative ints and sizes 16, 17 wrap to 0, 1, as sizes of
\* 2 GiB and more do with a 32-bit int.
MCWide_DataBytes == {1}
MCWide_Files == BoundedSeq(MCWide_DataBytes, 17)
MCWide_IntBits == 4
=============================================================================
