-------------------------------- MODULE SHA1 --------------------------------
(***************************************************************************)
(* The streaming SHA1 engine of src/util/sha1.c: sha1_init, sha1_update,   *)
(* sha1_finish, as pure operators on a context record.                     *)
(*                                                                         *)
(* Abstraction.  The engine's CONTROL is kept exactly: the byte counter    *)
(* split into a low and a high word with the carry test, the 'left' and    *)
(* 'fill' arithmetic, the three phases of sha1_update (complete the        *)
(* buffered block, consume whole blocks, buffer the tail) and the padding  *)
(* length chosen by sha1_finish.  The DATA is scaled: a block holds        *)
(* BlockSize bytes (64 in the code), a counter word has Width bits (32),   *)
(* and the 64-bit message length that sha1_finish appends is two words,    *)
(* high and low, each occupying one position of the block (two 4-byte     *)
(* words in the code).  The compression function sha1_process is kept     *)
(* uninterpreted: the chaining vector is represented by the sequence of    *)
(* blocks it has absorbed, which determines it.                            *)
(***************************************************************************)
EXTENDS Integers, Sequences, SequencesExt

CONSTANTS
  BlockSize,   \* bytes per compression block (64 in sha1.c)
  Width        \* bits of a counter word t_U32 (32 in sha1.c)

ASSUME BlockSize \in {4, 8, 16, 32, 64}
ASSUME Width \in 4..32 /\ 2^Width >= BlockSize

Garbage == -1        \* an uninitialised byte of the stack context
Pad80   == 128       \* first byte of sha1_padding
Word    == 2^Width   \* modulus of t_U32 arithmetic

(* The byte positions of ctx->buffer. *)
BufIdx == 0 .. BlockSize - 1

(* The block held in the buffer, in byte order. *)
BufferBlock(buf) == [k \in 1 .. BlockSize |-> buf[k - 1]]

(* The whole blocks of a byte sequence whose length is a multiple of *)
(* BlockSize, in order.                                               *)
BlocksOf(s) ==
  [k \in 1 .. Len(s) \div BlockSize |->
     SubSeq(s, (k - 1) * BlockSize + 1, k * BlockSize)]

(* sha1_process (sha1.c 79-246): absorb one block into the chaining vector. *)
(* Kept uninterpreted: the vector is the sequence of blocks absorbed.      *)
sha1_process(vector, block) == Append(vector, block)

(***************************************************************************)
(* sha1_init (sha1.c 54-76): counter cleared, vector set to the IV.  The   *)
(* buffer is not touched: it keeps whatever the context held before.       *)
(***************************************************************************)
sha1_init(ctx) ==
  [ctx EXCEPT !.lo = 0, !.hi = 0, !.vector = << >>]

(* A fresh stack context before sha1_init: every field uninitialised. *)
FreshContext ==
  [lo |-> 0, hi |-> 0, vector |-> << >>, buffer |-> [i \in BufIdx |-> Garbage]]

(***************************************************************************)
(* The mutants below are plausible slips in the lines of sha1_update and   *)
(* sha1_finish that the next three operators translate.                    *)
(***************************************************************************)
CarryNoTest(lo, len) == FALSE
FillsBlockOffByOne(left, len) == left > 0 /\ len > BlockSize - left
TailOffsetNoReset(fills, left) == left
PadCountOffByOne(last) ==
  IF last <= BlockSize - 2 THEN BlockSize - 2 - last ELSE 2 * BlockSize - 2 - last
LengthHighNoHi(lo, hi) == (lo \div 2^(Width - 3)) % Word

(* sha1.c 271-274: the low counter word advances modulo 2^32. *)
NextLo(lo, len) == (lo + len) % Word

(* sha1.c 276: the low word wrapped iff it is now below the chunk length. *)
Carry(lo, len) == lo < len

(* sha1.c 283: buffered bytes exist and the chunk completes their block. *)
FillsBlock(left, len) == left > 0 /\ len >= BlockSize - left

(* sha1.c 301: after the buffered block is processed the buffer is empty, *)
(* so the tail is stored from offset 0; otherwise after the 'left' bytes.  *)
TailOffset(fills, left) == IF fills THEN 0 ELSE left

(* sha1.c 352: zero bytes of padding so that the length field ends the *)
(* block (56 = 64 - 8 and 120 = 128 - 8 in the code).                  *)
PadCount(last) ==
  IF last < BlockSize - 2 THEN BlockSize - 2 - last ELSE 2 * BlockSize - 2 - last

(***************************************************************************)
(* sha1_update (sha1.c 248-324) for a chunk of length >= 1.  The return    *)
(* value -1 for a zero-length chunk is the caller's guard (UpdateRejects). *)
(* The tail is stored at buffer[left + i] with no bound check, so the      *)
(* buffer's domain records a write past its 64 bytes.                      *)
(***************************************************************************)
sha1_update(ctx, chunk) ==
  LET len   == Len(chunk)
      left  == ctx.lo % BlockSize                    \* total_bytes_Lo & 0x3F
      fill  == BlockSize - left
      lo    == NextLo(ctx.lo, len)
      hi    == IF Carry(lo, len) THEN (ctx.hi + 1) % Word ELSE ctx.hi
      fills == FillsBlock(left, len)
      \* phase 1: complete the buffered block and process it
      buf1  == IF fills
                 THEN [i \in BufIdx |-> IF i >= left THEN chunk[i - left + 1]
                                                     ELSE ctx.buffer[i]]
                 ELSE ctx.buffer
      vec1  == IF fills THEN sha1_process(ctx.vector, BufferBlock(buf1)) ELSE ctx.vector
      rest  == IF fills THEN SubSeq(chunk, fill + 1, len) ELSE chunk
      left1 == TailOffset(fills, left)
      \* phase 2: process all remaining whole blocks straight from the chunk
      whole == (Len(rest) \div BlockSize) * BlockSize
      vec2  == FoldLeft(sha1_process, vec1, BlocksOf(SubSeq(rest, 1, whole)))
      \* phase 3: append the remainder to the buffer at offset left
      tail  == SubSeq(rest, whole + 1, Len(rest))
      written == {left1 + k - 1 : k \in 1 .. Len(tail)}
      buf2  == [i \in DOMAIN buf1 \cup written |->
                  IF i \in written THEN tail[i - left1 + 1] ELSE buf1[i]]
  IN [lo |-> lo, hi |-> hi, vector |-> vec2, buffer |-> buf2]

(* sha1.c 256-262: a chunk of length < 1 is rejected, context unchanged. *)
UpdateRejects(chunk) == Len(chunk) < 1

(* sha1_update as called: the context after the call. *)
Update(ctx, chunk) == IF UpdateRejects(chunk) THEN ctx ELSE sha1_update(ctx, chunk)

(***************************************************************************)
(* sha1_finish (sha1.c 326-369): the bit length is taken from the counter  *)
(* words ((Lo >> 29) | (Hi << 3), Lo << 3), padding 0x80 0 .. 0 of length  *)
(* padn is absorbed, then the two length words.  The return values of both *)
(* sha1_update calls are ignored by the code; padn >= 1 always.            *)
(***************************************************************************)
(* sha1.c 343: high word of the bit length, (Lo >> 29) | (Hi << 3). *)
LengthHigh(lo, hi) == (lo \div 2^(Width - 3) + hi * 8) % Word

sha1_finish(ctx) ==
  LET high == LengthHigh(ctx.lo, ctx.hi)
      low  == (ctx.lo * 8) % Word
      padn == PadCount(ctx.lo % BlockSize)
      padding == [k \in 1 .. padn |-> IF k = 1 THEN Pad80 ELSE 0]
  IN Update(Update(ctx, padding), <<high, low>>)

(* The digest is the chaining vector after finishing. *)
Digest(ctx) == ctx.vector

-----------------------------------------------------------------------------
(***************************************************************************)
(* Reference definition (FIPS 180-1 padding, scaled the same way): the     *)
(* message, one 0x80 byte, zero bytes up to two positions before a block   *)
(* boundary, then the bit length modulo 2^(2*Width) as high and low word.  *)
(***************************************************************************)
RefPadded(m) ==
  LET n     == Len(m)
      zeros == CHOOSE z \in 0 .. BlockSize - 1 : (n + 1 + z + 2) % BlockSize = 0
      bits  == (8 * n) % (Word * Word)
  IN m \o <<Pad80>> \o [k \in 1 .. zeros |-> 0] \o <<bits \div Word, bits % Word>>

RefDigest(m) == BlocksOf(RefPadded(m))

=============================================================================
