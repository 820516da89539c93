----------------------------- MODULE FileHasher -----------------------------
(***************************************************************************)
(* calculate_sha1 of the host tools (src/util/sha1.c 381-467), used by    *)
(* create_sha1 and verify_pcr: open the file, take its size from stat into *)
(* an int, feed TCG_BUFFER_SIZE-byte rounds through sha1_update while more *)
(* than a buffer is left, then the rest, then sha1_finish.                 *)
(*                                                                         *)
(* The file is a sequence of bytes; read() copies from the file offset    *)
(* into tcgbuffer and its return value is not used by the code.  The int   *)
(* filesize keeps IntBits bits (32 in the build) with two's-complement     *)
(* wrap, and a negative count passed to read() becomes a huge size_t.      *)
(***************************************************************************)
EXTENDS SHA1

CONSTANTS
  DataBytes,  \* byte values a file may hold
  Files,      \* the files hashed
  Chunk,      \* TCG_BUFFER_SIZE (0xEFFF)
  IntBits     \* bits of an int

ASSUME Chunk \in Nat \ {0} /\ IntBits \in Nat \ {0}

VARIABLES
  file,       \* the bytes of the file
  readable,   \* open(filename, O_RDONLY) succeeds
  offset,     \* the file offset of fd1
  tcgbuffer,  \* the malloc'd buffer: index -> byte
  bytes,      \* bytes_to_copy
  ctx,        \* my_sha1_context
  pc,         \* control point
  ret         \* return value

vars == <<file, readable, offset, tcgbuffer, bytes, ctx, pc, ret>>

(* int filesize = attribute.st_size: the size modulo 2^IntBits, signed. *)
IntOf(n) ==
  LET m == n % 2^IntBits IN IF m >= 2^(IntBits - 1) THEN m - 2^IntBits ELSE m

(* read(fd1, tcgbuffer, n): n is a size_t, so a negative int asks for more *)
(* than any file holds; the bytes available are copied from index 0.      *)
ReadInto(buf, n) ==
  LET got == IF n < 0 THEN Len(file) - offset
             ELSE IF n < Len(file) - offset THEN n ELSE Len(file) - offset
      written == 0 .. got - 1
  IN [b |-> [i \in DOMAIN buf \cup written |->
               IF i \in written THEN file[offset + i + 1] ELSE buf[i]],
      got |-> got]

(* The first n bytes from tcgbuffer as the chunk given to sha1_update; *)
(* past what was written it reads whatever the heap holds.            *)
BufferPrefix(buf, n) == [k \in 1 .. n |-> IF k - 1 \in DOMAIN buf THEN buf[k - 1] ELSE Garbage]

(* memset(tcgbuffer, 0, TCG_BUFFER_SIZE) *)
Cleared(buf) == [i \in DOMAIN buf |-> IF i < Chunk THEN 0 ELSE buf[i]]

(* The mutants below are plausible slips in the lines the next two *)
(* operators translate.                                             *)
MoreRoundsOffByOne(b) == b > Chunk + 1
LastLengthFull(b) == Chunk

(* sha1.c 430: another whole buffer is hashed while more than one is left. *)
MoreRounds(b) == b > Chunk

(* sha1.c 453: the int bytes_to_copy passed as sha1_update's t_U32 length *)
(* (Width bits): a negative count becomes a large length.                *)
LastLength(b) == b % 2^Width

Init ==
  /\ file \in Files
  /\ readable \in BOOLEAN
  /\ offset = 0
  /\ tcgbuffer = [i \in 0 .. Chunk - 1 |-> Garbage]
  /\ bytes = 0
  /\ ctx = FreshContext
  /\ pc = "open"
  /\ ret = 0

(* sha1.c 394-428: open, stat, sha1_init (which cannot fail), size to   *)
(* bytes_to_copy, clear the buffer.                                     *)
Open ==
  /\ pc = "open"
  /\ IF ~readable
       THEN /\ ret' = -1
            /\ pc' = "done"
            /\ UNCHANGED <<tcgbuffer, bytes, ctx>>
       ELSE /\ ctx' = sha1_init(ctx)
            /\ bytes' = IntOf(Len(file))
            /\ tcgbuffer' = Cleared(tcgbuffer)
            /\ pc' = "loop"
            /\ UNCHANGED ret
  /\ UNCHANGED <<file, readable, offset>>

(* sha1.c 430-446: one whole round; the buffer is not cleared between    *)
(* rounds and sha1_update of TCG_BUFFER_SIZE >= 1 bytes cannot fail.     *)
WholeRound ==
  /\ pc = "loop"
  /\ MoreRounds(bytes)
  /\ LET r == ReadInto(tcgbuffer, Chunk) IN
       /\ tcgbuffer' = r.b
       /\ offset' = offset + r.got
       /\ ctx' = Update(ctx, BufferPrefix(r.b, Chunk))
  /\ bytes' = bytes - Chunk
  /\ UNCHANGED <<file, readable, pc, ret>>

(* sha1.c 451-459: clear, read the rest, hash it; a zero length is   *)
(* refused by sha1_update and the function returns -1.              *)
LastRound ==
  /\ pc = "loop"
  /\ ~MoreRounds(bytes)
  /\ LET r == ReadInto(Cleared(tcgbuffer), bytes)
         n == LastLength(bytes)
     IN /\ tcgbuffer' = r.b
        /\ offset' = offset + r.got
        /\ IF UpdateRejects(BufferPrefix(r.b, n))
             THEN /\ ret' = -1
                  /\ pc' = "done"
                  /\ UNCHANGED ctx
             ELSE /\ ctx' = sha1_update(ctx, BufferPrefix(r.b, n))
                  /\ pc' = "finish"
                  /\ UNCHANGED ret
  /\ UNCHANGED <<file, readable, bytes>>

(* sha1.c 461-466: close, free, sha1_finish (which returns 0). *)
Finish ==
  /\ pc = "finish"
  /\ ctx' = sha1_finish(ctx)
  /\ pc' = "done"
  /\ UNCHANGED <<file, readable, offset, tcgbuffer, bytes, ret>>

Next == Open \/ WholeRound \/ LastRound \/ Finish

(* A host process runs the function to completion. *)
Spec == Init /\ [][Next]_vars /\ WF_vars(Next)

-----------------------------------------------------------------------------
(* Types; tcgbuffer keeps its TCG_BUFFER_SIZE bytes: no read writes past it. *)
TypeOK ==
  /\ pc \in {"open", "loop", "finish", "done"}
  /\ ret \in {-1, 0}
  /\ offset \in 0 .. Len(file)
  /\ tcgbuffer \in [0 .. Chunk - 1 -> DataBytes \cup {0, Garbage}]

(***************************************************************************)
(* When calculate_sha1 reports success the digest is SHA1 of the whole     *)
(* file, however its size splits into TCG_BUFFER_SIZE rounds (spec 4.5).   *)
(***************************************************************************)
DigestCorrect ==
  pc = "done" /\ ret = 0 => Digest(ctx) = RefDigest(file)

(***************************************************************************)
(* Every readable file is hashed: calculate_sha1 eventually returns 0      *)
(* (spec 4.5: the final partial chunk, possibly empty, is processed).      *)
(***************************************************************************)
HashesEveryFile ==
  readable => <>(pc = "done" /\ ret = 0)

=============================================================================
