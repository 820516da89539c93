----------------------------- MODULE SHA1Stream -----------------------------
(***************************************************************************)
(* A caller of the SHA1 engine that hashes a message delivered in chunks   *)
(* of any size, then finishes, then reuses the same context for the next   *)
(* message as verify_pcr.c does (sha1_init on a used context, 129-131).    *)
(* The history variable msg records the bytes the engine has accepted.     *)
(***************************************************************************)
EXTENDS SHA1

CONSTANTS
  DataBytes,   \* byte values a message may contain
  MaxMsg,      \* longest message hashed
  MaxChunk     \* longest chunk passed to one sha1_update

ASSUME DataBytes \subseteq 0 .. 255 /\ DataBytes # {}
ASSUME MaxMsg \in Nat /\ MaxChunk \in Nat \ {0}

VARIABLES
  ctx,     \* the sha1_context
  msg,     \* history: bytes accepted since the last sha1_init
  phase,   \* "absorbing" between sha1_init and sha1_finish, then "finished"
  ret      \* return value of the last sha1_update

vars == <<ctx, msg, phase, ret>>

Init ==
  /\ ctx = sha1_init(FreshContext)
  /\ msg = << >>
  /\ phase = "absorbing"
  /\ ret = 0

(* One sha1_update call with a chunk of 0 .. MaxChunk bytes. *)
UpdateChunk ==
  /\ phase = "absorbing"
  /\ \E chunk \in BoundedSeq(DataBytes, MaxChunk) :
       /\ Len(msg) + Len(chunk) <= MaxMsg
       /\ ctx' = Update(ctx, chunk)
       /\ msg' = msg \o chunk
       /\ ret' = IF UpdateRejects(chunk) THEN -1 ELSE 0
  /\ UNCHANGED phase

Finish ==
  /\ phase = "absorbing"
  /\ ctx' = sha1_finish(ctx)
  /\ phase' = "finished"
  /\ UNCHANGED <<msg, ret>>

(* sha1_init on the context of the previous hash: the buffer is stale. *)
Reinit ==
  /\ phase = "finished"
  /\ ctx' = sha1_init(ctx)
  /\ msg' = << >>
  /\ phase' = "absorbing"
  /\ ret' = 0

Next == UpdateChunk \/ Finish \/ Reinit

Spec == Init /\ [][Next]_vars

-----------------------------------------------------------------------------
TypeOK ==
  /\ ctx.lo \in 0 .. Word - 1 /\ ctx.hi \in 0 .. Word - 1
  /\ ctx.vector \in Seq(Seq(Int))
  /\ ctx.buffer \in [BufIdx -> Int]
  /\ msg \in BoundedSeq(DataBytes, MaxMsg)
  /\ phase \in {"absorbing", "finished"}
  /\ ret \in {0, -1}

(***************************************************************************)
(* The data-model invariant of the SHA1 context (sha1_update): between     *)
(* calls, the high and low counter words hold the number of bytes accepted *)
(* since sha1_init, the processed blocks are exactly the accepted bytes    *)
(* but the last (count mod BlockSize), and those are the first bytes of    *)
(* the buffer -- whatever chunk sizes delivered them, and whatever a       *)
(* previous hash left in the buffer.                                       *)
(***************************************************************************)
StreamInvariant ==
  phase = "absorbing" =>
    LET left == ctx.lo % BlockSize
    IN /\ ctx.hi * Word + ctx.lo = Len(msg)
       /\ FlattenSeq(ctx.vector) \o [k \in 1 .. left |-> ctx.buffer[k - 1]] = msg

(***************************************************************************)
(* sha1_finish yields the FIPS-180 digest of the accepted bytes: the       *)
(* blocks absorbed equal the reference padding of the message, for every   *)
(* chunking of it (spec section 8: digest independent of chunk sizes).     *)
(***************************************************************************)
DigestMatchesReference ==
  phase = "finished" => Digest(ctx) = RefDigest(msg)

=============================================================================
