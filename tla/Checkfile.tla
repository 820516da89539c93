------------------------------ MODULE Checkfile ------------------------------
(***************************************************************************)
(* load_checkfile (src/stage2/boot.c 120-298) with the PCR extension it    *)
(* calls, update_pcr (boot.c 37-108).                                      *)
(*                                                                         *)
(* The manifest is parsed byte by byte exactly as the code does: HashLen   *)
(* characters are copied without looking at the manifest length, the next *)
(* byte must be a space, then path bytes are copied up to a newline with   *)
(* the length check after each byte.  A byte at or beyond max_length is    *)
(* read from the uninitialised part of the stack array check_file_data:    *)
(* any character.  The file named by a record is hashed by the stage2      *)
(* calculate_sha1 (not under src/): FS gives its content, whose digest's   *)
(* hex rendering is HexOf.  PCR 13 is the sequence of digests extended     *)
(* into it.  perform_sha1 and old_perform_sha1_value are the globals that  *)
(* switch grub_read's own measurement off while the command runs.          *)
(***************************************************************************)
EXTENDS Integers, Sequences, SequencesExt

CONSTANTS
  Contents, HexOf, FS, HashLen, NameMax, BufMax,
  Manifests,     \* the checkfiles to try
  Chars          \* every character a manifest or the stack may hold

ASSUME HashLen \in Nat \ {0} /\ NameMax \in Nat \ {0} /\ BufMax \in Nat

PCR_CHECKFILE == 13

VARIABLES
  data,          \* check_file_data[0 .. max_length-1], the manifest
  exists,        \* grub_open(checkfile) succeeds
  tpm,           \* a TPM answered at boot (tpm_present() = 0)
  pc,            \* control point of load_checkfile
  curr,          \* curr_length
  hashIn,        \* hash_input_buf
  name,          \* file_name_buf[0 .. i-1]
  generalError,  \* general_error
  pcr13,         \* digests extended into PCR 13, in order
  perform_sha1, old_perform_sha1_value,
  ret,           \* return value of load_checkfile
  entrySha1,     \* history: perform_sha1 when the command was entered
  doneRecs       \* history: records whose hash was compared

vars == <<data, exists, tpm, pc, curr, hashIn, name, generalError, pcr13,
          perform_sha1, old_perform_sha1_value, ret, entrySha1, doneRecs>>

(* tpm_present(): 0 when a TPM answered, 0xbb00 otherwise (stage2.c 1256). *)
tpm_present == IF tpm THEN 0 ELSE 47872

(* The n bytes from offset k that check_file_data may hold. *)
Readings(k, n) ==
  { [i \in 1 .. n |-> IF k + i <= Len(data) THEN data[k + i] ELSE g[i]] :
      g \in [1 .. n -> Chars] }

(* The mutants below are plausible slips in the lines the next operators *)
(* translate.                                                             *)
ExtendGateInverted(present) == present # 0
NameTooLongOffByOne(i) == i > NameMax + 1

(* boot.c 275: the PCR is extended when !tpm_present(). *)
ExtendGate(present) == present = 0

(* boot.c 212: the path is refused once its 1024th byte is stored.     *)
NameTooLong(i) == i > NameMax

(* update_pcr (boot.c 37-108): a register outside 8..15 is refused; *)
(* otherwise the extend command is sent and the answer not examined. *)
update_pcr(reg, pcrs, digest) ==
  IF reg < 8 \/ reg > 15 THEN pcrs ELSE Append(pcrs, digest)

(* boot.c 295-296, the only place perform_sha1 is restored. *)
Restored == IF old_perform_sha1_value # 0 THEN old_perform_sha1_value
                                          ELSE perform_sha1

Init ==
  /\ data \in Manifests
  /\ exists \in BOOLEAN
  /\ tpm \in BOOLEAN
  /\ pc = "open"
  /\ curr = 0 /\ hashIn = << >> /\ name = << >>
  /\ generalError = 0
  /\ pcr13 = << >>
  /\ perform_sha1 \in {0, 1}
  /\ old_perform_sha1_value \in {0, 1}
  /\ ret = 0
  /\ entrySha1 = perform_sha1
  /\ doneRecs = 0

(* boot.c 140-168: measurement off, open the checkfile, size check, read. *)
Open ==
  /\ pc = "open"
  /\ IF perform_sha1 # 0
       THEN /\ old_perform_sha1_value' = perform_sha1
            /\ perform_sha1' = 0
       ELSE UNCHANGED <<perform_sha1, old_perform_sha1_value>>
  /\ IF ~exists \/ Len(data) > BufMax
       THEN /\ ret' = -1
            /\ pc' = "done"
            /\ UNCHANGED <<curr, generalError>>
       ELSE /\ curr' = 0
            /\ generalError' = 0
            /\ pc' = "record"
            /\ UNCHANGED ret
  /\ UNCHANGED <<data, exists, tpm, hashIn, name, pcr13, entrySha1, doneRecs>>

(* boot.c 171-192: loop test, copy the hash field, check the separator. *)
Record ==
  /\ pc = "record"
  /\ IF curr >= Len(data)
       THEN /\ pc' = "end"
            /\ UNCHANGED <<curr, hashIn, name, ret>>
       ELSE \E r \in Readings(curr, HashLen + 1) :
              /\ hashIn' = SubSeq(r, 1, HashLen)
              /\ IF r[HashLen + 1] # " "
                   THEN /\ ret' = 1
                        /\ pc' = "done"
                        /\ UNCHANGED <<curr, name>>
                   ELSE /\ curr' = curr + HashLen + 1
                        /\ name' = << >>
                        /\ pc' = "name"
                        /\ UNCHANGED ret
  /\ UNCHANGED <<data, exists, tpm, generalError, pcr13, perform_sha1,
                 old_perform_sha1_value, entrySha1, doneRecs>>

(* boot.c 194-217: one byte of the path. *)
NameByte ==
  /\ pc = "name"
  /\ \E r \in Readings(curr, 1) :
       /\ curr' = curr + 1
       /\ IF r[1] = "\n"
            THEN /\ pc' = "hash"
                 /\ UNCHANGED <<name, ret>>
            ELSE /\ name' = Append(name, r[1])
                 /\ IF NameTooLong(Len(name) + 1)
                      THEN /\ ret' = -1
                           /\ pc' = "done"
                      ELSE UNCHANGED <<pc, ret>>
  /\ UNCHANGED <<data, exists, tpm, hashIn, generalError, pcr13, perform_sha1,
                 old_perform_sha1_value, entrySha1, doneRecs>>

(* boot.c 218-281: hash the named file, render it in hex, compare it with *)
(* the recorded hash, count a mismatch or extend PCR 13.                  *)
Hash ==
  /\ pc = "hash"
  /\ IF name \notin DOMAIN FS
       THEN /\ ret' = -1
            /\ pc' = "done"
            /\ UNCHANGED <<generalError, pcr13, doneRecs>>
       ELSE LET c == FS[name] IN
            /\ IF HexOf[c] # hashIn
                 THEN /\ generalError' = generalError + 1
                      /\ UNCHANGED pcr13
                 ELSE /\ pcr13' = IF ExtendGate(tpm_present)
                                    THEN update_pcr(PCR_CHECKFILE, pcr13, c)
                                    ELSE pcr13
                      /\ UNCHANGED generalError
            /\ doneRecs' = doneRecs + 1
            /\ pc' = "record"
            /\ UNCHANGED ret
  /\ UNCHANGED <<data, exists, tpm, curr, hashIn, name, perform_sha1,
                 old_perform_sha1_value, entrySha1>>

(* boot.c 282-297: after the last record. *)
End ==
  /\ pc = "end"
  /\ IF generalError > 0
       THEN /\ pc' = "prompt"
            /\ UNCHANGED perform_sha1
       ELSE /\ perform_sha1' = Restored
            /\ pc' = "done"
  /\ UNCHANGED <<data, exists, tpm, curr, hashIn, name, generalError, pcr13,
                 old_perform_sha1_value, ret, entrySha1, doneRecs>>

(* boot.c 285-293: the operator answers the integrity prompt: ESC halts. *)
Answer ==
  /\ pc = "prompt"
  /\ \/ /\ pc' = "halted"
        /\ UNCHANGED perform_sha1
     \/ /\ perform_sha1' = Restored
        /\ pc' = "done"
  /\ UNCHANGED <<data, exists, tpm, curr, hashIn, name, generalError, pcr13,
                 old_perform_sha1_value, ret, entrySha1, doneRecs>>

Next == Open \/ Record \/ NameByte \/ Hash \/ End \/ Answer

(* The command runs to completion; the operator eventually presses a key. *)
Spec == Init /\ [][Next]_vars /\ WF_vars(Next)

(* After returning or halting nothing more happens. *)
Returned == pc \in {"done", "halted"}

-----------------------------------------------------------------------------
TypeOK ==
  /\ pc \in {"open", "record", "name", "hash", "end", "prompt", "done", "halted"}
  /\ curr \in Nat
  /\ hashIn \in BoundedSeq(Chars, HashLen)
  /\ name \in BoundedSeq(Chars, NameMax + 1)   \* file_name_buf[1024]
  /\ generalError \in Nat
  /\ pcr13 \in Seq(Contents)
  /\ perform_sha1 \in {0, 1} /\ old_perform_sha1_value \in {0, 1}
  /\ ret \in {-1, 0, 1}

(***************************************************************************)
(* load_checkfile implements the record-level promise of MeasurementList: *)
(* the byte parser sees the records of the reference format, PCR 13       *)
(* receives the digests of the verified records in manifest order exactly *)
(* when a TPM is present, mismatches are counted, and the command ends in *)
(* the prompt, success, halt or error the promise allows.                 *)
(***************************************************************************)
Status ==
  CASE pc = "done" /\ ret # 0 -> "error"
    [] pc = "done"            -> "ok"
    [] pc = "halted"          -> "halted"
    [] pc = "prompt"          -> "prompt"
    [] pc = "open" /\ ~(exists /\ Len(data) <= BufMax) -> "error"
    [] OTHER                  -> "run"

ML == INSTANCE MeasurementList WITH
        manifest <- data, k <- doneRecs, pcr <- pcr13, errors <- generalError,
        status <- Status

ImplementsMeasurementList == ML!ASafety /\ ML!AReachesFinal

(***************************************************************************)
(* Every way out of load_checkfile leaves perform_sha1, grub_read's        *)
(* measurement switch, as the caller had it on entry.                      *)
(***************************************************************************)
MeasurementSwitchRestored ==
  pc = "done" => perform_sha1 = entrySha1

=============================================================================
