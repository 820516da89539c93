--------------------------- MODULE MeasurementList ---------------------------
(***************************************************************************)
(* What the checkfile command promises (spec 4.6 and 6), at the level of   *)
(* whole manifest records: the manifest is a list of records "<hash>       *)
(* <path>\n"; the records are verified in order; a record whose file       *)
(* hashes to the recorded value is measured into PCR 13 when a TPM is      *)
(* present, any other is counted as an integrity error; a record that      *)
(* names no readable file, or a malformed record, ends the command with an *)
(* error; after the last record the operator is asked to confirm if there  *)
(* were errors, and may halt the boot.                                     *)
(*                                                                         *)
(* Characters are strings; a digest is named by the content it is the      *)
(* digest of, and HexOf gives its lower-case hex rendering.                *)
(***************************************************************************)
EXTENDS Integers, Sequences, SequencesExt

CONSTANTS
  Contents,   \* possible file contents (each identifies its SHA1 digest)
  HexOf,      \* [Contents -> Seq(STRING)]: hex rendering of the digest
  FS,         \* the readable files: a function from path to content
  HashLen,    \* characters of a recorded hash (40)
  NameMax,    \* longest path accepted (1023)
  BufMax,     \* largest manifest accepted (2 * TCG_BUFFER_SIZE)
  Manifests   \* the manifests considered

VARIABLES
  manifest,   \* the bytes of the checkfile
  exists,     \* whether the checkfile can be opened
  tpm,        \* whether a TPM is present
  k,          \* records verified so far
  pcr,        \* digests measured into PCR 13 by this command, in order
  errors,     \* integrity errors so far
  status      \* "run", "prompt", "ok", "halted" or "error"

avars == <<manifest, exists, tpm, k, pcr, errors, status>>

(***************************************************************************)
(* Reference parse of the manifest format: records of exactly HashLen      *)
(* characters, one space, a path of at most NameMax characters, a          *)
(* newline.  ok is FALSE when the bytes after the last record do not form  *)
(* a record.                                                               *)
(***************************************************************************)
RECURSIVE ParseFrom(_, _)
ParseFrom(d, acc) ==
  IF d = << >> THEN [recs |-> acc, ok |-> TRUE]
  ELSE IF Len(d) < HashLen + 1 \/ d[HashLen + 1] # " "
  THEN [recs |-> acc, ok |-> FALSE]
  ELSE LET rest == SubSeq(d, HashLen + 2, Len(d))
           nls  == {j \in 1 .. Len(rest) : rest[j] = "\n"}
       IN IF nls = {} \/ Min(nls) - 1 > NameMax
          THEN [recs |-> acc, ok |-> FALSE]
          ELSE ParseFrom(SubSeq(rest, Min(nls) + 1, Len(rest)),
                         Append(acc, [hash |-> SubSeq(d, 1, HashLen),
                                      name |-> SubSeq(rest, 1, Min(nls) - 1)]))

Parsed == ParseFrom(manifest, << >>)
Recs   == Parsed.recs

(* The checkfile is opened and fits the buffer. *)
Loadable == exists /\ Len(manifest) <= BufMax

AInit ==
  /\ manifest \in Manifests
  /\ exists \in BOOLEAN
  /\ tpm \in BOOLEAN
  /\ k = 0
  /\ pcr = << >>
  /\ errors = 0
  /\ status = IF Loadable THEN "run" ELSE "error"

Verify ==
  /\ status = "run"
  /\ k < Len(Recs)
  /\ LET r == Recs[k + 1] IN
       IF r.name \notin DOMAIN FS
       THEN /\ status' = "error"
            /\ UNCHANGED <<k, pcr, errors>>
       ELSE /\ k' = k + 1
            /\ IF HexOf[FS[r.name]] = r.hash
                 THEN /\ pcr' = IF tpm THEN Append(pcr, FS[r.name]) ELSE pcr
                      /\ UNCHANGED errors
                 ELSE /\ errors' = errors + 1
                      /\ UNCHANGED pcr
            /\ UNCHANGED status
  /\ UNCHANGED <<manifest, exists, tpm>>

Conclude ==
  /\ status = "run"
  /\ k = Len(Recs)
  /\ status' = IF ~Parsed.ok THEN "error"
               ELSE IF errors > 0 THEN "prompt" ELSE "ok"
  /\ UNCHANGED <<manifest, exists, tpm, k, pcr, errors>>

Confirm ==
  /\ status = "prompt"
  /\ status' \in {"ok", "halted"}
  /\ UNCHANGED <<manifest, exists, tpm, k, pcr, errors>>

ANext == Verify \/ Conclude \/ Confirm

ASpec == AInit /\ [][ANext]_avars /\ WF_avars(ANext)

(* ANext is enabled exactly while status is "run" or "prompt" and the other *)
(* statuses are final, so under the safety part WF_avars(ANext) says no     *)
(* more than that a final status is reached.                                *)
Final == {"ok", "halted", "error"}
ASafety == AInit /\ [][ANext]_avars
AReachesFinal == <>(status \in Final)

=============================================================================
