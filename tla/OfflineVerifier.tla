--------------------------- MODULE OfflineVerifier ---------------------------
(***************************************************************************)
(* The offline PCR verifier, main of src/util/verify_pcr.c: parse the      *)
(* initial register from argv[1] ("NULL" or hex), check that every file    *)
(* argument exists, then for each file in argument order compute its SHA1  *)
(* with calculate_sha1 and replace the register by SHA1(pcr || digest),    *)
(* the TPM extend rule.                                                    *)
(*                                                                         *)
(* A register value is a byte sequence of PcrLen bytes (20) for the value *)
(* given on the command line, and Ext(p, c) for the value after extending *)
(* p with the digest of content c: SHA1 is taken to be injective, which    *)
(* is all the properties use of it.  A file argument is a path; Disk gives *)
(* whether it exists, whether it can be read, and its content.  As the    *)
(* FileHasher model shows, calculate_sha1 fails on an unreadable or an    *)
(* empty file.                                                             *)
(***************************************************************************)
EXTENDS Integers, Sequences, SequencesExt

CONSTANTS
  PcrLen,     \* bytes of a register (20)
  Args1,      \* the values argv[1] may have, as character sequences
  Paths,      \* file arguments
  Disk,       \* [Paths -> [exists, readable : BOOLEAN, content : Seq(_)]]
  MaxFiles    \* most file arguments considered

HexDigits == <<"0", "1", "2", "3", "4", "5", "6", "7",
               "8", "9", "a", "b", "c", "d", "e", "f">>

(* verify_pcr.c 42-61: the value of a hex digit; uppercase is refused. *)
NibbleOf(ch) == CHOOSE v \in 0 .. 15 : HexDigits[v + 1] = ch
IsHex(ch) == \E v \in 0 .. 15 : HexDigits[v + 1] = ch

(* argv[1] equal to "NULL" (verify_pcr.c 28). *)
NULL == <<"N", "U", "L", "L">>

(* The value of the register after extending p with the digest of c. *)
Ext(p, c) == <<"ext", p, c>>

VARIABLES
  arg1,       \* argv[1]
  files,      \* argv[2 .. argc-1]
  pc, i, pcr, ret

vars == <<arg1, files, pc, i, pcr, ret>>

(* The mutants below are plausible slips in the lines the next three *)
(* operators translate.                                               *)
PcrByteSwapped(hi, lo) == lo * 16 + hi
MoreFilesOffByOne(j, n) == j < n
ExtendSwapped(p, c) == <<"ext", c, p>>

(* verify_pcr.c 68: pcr[i] = pcr2[2*i] << 4 | pcr2[2*i + 1]. *)
PcrByte(hi, lo) == hi * 16 + lo

(* verify_pcr.c 83 and 105: for (j = 2; j <= no_of_files; j++), with  *)
(* no_of_files = argc - 1 and j counted here from 1 over argv[2 ..].  *)
MoreFiles(j, n) == j <= n

(* verify_pcr.c 113-131: SHA1 of the 40 bytes pcr || digest. *)
Extend(p, c) == Ext(p, c)

Init ==
  /\ arg1 \in Args1
  /\ files \in BoundedSeq(Paths, MaxFiles)
  /\ pc = "args" /\ i = 1 /\ pcr = << >> /\ ret = 0

(* verify_pcr.c 21-76: argc < 3 is a usage error; "NULL" is the zero  *)
(* register; otherwise 2*PcrLen characters are decoded, the first one *)
(* that is not a lowercase hex digit (the string's NUL included) is   *)
(* an error, and characters after them are ignored.                   *)
ParseArgs ==
  /\ pc = "args"
  /\ LET digits == SubSeq(arg1, 1, 2 * PcrLen) IN
     IF files = << >>
       \/ (arg1 # NULL /\ (Len(arg1) < 2 * PcrLen
                             \/ \E k \in 1 .. 2 * PcrLen : ~IsHex(digits[k])))
     THEN /\ ret' = -1 /\ pc' = "done" /\ UNCHANGED pcr
     ELSE /\ pcr' = IF arg1 = NULL THEN [k \in 1 .. PcrLen |-> 0]
                    ELSE [k \in 1 .. PcrLen |->
                            PcrByte(NibbleOf(digits[2 * k - 1]), NibbleOf(digits[2 * k]))]
          /\ pc' = "test" /\ UNCHANGED ret
  /\ UNCHANGED <<arg1, files, i>>

(* verify_pcr.c 83-101: system("test -e <file>") for every file; the    *)
(* first that does not exist ends the run.                               *)
TestFile ==
  /\ pc = "test"
  /\ IF MoreFiles(i, Len(files))
       THEN IF Disk[files[i]].exists
              THEN /\ i' = i + 1 /\ UNCHANGED <<pc, ret>>
              ELSE /\ ret' = -1 /\ pc' = "done" /\ UNCHANGED i
       ELSE /\ i' = 1 /\ pc' = "hash" /\ UNCHANGED ret
  /\ UNCHANGED <<arg1, files, pcr>>

(* verify_pcr.c 105-145: hash one file and extend the register with it. *)
HashFile ==
  /\ pc = "hash"
  /\ IF MoreFiles(i, Len(files))
       THEN LET f == Disk[files[i]] IN
            IF ~f.readable \/ f.content = << >>
              THEN /\ ret' = -1 /\ pc' = "done" /\ UNCHANGED <<i, pcr>>
              ELSE /\ pcr' = Extend(pcr, f.content)
                   /\ i' = i + 1 /\ UNCHANGED <<pc, ret>>
       ELSE /\ pc' = "done" /\ UNCHANGED <<i, pcr, ret>>
  /\ UNCHANGED <<arg1, files>>

Next == ParseArgs \/ TestFile \/ HashFile

(* The tool runs to completion. *)
Spec == Init /\ [][Next]_vars /\ WF_vars(Next)

-----------------------------------------------------------------------------
(* Reference: the register bytes whose lowercase rendering begins arg. *)
Rendering(p) == FlattenSeq([k \in 1 .. Len(p) |->
                  <<HexDigits[p[k] \div 16 + 1], HexDigits[(p[k] % 16) + 1]>>])

(* Reference: p extended with the digests of cs, first to last. *)
Chain(p, cs) == FoldLeft(Ext, p, cs)

(***************************************************************************)
(* When the verifier prints a register, it is the TPM's register after    *)
(* extending the value named by argv[1] with the file digests in argument *)
(* order: the printed value renders back to the first 2*PcrLen characters *)
(* of argv[1] when the chain is empty, and every file is extended once,   *)
(* in order (spec 4.8, 8).                                                 *)
(***************************************************************************)
PredictsRegister ==
  pc = "done" /\ ret = 0 =>
    \E p0 \in {q \in [1 .. PcrLen -> 0 .. 255] :
                  IF arg1 = NULL THEN \A k \in 1 .. PcrLen : q[k] = 0
                  ELSE Rendering(q) = SubSeq(arg1, 1, 2 * PcrLen)} :
      pcr = Chain(p0, [k \in 1 .. Len(files) |-> Disk[files[k]].content])

=============================================================================
