----------------------------- MODULE CreateSha1 -----------------------------
(***************************************************************************)
(* main of the create_sha1 host tool (src/util/create_sha1.c 9-37): with  *)
(* a file name it runs calculate_sha1 (module FileHasher) on the file and *)
(* prints the five words of the digest, or an error; without one it       *)
(* prints its usage.  Either failure returns -1.                          *)
(*                                                                         *)
(* What is printed is abstracted to what it says: the digest, or the      *)
(* usage or error message.  The "sha1sum <file>" string main builds in    *)
(* systemcall is never used (the system call is commented out).           *)
(***************************************************************************)
EXTENDS FileHasher

CONSTANT Argcs   \* the argc values the tool is started with

VARIABLES
  argc,      \* number of arguments, the program name included
  printed,   \* what main wrote to stdout: a message and the digest words
  exitcode   \* main's return value (Running before it returns)

toolVars == <<vars, argc, printed, exitcode>>

Running == 1   \* main returns only 0 and -1

Say(m) == [msg |-> m, words |-> << >>]

ToolInit == Init /\ argc \in Argcs /\ printed = Say("nothing") /\ exitcode = Running

(* create_sha1.c 15-19: no file name. *)
Usage ==
  /\ argc = 1 /\ exitcode = Running
  /\ printed' = Say("usage")
  /\ exitcode' = -1
  /\ UNCHANGED <<vars, argc>>

(* create_sha1.c 21-24: the calculate_sha1 call, one step of it at a time. *)
Hash ==
  /\ argc > 1 /\ exitcode = Running
  /\ Next
  /\ UNCHANGED <<argc, printed, exitcode>>

(* The mutant below is a plausible slip in the test it precedes. *)
HashResultIgnored(r) == FALSE

(* create_sha1.c 24: if (calculate_sha1 (argv[1], hash_result)) *)
HashFailed(r) == r # 0

(* create_sha1.c 24-36: after calculate_sha1 returns, the error message *)
(* and -1, or the digest words and the name, and 0.                     *)
Report ==
  /\ argc > 1 /\ exitcode = Running /\ pc = "done"
  /\ IF HashFailed(ret)
       THEN printed' = Say("error") /\ exitcode' = -1
       ELSE printed' = [msg |-> "digest", words |-> Digest(ctx)] /\ exitcode' = 0
  /\ UNCHANGED <<vars, argc>>

ToolNext == Usage \/ Hash \/ Report

(* A host process runs main to completion. *)
ToolSpec == ToolInit /\ [][ToolNext]_toolVars /\ WF_toolVars(ToolNext)

-----------------------------------------------------------------------------
(***************************************************************************)
(* create_sha1 succeeds exactly when it was given a readable file, and    *)
(* then what it prints is SHA-1 of the whole file: its exit status and    *)
(* its output agree with calculate_sha1's result.                         *)
(***************************************************************************)
PrintsDigestOfFile ==
  exitcode # Running =>
    /\ (exitcode = 0) = (argc > 1 /\ readable)
    /\ exitcode = 0 => printed = [msg |-> "digest", words |-> RefDigest(file)]

=============================================================================
