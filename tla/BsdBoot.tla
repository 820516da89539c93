------------------------------ MODULE BsdBoot ------------------------------
(***************************************************************************)
(* bsd_boot (src/stage2/boot.c 1374-1518), run by the boot command after  *)
(* load_image has accepted a FreeBSD or NetBSD kernel: it reads the boot  *)
(* flags from the kernel command line, fills the FreeBSD bootinfo block   *)
(* or the NetBSD argument list, and calls the kernel's entry point.       *)
(*                                                                         *)
(* The module extends LoadImage: the boot step follows a load and reads   *)
(* what load_image left in mbi (the a.out symbol table descriptor) and    *)
(* the memory it wrote.  The command line in MB_CMDLINE_BUF is a sequence *)
(* of characters, the kernel file name first; a character other than      *)
(* "/", " " and "-" stands for itself.  The dispatch from the boot        *)
(* command (builtins.c, not under src/) sends FREEBSD and NETBSD kernels  *)
(* here; OPENBSD kernels go to openbsd_boot.  The disk geometry of        *)
(* get_diskinfo (bios.c) is left out: it reaches only bi_bios_geom.      *)
(***************************************************************************)
EXTENDS LoadImage

CONSTANT Cmdlines   \* contents of MB_CMDLINE_BUF the kernel command may leave

VARIABLES
  cmdline,   \* MB_CMDLINE_BUF
  call       \* the arguments of the call to the kernel entry (made: it happened)

bootVars == <<vars, cmdline, call>>

NUL == "NUL"

NoCall == [made |-> FALSE, flags |-> {}, kernelname |-> "none", symtab |-> 0,
           esym |-> 0, basemem |-> 0, extmem |-> 0]

(* The character at 0-based offset i of the NUL-terminated buffer s. *)
At(s, i) == IF i < Len(s) THEN s[i + 1] ELSE NUL

(* The option letters of boot.c 1395-1418 and the RB_ bits they set. *)
RB == "C" :> "RB_CDROM" @@ "a" :> "RB_ASKNAME" @@ "b" :> "RB_HALT"
      @@ "c" :> "RB_CONFIG" @@ "d" :> "RB_KDB" @@ "D" :> "RB_MULTIPLE"
      @@ "g" :> "RB_GDB" @@ "h" :> "RB_SERIAL" @@ "m" :> "RB_MUTE"
      @@ "r" :> "RB_DFLTROOT" @@ "s" :> "RB_SINGLE" @@ "v" :> "RB_VERBOSE"

FlagOf(c) == IF c \in DOMAIN RB THEN {RB[c]} ELSE {}

(* boot.c 1387: arg is advanced before its character is tested, so the *)
(* scan for the space or NUL ending the file name starts at offset 1.   *)
RECURSIVE SkipName(_, _)
SkipName(s, i) == IF At(s, i) \in {NUL, " "} THEN i ELSE SkipName(s, i + 1)

(* The mutant below is a plausible slip in the loop the operator after it *)
(* translates: the word after "-" read as a single letter.                *)
OptionLetterOnly(s, i, cl) == [cl |-> cl \cup FlagOf(At(s, i + 1)), at |-> i + 1]

(* boot.c 1393-1420: from the "-", every character up to a space or the *)
(* end adds its flag; str is left on the space or the NUL.             *)
RECURSIVE OptionWord(_, _, _)
OptionWord(s, i, cl) ==
  IF At(s, i) \in {NUL, " "} THEN [cl |-> cl, at |-> i]
  ELSE OptionWord(s, i + 1, cl \cup FlagOf(At(s, i)))

(* boot.c 1388-1424: the outer loop looks at every character after the *)
(* name, a "-" starting the inner loop wherever it stands.              *)
RECURSIVE ScanFlags(_, _, _)
ScanFlags(s, i, cl) ==
  CASE At(s, i) = NUL -> cl
    [] At(s, i) = "-" -> LET w == OptionWord(s, i, cl) IN ScanFlags(s, w.at, w.cl)
    [] OTHER -> ScanFlags(s, i + 1, cl)

(* The mutant below drops the test of the character the scan stops on. *)
NameAfterStop(s, q, p) == SubSeq(s, q + 2, p)

(* boot.c 1433: arg steps back before it is compared with the buffer's *)
(* start, and stops there or on a slash.                                  *)
RECURSIVE SlashBack(_, _)
SlashBack(s, q) == IF q - 1 > 0 /\ At(s, q - 1) # "/" THEN SlashBack(s, q - 1) ELSE q - 1

(* boot.c 1434-1437: the name after the slash, up to the NUL written at *)
(* the end of the file name, or none.                                   *)
KernelNameAt(s, q, p) == IF At(s, q) = "/" THEN SubSeq(s, q + 2, p) ELSE "none"

(* The mutant below forgets the size word in front of the table. *)
SymsEndNoSizeWord == symsAddr + img.a_syms + img.strsize

(* mbi.flags & MB_INFO_AOUT_SYMS: set by load_image (boot.c 902) for an *)
(* a.out symbol table read in full; Fill (boot.c 790) cleared it.       *)
AoutSymsKept == exec_type # 0 /\ symsAddr # 0

(* boot.c 1465-1466 and 1509-1510: mbi.syms.a.addr + 4 + tabsize +    *)
(* strsize, with tabsize = a_syms and strsize the word read (874).     *)
SymsEnd == symsAddr + 4 + img.a_syms + img.strsize

(* boot.c 786: mbi.cmdline = (int) arg, the line the kernel command gave *)
(* load_image; its non-Linux paths never read it, so it is chosen here.  *)
KernelLine ==
  /\ pc = "done" /\ type \in {"freebsd", "netbsd"} /\ ~call.made /\ cmdline = << >>
  /\ cmdline' \in Cmdlines
  /\ UNCHANGED <<vars, call>>

(***************************************************************************)
(* bsd_boot (boot.c 1374-1518): the flags; for FreeBSD the bootinfo block *)
(* with the kernel name cut out of the command line in place; for NetBSD *)
(* the end of the symbols as end_mark; then the call to the entry point. *)
(***************************************************************************)
BsdBootCall ==
  /\ ~call.made /\ cmdline # << >>
  /\ LET s  == cmdline
         p  == SkipName(s, 1)
         cl == ScanFlags(s, p, {})
         q  == SlashBack(s, p)
     IN IF type = "freebsd"
          THEN /\ cmdline' = SubSeq(s, 1, p)
               /\ call' = [made |-> TRUE, flags |-> cl \cup {"RB_BOOTINFO"},
                           kernelname |-> KernelNameAt(s, q, p),
                           symtab |-> IF AoutSymsKept THEN symsAddr ELSE 0,
                           esym |-> IF AoutSymsKept THEN SymsEnd ELSE 0,
                           basemem |-> MemLower, extmem |-> MemUpper]
          ELSE /\ call' = [made |-> TRUE, flags |-> cl, kernelname |-> "none", symtab |-> 0,
                           esym |-> IF AoutSymsKept THEN SymsEnd ELSE 0,
                           basemem |-> MemLower, extmem |-> MemUpper]
               /\ UNCHANGED cmdline
  /\ UNCHANGED vars

BootInit == Init /\ cmdline = << >> /\ call = NoCall

BootNext == (Next /\ UNCHANGED <<cmdline, call>>) \/ KernelLine \/ BsdBootCall

BootSpec == BootInit /\ [][BootNext]_bootVars

-----------------------------------------------------------------------------
(* Reference definitions: the command line as words separated by spaces. *)

(* The file name: the characters before the first space. *)
FileName(s) ==
  LET n == CHOOSE n \in 0 .. Len(s) :
             (\A k \in 1 .. n : s[k] # " ") /\ (n = Len(s) \/ s[n + 1] = " ")
  IN SubSeq(s, 1, n)

(* The last component of the file name's path, none without a "/". *)
RefKernelName(s) ==
  LET w == FileName(s)
      slashes == {k \in DOMAIN w : w[k] = "/"}
  IN IF slashes = {} THEN "none" ELSE SubSeq(w, Max(slashes) + 1, Len(w))

(* The flags of the option words: the words after the file name that *)
(* start with "-", each letter of them.                              *)
RefOptions(s) ==
  LET starts == {k \in DOMAIN s : s[k] = "-" /\ k > Len(FileName(s)) /\ s[k - 1] = " "}
      inWord(k, m) == \A j \in k .. m : s[j] # " "
  IN UNION {FlagOf(s[m]) : m \in {m \in DOMAIN s : \E k \in starts : k <= m /\ inWord(k, m)}}

-----------------------------------------------------------------------------
(* The end of the last symbol range load_image wrote, 0 for none. *)
SymsWrittenEnd ==
  LET his == {mem[k].hi : k \in {k \in DOMAIN mem : mem[k].what = "sym"}}
  IN IF his = {} THEN 0 ELSE Max(his)

(***************************************************************************)
(* The kernel finds the symbol table load_image kept: when an a.out table *)
(* was read in full, the symbol end bsd_boot passes (bi_esymtab, or       *)
(* end_mark for NetBSD) is the end of the size word, table, string size   *)
(* and strings load_image wrote, and FreeBSD's bi_symtab is their start;  *)
(* when none was kept, both are 0.                                        *)
(***************************************************************************)
SymbolsHandedOver ==
  call.made =>
    IF AoutSymsKept
      THEN /\ call.esym = SymsWrittenEnd
           /\ type = "freebsd" => call.symtab = symsAddr
      ELSE call.esym = 0 /\ call.symtab = 0

(***************************************************************************)
(* The FreeBSD kernel is told its own name: bi_kernelname is the last     *)
(* component of the kernel's path, found by bsd_boot scanning back from   *)
(* the end of the file name to the start of MB_CMDLINE_BUF.               *)
(***************************************************************************)
KernelNameAsReference ==
  [][BsdBootCall /\ type = "freebsd" => call'.kernelname = RefKernelName(cmdline)]_bootVars

(***************************************************************************)
(* Every option the user wrote reaches the kernel: each letter of a word  *)
(* after the file name that starts with "-" sets its RB_ flag in the boot *)
(* flags bsd_boot passes.                                                 *)
(***************************************************************************)
EveryOptionHonoured ==
  [][BsdBootCall => RefOptions(cmdline) \subseteq call'.flags]_bootVars

(***************************************************************************)
(* Only the options the user wrote are set: bsd_boot's flags are exactly  *)
(* those of the words starting with "-" after the file name (and          *)
(* RB_BOOTINFO for FreeBSD).                                              *)
(***************************************************************************)
OnlyOptionsSet ==
  [][BsdBootCall => call'.flags \ {"RB_BOOTINFO"} = RefOptions(cmdline)]_bootVars

=============================================================================
