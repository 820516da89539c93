----------------------------- MODULE BootSession -----------------------------
(***************************************************************************)
(* A boot entry: the kernel command (load_image, module LoadImage), then   *)
(* module and initrd commands, each loading a file at the address the      *)
(* previous load left in the static cur_addr of boot.c.                    *)
(*                                                                         *)
(* load_module (boot.c 1201-1249) and load_initrd (boot.c 1282-1338) are   *)
(* translated from the source.  The commands that call them are GRUB's     *)
(* builtins.c, not under src/, and are modelled by their contract: the     *)
(* kernel command records the type load_image returns, "module" calls     *)
(* load_module after a Multiboot kernel and load_initrd after a Linux     *)
(* one, "initrd" calls load_initrd after a Linux kernel, and a failing    *)
(* command ends the entry.  The password splice that starts load_module   *)
(* is the module PasswordSplice; here the argument is opaque.             *)
(***************************************************************************)
EXTENDS LoadImage

CONSTANTS
  Scripts,        \* the command sequences after the kernel command
  MLL_SIZE        \* entries of the static mll[] table (99)

NoRange == [lo |-> 0, hi |-> 0]

VARIABLES
  script,         \* commands still to run
  kernel_type,    \* builtins' kernel_type after the kernel command
  mods,           \* mll[0 .. mods_count-1], as [lo, hi] = [mod_start, mod_end]
  ramdisk,        \* lh->ramdisk_image and ramdisk_size as [lo, hi]
  staged,         \* where load_initrd first read the ramdisk
  sess            \* "kernel", "cmds", "failed"

sessVars == <<script, kernel_type, mods, ramdisk, staged, sess>>

MemTop == (1024 + MemUpper) * 1024

(* x & 0xfffff000 on a 32-bit value held as an int. *)
Floor4K(x) == (x \div 4096) * 4096

(* The mutants below are plausible slips in the lines the operators after *)
(* them translate.                                                       *)
ModuleFitsUnchecked(c, n) == TRUE
InitrdClampUnchecked(m, max, len) == m

(* boot.c 1208: the module must end below 1024 * (1024 + mem_upper). *)
ModuleFits(c, n) == c + n < MemTop

(* boot.c 1312-1313: a ramdisk reaching the kernel's limit is moved below it. *)
InitrdClamp(m, max, len) == IF ~UGt(max, m + len) THEN Floor4K(max - len) ELSE m

(* boot.c 1310-1311: lh->initrd_addr_max for protocol 2.03 and later. *)
InitrdMax == IF NewHeader /\ img.version >= 515 THEN img.initrd_addr_max
             ELSE LINUX_INITRD_MAX_ADDRESS

SInit ==
  /\ Init
  /\ script \in Scripts
  /\ kernel_type = "none"
  /\ mods = << >> /\ ramdisk = NoRange /\ staged = NoRange
  /\ sess = "kernel"

(* The kernel command: load_image runs to its return. *)
KernelStep ==
  /\ sess = "kernel" /\ pc # "done"
  /\ Next
  /\ UNCHANGED sessVars

(* builtins' kernel_func: the type load_image returned; NONE ends the entry. *)
KernelDone ==
  /\ sess = "kernel" /\ pc = "done"
  /\ kernel_type' = type
  /\ sess' = IF type = "none" THEN "failed" ELSE "cmds"
  /\ UNCHANGED <<vars, script, mods, ramdisk, staged>>

(* load_module (boot.c 1201-1249) for the file f. *)
LoadModule(f) ==
  LET c == Align4K(cur_addr) IN
  /\ IF ~f.exists \/ ~ModuleFits(c, f.size) \/ f.size = 0
       THEN /\ sess' = "failed" /\ cur_addr' = c
            /\ UNCHANGED mods
       ELSE /\ mods' = Append(mods, [lo |-> c, hi |-> c + f.size])
            /\ cur_addr' = c + f.size
            /\ UNCHANGED sess
  /\ UNCHANGED <<ramdisk, staged>>

(* load_initrd (boot.c 1282-1338) for the file f: read it to cur_addr,   *)
(* then move it below the memory ceiling (mem= or the top of memory),   *)
(* clamped below the kernel's initrd limit, minus 64 KiB.  The staged    *)
(* header is the setup area that LinuxCopy left below cur_addr.          *)
LoadInitrd(f) ==
  /\ CASE ~f.exists -> sess' = "failed" /\ UNCHANGED <<ramdisk, staged>>
         \* an empty file jumps to fail: with errnum clear, that is success
         [] f.size = 0 -> UNCHANGED <<sess, ramdisk, staged>>
         [] OTHER -> LET len  == f.size
                         top  == IF linux_mem_size # 0 THEN linux_mem_size ELSE MemTop
                         m1   == Floor4K(top - len)
                         moveto == InitrdClamp(m1, InitrdMax, len) - 65536   \* avoid the last 64 KiB
                     IN /\ staged' = [lo |-> cur_addr, hi |-> cur_addr + len]
                        /\ ramdisk' = [lo |-> moveto, hi |-> moveto + len]
                        /\ UNCHANGED sess
  /\ UNCHANGED <<cur_addr, mods>>

(* One command of the entry, as builtins.c dispatches it. *)
Command ==
  /\ sess = "cmds" /\ script # << >>
  /\ LET cmd == Head(script) IN
       CASE cmd.op = "module" /\ kernel_type = "multiboot" -> LoadModule(cmd)
         [] cmd.op \in {"module", "initrd"} /\ kernel_type \in {"linux", "biglinux"} ->
              LoadInitrd(cmd)
         [] OTHER -> sess' = "failed" /\ UNCHANGED <<cur_addr, mods, ramdisk, staged>>
  /\ script' = Tail(script)
  /\ UNCHANGED <<img, suggested, arg, pc, errnum, type, entry_addr,
                 real_entry_addr, exec_type, align_4k, text_len, data_len,
                 bss_len, filepos, mem, seg, loaded, symtab_err, symsAddr,
                 big_linux, linux_mem_size, kernel_type>>

SNext == KernelStep \/ KernelDone \/ Command

SSpec == SInit /\ [][SNext]_<<vars, sessVars>>

-----------------------------------------------------------------------------
Disjoint(a, b) == a.hi <= b.lo \/ b.hi <= a.lo

(***************************************************************************)
(* Every module load_module accepted lies in upper memory, clear of the   *)
(* kernel image and of every other module (spec 4.2: the load address is  *)
(* the current high-water address, rounded up to 4 KiB).                  *)
(***************************************************************************)
ModulesPlaced ==
  \A i \in DOMAIN mods :
    /\ mods[i].lo >= OneMB /\ mods[i].hi <= MemTop
    /\ \A r \in Live : Disjoint(mods[i], r)
    /\ \A j \in DOMAIN mods : i # j => Disjoint(mods[i], mods[j])

(***************************************************************************)
(* load_module never writes past the static table mll[99] (spec 9 notes  *)
(* that its capacity is not checked).                                     *)
(***************************************************************************)
ModuleTableBound == Len(mods) <= MLL_SIZE

(***************************************************************************)
(* The ramdisk load_initrd hands to the kernel, and the copy it reads     *)
(* first, lie in upper memory; the ramdisk is clear of the kernel image   *)
(* and its staged setup, and below the kernel's initrd limit (spec 4.3).  *)
(***************************************************************************)
InitrdPlaced ==
  ramdisk # NoRange =>
    /\ staged.hi <= MemTop
    /\ ramdisk.lo >= OneMB /\ ramdisk.hi <= MemTop /\ ramdisk.hi <= InitrdMax
    /\ \A r \in Live : Disjoint(ramdisk, r)

=============================================================================
