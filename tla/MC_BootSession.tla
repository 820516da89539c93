--------------------------- MODULE MC_BootSession ---------------------------
(***************************************************************************)
(* Boot entries for BootSession: the kernels of MC_LoadImage followed by   *)
(* module and initrd commands.                                             *)
(***************************************************************************)
EXTENDS BootSession, MC_LoadImage

File(op, size) == [op |-> op, size |-> size, exists |-> TRUE]
NoFile(op) == [op |-> op, size |-> 0, exists |-> FALSE]

(* A bzImage with protocol 2.03 and a 4 MiB initrd limit. *)
BzImageLowMax == [BzImage EXCEPT !.version = 515, !.initrd_addr_max = 4 * MB]

MCS_Images == {ElfMultiboot, KludgeBss, AoutFreeBSD, AoutBadSyms, BzImage,
               ZImage, BzImageLowMax}
MCS_Args == {[vga |-> "none", mem |-> NoMem], [vga |-> "none", mem |-> MemOpt(4, "m")]}
MCS_Scripts ==
  { << File("module", 4096), File("module", 10000), File("module", 300000) >>,
    << File("module", 2500000), File("module", 2500000) >>,
    << File("module", 100), NoFile("module"), File("module", 100) >>,
    << File("initrd", 200000), File("module", 100000) >>,
    << File("module", 0), File("initrd", 1000000) >> }

(* A kernel whose section-header table is cut off, then a module. *)
MCZero_Images == {ElfShdrCut}
MCZero_Scripts == { << File("module", 4096) >> }

(* One hundred modules after a Multiboot kernel. *)
MCMany_Images == {KludgeBss}
MCMany_Scripts == { [i \in 1 .. 100 |-> File("module", 4096)] }

(* A ramdisk larger than the memory left above the kernel. *)
MCBigRd_Images == {BzImage}
MCBigRd_Scripts == { << File("initrd", 4500000) >> }

(* The image definitions come with BsdBoot's variables; a boot entry that *)
(* ends in module and initrd commands never reaches bsd_boot.            *)
MCS_Init == SInit /\ cmdline = << >> /\ call = NoCall

MCS_Next == SNext /\ UNCHANGED <<cmdline, call>>

MCS_Spec == MCS_Init /\ [][MCS_Next]_<<vars, sessVars, cmdline, call>>

=============================================================================
