------------------------------ MODULE LoadImage ------------------------------
(***************************************************************************)
(* load_image (src/stage2/boot.c 308-1083): detect the format of a kernel  *)
(* file from its first MULTIBOOT_SEARCH bytes and load it.                 *)
(*                                                                         *)
(* The file is a record of the header fields the code reads (Image, in     *)
(* the MC module); addresses and sizes keep their real byte values, so the *)
(* 1 MiB floor, the 24-bit masks and the 4 KiB alignment are the code's.   *)
(* Memory is the sequence of ranges written, each [lo, hi, what] with what *)
(* "file" (bytes read from the file), "zero" (a memset) or "sym" (symbol  *)
(* tables).  A 32-bit value is held as the int it is in two's complement, *)
(* so a value of 2^31 or more is negative; UGt compares as unsigned.      *)
(*                                                                         *)
(* grub_open, grub_read, grub_seek and memcheck are GRUB's disk_io.c and   *)
(* common.c, not under src/; they are modelled by their contract: a read   *)
(* stops silently at the end of the file, a seek past it fails, memcheck   *)
(* sets ERR_WONT_FIT for a range outside memory and returns !errnum.       *)
(***************************************************************************)
EXTENDS Integers, Sequences, SequencesExt, Bitwise

CONSTANTS
  Images,         \* the kernel files tried
  Hints,          \* suggested_type values the kernel command may pass
  Args,           \* command-line options: [vga, mem], vga "none", "ok" or
                  \* "bad", mem [kind |-> "none" | "junk" | "overflow" | "num", n, unit]
  MemLower,       \* mbi.mem_lower, KiB
  MemUpper,       \* mbi.mem_upper, KiB
  StaleAddrs      \* values cur_addr may hold from an earlier load

MULTIBOOT_SEARCH == 8192
SECTOR_SIZE      == 512
OneMB            == 1048576          \* 0x100000
Mask24           == 16777216         \* 0xFFFFFF + 1
ELF_EHDR_SIZE    == 52               \* sizeof (Elf32_Ehdr)
EXEC_SIZE        == 32               \* sizeof (struct exec)
Types == {"none", "multiboot", "freebsd", "openbsd", "netbsd", "linux", "biglinux"}

VARIABLES
  img, suggested, arg,
  pc,          \* control point
  errnum,      \* GRUB's global error code
  type, entry_addr, real_entry_addr, cur_addr,
  exec_type,   \* 0 ELF, 1 a.out, 2 a.out kludge
  align_4k, text_len, data_len, bss_len,
  filepos,     \* the file position of grub_read
  mem,         \* ranges written, in order
  seg,         \* index of the program header or section being handled
  loaded,      \* PT_LOAD segments counted
  symtab_err,  \* the symbol table was dropped
  symsAddr,    \* mbi.syms.*.addr (0: no symbols)
  big_linux,   \* a bzImage
  linux_mem_size  \* the static set by mem=, read by load_initrd

vars == <<img, suggested, arg, pc, errnum, type, entry_addr, real_entry_addr,
          cur_addr, exec_type, align_4k, text_len, data_len, bss_len, filepos,
          mem, seg, loaded, symtab_err, symsAddr, big_linux, linux_mem_size>>

-----------------------------------------------------------------------------
(* GRUB's file and memory primitives (disk_io.c, common.c). *)

(* grub_read: the bytes available from filepos, at most n; a count that *)
(* is negative as an int reads to the end of the file.                   *)
ReadCountAt(pos, n) ==
  IF n < 0 \/ n > img.filemax - pos THEN img.filemax - pos ELSE n
ReadCount(n) == ReadCountAt(filepos, n)

(* A read of n bytes to address a: the range it writes, tagged w. *)
ReadRange(a, n, w) == [lo |-> a, hi |-> a + ReadCount(n), what |-> w]
ZeroRange(a, n) == [lo |-> a, hi |-> a + n, what |-> "zero"]

(* grub_seek: a position outside the file fails and leaves filepos. *)
Seek(off) == IF off < 0 \/ off > img.filemax THEN filepos ELSE off

(* memcheck (common.c): below 4 KiB, past lower memory, or past upper   *)
(* memory is ERR_WONT_FIT; the result is !errnum, so an error set       *)
(* before the call also makes it fail.                                   *)
MemFits(a, n) ==
  /\ a >= 4096
  /\ a < OneMB => a + n <= MemLower * 1024
  /\ a >= OneMB => (a - OneMB) + n <= MemUpper * 1024
MemcheckErr(a, n, err) == IF MemFits(a, n) THEN err ELSE "ERR_WONT_FIT"

(* The mutants below are plausible slips in the lines the operators after *)
(* them translate.                                                       *)
BelowOneMBUnchecked(a) == FALSE
SegFileSizeUnclamped(ph) == ph.filesz
HighWaterLast(c, a, m) == a + m
KludgeConsistentNoBss(h, lend, bend, i) ==
  ~(h.header_addr < h.load_addr \/ lend <= h.load_addr \/ h.header_addr - h.load_addr > i)
ElfFlavourNoOsabi ==
  IF suggested = "netbsd" THEN "netbsd"
  ELSE IF suggested = "freebsd" THEN "freebsd" ELSE "openbsd"
AlignSectionMasked(a, al) == (a + al) & al

(* boot.c 398, 458, 506, 933: an address below 0x100000. *)
BelowOneMB(a) == a < OneMB

(* boot.c 945-946: no more than memsz bytes are read. *)
SegFileSize(ph) == IF ph.filesz > ph.memsz THEN ph.memsz ELSE ph.filesz

(* boot.c 948-949: memory up to the end of the segment is marked used. *)
HighWater(c, a, m) == IF c < a + m THEN a + m ELSE c

(* boot.c 452-456: the kludge address fields are consistent. *)
KludgeConsistent(h, lend, bend, i) ==
  ~(\/ h.header_addr < h.load_addr \/ lend <= h.load_addr \/ bend < lend
    \/ h.header_addr - h.load_addr > i)

(* x > y on the unsigned reading of two 32-bit values. *)
UGt(x, y) == IF (x < 0) = (y < 0) THEN x > y ELSE x < 0

(* boot.c 819 and elsewhere: cur_addr = (cur_addr + 0xFFF) & 0xFFFFF000, *)
(* for an address below 2^31.                                           *)
Align4K(a) == ((a + 4095) \div 4096) * 4096

(* boot.c 1014-1015: (cur_addr + align) & - (int) align, for a sum      *)
(* below 2^31; - 0 is 0, so a zero alignment gives 0.                   *)
AlignSection(a, al) == IF al = 0 THEN 0 ELSE (a + al) & (2147483647 - al + 1)

-----------------------------------------------------------------------------
(* The probe (boot.c 333-376). *)

(* grub_read (buffer, MULTIBOOT_SEARCH) *)
ProbeLen == IF img.filemax < MULTIBOOT_SEARCH THEN img.filemax ELSE MULTIBOOT_SEARCH

(* MULTIBOOT_FOUND (shared.h): the magic and checksum at a 4-aligned     *)
(* offset with the 12-byte header inside the bytes read.  A file carries *)
(* at most one header, at img.mboff (-1: none).                           *)
MbFound == img.mboff >= 0 /\ img.mboff + 12 <= ProbeLen

(* The a.out magic (N_BADMAG) and the Linux boot sector are properties of *)
(* the file's first bytes; an ELF file has neither.                      *)
AoutMagic == img.kind = "aout"
BootSector == img.kind = "linux" /\ img.setup_sects <= 64  \* LINUX_MAX_SETUP_SECTS

(* boot.c 383-389: the gate of the ELF branch. *)
ElfGate(t) ==
  /\ \/ t = "multiboot" \/ img.osabi_freebsd \/ img.brand_freebsd
     \/ suggested \in {"none", "openbsd", "netbsd"}
  /\ ProbeLen > ELF_EHDR_SIZE
  /\ img.kind = "elf"                  \* BOOTABLE_I386_ELF

(* boot.c 409-429: the BSD flavour of an ELF kernel without a Multiboot header. *)
ElfFlavour ==
  IF suggested = "netbsd" THEN "netbsd"
  ELSE IF suggested = "freebsd" \/ img.osabi_freebsd THEN "freebsd"
  ELSE "openbsd"

(* boot.c 393-406: entry point and program-header table checks. *)
ElfEntry(t) == IF t = "multiboot" THEN img.e_entry ELSE img.e_entry % Mask24
ElfErr(t) ==
  IF img.e_phoff = 0 \/ Len(img.phdrs) = 0
     \/ img.e_phoff + img.e_phentsize * Len(img.phdrs) >= ProbeLen
  THEN "ERR_EXEC_FORMAT"
  ELSE IF BelowOneMB(ElfEntry(t)) THEN "ERR_BELOW_1MB" ELSE errnum

Init ==
  /\ img \in Images /\ suggested \in Hints /\ arg \in Args
  /\ pc = "probe" /\ errnum = "ERR_NONE"
  /\ type = "none" /\ entry_addr = 0 /\ real_entry_addr = 0
  /\ cur_addr \in StaleAddrs
  /\ exec_type = 0 /\ align_4k = 1
  /\ text_len = 0 /\ data_len = 0 /\ bss_len = 0
  /\ filepos = 0 /\ mem = << >> /\ seg = 1 /\ loaded = 0
  /\ symtab_err = 0 /\ symsAddr = 0
  /\ big_linux = FALSE /\ linux_mem_size = 0

Fail(e) == /\ errnum' = e /\ type' = "none" /\ pc' = "done"

(* boot.c 333-376: open, read the probe, scan it for a Multiboot header. *)
Probe ==
  /\ pc = "probe"
  /\ CASE ~img.exists -> Fail("ERR_FILE_NOT_FOUND") /\ UNCHANGED filepos
       [] ProbeLen < 32 -> Fail("ERR_EXEC_FORMAT") /\ filepos' = ProbeLen
       [] MbFound /\ "unsupported" \in img.mbflags ->
            Fail("ERR_BOOT_FEATURES") /\ filepos' = ProbeLen
       [] OTHER -> /\ type' = IF MbFound THEN "multiboot" ELSE "none"
                   /\ filepos' = ProbeLen
                   /\ pc' = "classify"
                   /\ UNCHANGED errnum
  /\ UNCHANGED <<img, suggested, arg, big_linux, linux_mem_size, entry_addr, real_entry_addr, cur_addr,
                 exec_type, align_4k, text_len, data_len, bss_len, mem, seg,
                 loaded, symtab_err, symsAddr>>

(* boot.c 390-430: an ELF kernel. *)
ClassifyElf ==
  /\ ElfGate(type)
  /\ entry_addr' = ElfEntry(type)
  /\ errnum' = ElfErr(type)
  /\ type' = IF type = "none" THEN ElfFlavour ELSE type
  /\ UNCHANGED <<cur_addr, exec_type, align_4k, text_len, data_len, bss_len, filepos>>

(* boot.c 431-464: a Multiboot header with explicit load addresses; a   *)
(* zero end address means "to the end of the file" and "no bss".        *)
ClassifyKludge ==
  /\ ~ElfGate(type) /\ MbFound /\ "kludge" \in img.mbflags
  /\ LET h == img.mbhdr
         lend == IF h.load_end_addr = 0 THEN h.load_addr + img.filemax
                 ELSE h.load_end_addr
         bend == IF h.bss_end_addr = 0 THEN lend ELSE h.bss_end_addr
     IN /\ entry_addr' = h.entry_addr
        /\ cur_addr' = h.load_addr
        /\ filepos' = Seek(img.mboff - (h.header_addr - h.load_addr))
        /\ text_len' = lend - h.load_addr
        /\ data_len' = 0
        /\ bss_len' = bend - lend
        /\ errnum' =
             IF BelowOneMB(h.load_addr) THEN "ERR_BELOW_1MB"
             ELSE IF ~KludgeConsistent(h, lend, bend, img.mboff)
                  THEN "ERR_EXEC_FORMAT" ELSE errnum
  /\ exec_type' = 2
  /\ UNCHANGED <<type, align_4k>>

(* boot.c 465-511: a plain a.out kernel; without a Multiboot header it is *)
(* FreeBSD when it starts 0x0b 0x01, else OpenBSD, and its entry is       *)
(* masked to 24 bits.  With a header cur_addr is left as it was.         *)
ClassifyAout ==
  /\ ~ElfGate(type) /\ ~(MbFound /\ "kludge" \in img.mbflags)
  /\ ProbeLen > EXEC_SIZE /\ AoutMagic
  /\ LET e == IF type = "none" THEN img.a_entry % Mask24 ELSE img.a_entry
         c == CASE type # "none" -> cur_addr
                [] img.fbsd_sig  -> e
                [] OTHER         -> ((e \div OneMB) % 16) * OneMB   \* & 0xF00000
     IN /\ entry_addr' = e
        /\ cur_addr' = c
        /\ type' = CASE type # "none" -> type
                     [] img.fbsd_sig  -> "freebsd"
                     [] OTHER         -> "openbsd"
        /\ align_4k' = IF type = "none" /\ ~img.fbsd_sig /\ ~img.nmagic
                       THEN 0 ELSE align_4k
        /\ errnum' = IF BelowOneMB(c) THEN "ERR_BELOW_1MB" ELSE errnum
  /\ filepos' = Seek(img.txtoff)
  /\ text_len' = img.a_text /\ data_len' = img.a_data /\ bss_len' = img.a_bss
  /\ exec_type' = 1

(* boot.c 775-776: no recognisable format. *)
ClassifyNone ==
  /\ ~ElfGate(type) /\ ~(MbFound /\ "kludge" \in img.mbflags)
  /\ ~(ProbeLen > EXEC_SIZE /\ AoutMagic) /\ ~BootSector
  /\ errnum' = "ERR_EXEC_FORMAT"
  /\ UNCHANGED <<type, entry_addr, cur_addr, exec_type, align_4k, text_len,
                 data_len, bss_len, filepos>>

(* boot.c 383-513 and 775-776: the format chain, first match wins. *)
Classify ==
  /\ pc = "classify"
  /\ \/ /\ \/ ClassifyElf \/ ClassifyKludge \/ ClassifyAout \/ ClassifyNone
        /\ pc' = "fill"
     \/ /\ ~ElfGate(type) /\ ~(MbFound /\ "kludge" \in img.mbflags)
        /\ ~(ProbeLen > EXEC_SIZE /\ AoutMagic) /\ BootSector
        /\ pc' = "linux"
        /\ UNCHANGED <<errnum, type, entry_addr, cur_addr, exec_type, align_4k,
                       text_len, data_len, bss_len, filepos>>
  /\ UNCHANGED <<img, suggested, arg, big_linux, linux_mem_size, real_entry_addr, mem, seg, loaded,
                 symtab_err, symsAddr>>

(* boot.c 778-801 and 905-912: return on an error recorded while         *)
(* classifying, else reset the symbol descriptor and start loading; the  *)
(* ELF path starts from cur_addr = 0.                                    *)
Fill ==
  /\ pc = "fill"
  /\ IF errnum # "ERR_NONE"
       THEN /\ type' = "none" /\ pc' = "done" /\ UNCHANGED cur_addr
       ELSE /\ pc' = IF exec_type # 0 THEN "aout" ELSE "elf"
            /\ cur_addr' = IF exec_type # 0 THEN cur_addr ELSE 0
            /\ UNCHANGED type
  /\ symsAddr' = 0
  /\ UNCHANGED <<img, suggested, arg, big_linux, linux_mem_size, errnum, entry_addr, real_entry_addr,
                 exec_type, align_4k, text_len, data_len, bss_len, filepos,
                 mem, seg, loaded, symtab_err>>

(* Linux constants (shared.h). *)
LINUX_SETUP_MOVE_SIZE    == 37120     \* 0x9100
LINUX_OLD_REAL_MODE_ADDR == 589824    \* 0x90000
LINUX_ZIMAGE_ADDR        == 65536     \* 0x10000
LINUX_DEFAULT_SETUP_SECTS == 4
LINUX_INITRD_MAX_ADDRESS == 939524096 \* 0x38000000
MAXINT == 2147483647

(* The header fields the branch reads: a protocol 2.00 header or not. *)
NewHeader == img.hdr_magic /\ img.version >= 512

(* linux_data_tmp_addr: the setup sectors are staged after the text. *)
LinuxTmp == OneMB + text_len

(* boot.c 514-575: the kind of kernel, where its real-mode part will  *)
(* go, the setup and text lengths from the file size, and the two fit *)
(* checks.  The rewrites of the header fields in the probe are layout. *)
LinuxHeader ==
  /\ pc = "linux"
  /\ LET top  == MemLower * 1024 - LINUX_SETUP_MOVE_SIZE
         real == IF NewHeader /\ ~UGt(top, LINUX_OLD_REAL_MODE_ADDR) THEN top
                 ELSE LINUX_OLD_REAL_MODE_ADDR
         ss0  == IF NewHeader THEN img.setup_sects ELSE LINUX_DEFAULT_SETUP_SECTS
         ss   == IF ss0 = 0 THEN LINUX_DEFAULT_SETUP_SECTS ELSE ss0
         big  == NewHeader /\ img.big
         tl   == img.filemax - ss * 512 - SECTOR_SIZE     \* unsigned long
     IN /\ big_linux' = big
        /\ data_len' = ss * 512
        /\ text_len' = tl
        /\ IF \/ ~big /\ UGt(tl, real - LINUX_ZIMAGE_ADDR)
              \/ real + LINUX_SETUP_MOVE_SIZE > MemLower * 1024
             THEN errnum' = "ERR_WONT_FIT" /\ pc' = "fill"
             ELSE pc' = "linuxargs" /\ UNCHANGED errnum
  /\ UNCHANGED <<img, suggested, arg, type, entry_addr, real_entry_addr,
                 cur_addr, exec_type, align_4k, bss_len, filepos, mem, seg,
                 loaded, symtab_err, symsAddr, linux_mem_size>>

(* boot.c 587-672: a vga= value that does not parse ends the load; a     *)
(* mem= value sets linux_mem_size, scaled by a k, m or g suffix, with a  *)
(* value too large for the shift or for an int clamped to the initrd     *)
(* maximum and one that does not parse ignored.                          *)
MemSize(m) ==
  CASE m.kind \in {"none", "junk"} -> 0
    [] m.kind = "overflow" -> LINUX_INITRD_MAX_ADDRESS
    [] OTHER ->
         LET shift == CASE m.unit = "g" -> 30 [] m.unit = "m" -> 20
                        [] m.unit = "k" -> 10 [] OTHER -> 0
         IN IF m.n > MAXINT \div 2^shift THEN LINUX_INITRD_MAX_ADDRESS
            ELSE m.n * 2^shift

LinuxArgs ==
  /\ pc = "linuxargs"
  /\ IF arg.vga = "bad"
       THEN /\ Fail("ERR_NUMBER_PARSING") /\ UNCHANGED linux_mem_size
       ELSE /\ linux_mem_size' = MemSize(arg.mem)
            /\ pc' = "linuxcopy"
            /\ UNCHANGED <<errnum, type>>
  /\ UNCHANGED <<img, suggested, arg, entry_addr, real_entry_addr, cur_addr,
                 exec_type, align_4k, text_len, data_len, bss_len, filepos, mem,
                 seg, loaded, symtab_err, symsAddr, big_linux>>

(* boot.c 673-773: stage the setup sectors from the probe and the file, *)
(* clear the heap of an old kernel, read the text to 1 MiB, and check   *)
(* the suggested type.  The command line and its synthesized mem= are   *)
(* written inside the staged area and are not modelled.                 *)
LinuxCopy ==
  /\ pc = "linuxcopy"
  /\ LET tmp == LinuxTmp
         ss  == data_len \div 512
         setupLen == data_len + SECTOR_SIZE
         setup == IF setupLen <= MULTIBOOT_SEARCH
                    THEN << [lo |-> tmp, hi |-> tmp + setupLen, what |-> "file"] >>
                    ELSE << [lo |-> tmp, hi |-> tmp + MULTIBOOT_SEARCH, what |-> "file"],
                            ReadRange(tmp + MULTIBOOT_SEARCH,
                                      setupLen - MULTIBOOT_SEARCH, "file") >>
         pos1 == IF setupLen <= MULTIBOOT_SEARCH THEN filepos
                 ELSE filepos + ReadCount(setupLen - MULTIBOOT_SEARCH)
         heap == IF NewHeader THEN << >>
                 ELSE << ZeroRange(tmp + (ss + 1) * 512, (64 - ss - 1) * 512) >>
         pos2 == IF setupLen > img.filemax THEN pos1 ELSE setupLen   \* grub_seek
         text == [lo |-> OneMB, hi |-> OneMB + ReadCountAt(pos2, text_len),
                  what |-> "file"]
         kind == IF big_linux THEN "biglinux" ELSE "linux"
     IN /\ mem' = mem \o setup \o heap \o << text >>
        /\ filepos' = pos2 + ReadCountAt(pos2, text_len)
        /\ cur_addr' = tmp + LINUX_SETUP_MOVE_SIZE
        /\ pc' = "done"
        /\ IF suggested # "none" /\ suggested # kind
             THEN errnum' = "ERR_EXEC_FORMAT" /\ type' = "none"
             ELSE type' = kind /\ UNCHANGED errnum
  /\ UNCHANGED <<img, suggested, arg, entry_addr, real_entry_addr, exec_type,
                 align_4k, text_len, data_len, bss_len, seg, loaded, symtab_err,
                 symsAddr, big_linux, linux_mem_size>>

-----------------------------------------------------------------------------
(* Loading an a.out or kludge image (boot.c 802-904). *)

KludgeFlag == MbFound /\ "kludge" \in img.mbflags

(* boot.c 802-845: text, then (without the kludge flag) data at the next *)
(* 4 KiB boundary, then bss; a short text or data read is              *)
(* ERR_EXEC_FORMAT.  No memcheck is made on this path.                 *)
AoutLoad ==
  /\ pc = "aout"
  /\ LET got  == ReadCount(text_len)
         c1   == cur_addr + text_len
         c2   == IF align_4k = 1 THEN Align4K(c1) ELSE c1
         gotd == ReadCountAt(filepos + got, data_len)
         dataOK == KludgeFlag \/ gotd = data_len
         c3   == IF KludgeFlag THEN c1 ELSE c2 + data_len
         textR == << [lo |-> cur_addr, hi |-> cur_addr + got, what |-> "file"] >>
         dataR == IF KludgeFlag THEN << >>
                  ELSE << [lo |-> c2, hi |-> c2 + gotd, what |-> "file"] >>
     IN IF got # text_len
          THEN /\ errnum' = "ERR_EXEC_FORMAT"
               /\ mem' = mem \o textR
               /\ filepos' = filepos + got
               /\ UNCHANGED cur_addr
          ELSE /\ filepos' = filepos + got + (IF KludgeFlag THEN 0 ELSE gotd)
               /\ IF dataOK
                    THEN /\ mem' = mem \o textR \o dataR \o << ZeroRange(c3, bss_len) >>
                         /\ cur_addr' = c3 + bss_len
                         /\ UNCHANGED errnum
                    ELSE /\ mem' = mem \o textR \o dataR
                         /\ cur_addr' = c3
                         /\ errnum' = "ERR_EXEC_FORMAT"
  /\ pc' = "aoutsyms"
  /\ UNCHANGED <<img, suggested, arg, big_linux, linux_mem_size, type, entry_addr, real_entry_addr,
                 exec_type, align_4k, text_len, data_len, bss_len, seg, loaded,
                 symtab_err, symsAddr>>

(* boot.c 846-904: the a.out symbol table, when a_syms is non-zero and *)
(* smaller than the rest of the file: its size word, the table, the    *)
(* string-table size read from the file, the strings.  On any short    *)
(* read the table is dropped and cur_addr goes back to where it was.   *)
AoutSyms ==
  /\ pc = "aoutsyms"
  /\ IF errnum = "ERR_NONE" /\ img.a_syms # 0 /\ img.a_syms < img.filemax - filepos
       THEN LET c0   == IF align_4k = 1 THEN Align4K(cur_addr) ELSE cur_addr
                gotS == ReadCount(img.a_syms)
                p1   == filepos + gotS
                hasI == gotS = img.a_syms /\ ReadCountAt(p1, 4) = 4
                i    == img.strsize - 4
                gotT == ReadCountAt(p1 + 4, i)
                c1   == c0 + 4 + img.a_syms
                ranges ==
                  << [lo |-> c0, hi |-> c0 + 4, what |-> "sym"],
                     [lo |-> c0 + 4, hi |-> c0 + 4 + gotS, what |-> "sym"] >>
                  \o (IF hasI THEN << [lo |-> c1, hi |-> c1 + 4 + gotT, what |-> "sym"] >>
                      ELSE << >>)
                err == ~hasI \/ gotT # i
            IN /\ mem' = mem \o ranges
               /\ filepos' = IF hasI THEN p1 + 4 + gotT ELSE p1 + ReadCountAt(p1, 4)
               /\ symtab_err' = IF err THEN 1 ELSE 0
               /\ cur_addr' = IF err THEN cur_addr ELSE c1 + 4 + i
               /\ symsAddr' = IF err THEN 0 ELSE c0
       ELSE UNCHANGED <<mem, filepos, symtab_err, cur_addr, symsAddr>>
  /\ pc' = "finish"
  /\ UNCHANGED <<img, suggested, arg, big_linux, linux_mem_size, errnum, type, entry_addr, real_entry_addr,
                 exec_type, align_4k, text_len, data_len, bss_len, seg, loaded>>

-----------------------------------------------------------------------------
(* Loading an ELF image (boot.c 905-1055). *)

BSD == {"freebsd", "netbsd", "openbsd"}

(* boot.c 915-967: one program header.  A PT_LOAD segment goes to its   *)
(* physical address (24 bits for BSD kernels), marks memory up to its   *)
(* end as used, and is loaded when memcheck passes; a failed memcheck  *)
(* or a short read ends the loop.                                      *)
ElfSegment ==
  /\ pc = "elf" /\ seg <= Len(img.phdrs)
  /\ LET ph == img.phdrs[seg] IN
     IF ph.type # "load"
       THEN /\ seg' = seg + 1
            /\ UNCHANGED <<errnum, real_entry_addr, cur_addr, loaded, mem, filepos, pc>>
       ELSE
     LET pos  == Seek(ph.offset)
         memaddr == IF type \in BSD THEN ph.paddr % Mask24 ELSE ph.paddr
         e1   == IF BelowOneMB(memaddr) THEN "ERR_BELOW_1MB" ELSE errnum
         fs   == SegFileSize(ph)
         e2   == MemcheckErr(memaddr, ph.memsz, e1)
         got  == ReadCountAt(pos, fs)
         full == e2 = "ERR_NONE" /\ got = fs
     IN /\ real_entry_addr' =
             IF type = "multiboot" /\ entry_addr >= ph.vaddr
                /\ entry_addr < ph.vaddr + ph.memsz
             THEN entry_addr + memaddr - ph.vaddr ELSE real_entry_addr
        /\ cur_addr' = HighWater(cur_addr, memaddr, ph.memsz)
        /\ loaded' = loaded + 1
        /\ errnum' = e2
        /\ mem' = mem \o
             (IF e2 # "ERR_NONE" THEN << >>
              ELSE << [lo |-> memaddr, hi |-> memaddr + got, what |-> "file"] >>)
             \o (IF full /\ ph.memsz > fs THEN << ZeroRange(memaddr + fs, ph.memsz - fs) >>
                 ELSE << >>)
        /\ filepos' = IF e2 = "ERR_NONE" THEN pos + got ELSE pos
        /\ IF full THEN seg' = seg + 1 /\ UNCHANGED pc
                   ELSE pc' = "elfend" /\ UNCHANGED seg
  /\ UNCHANGED <<img, suggested, arg, big_linux, linux_mem_size, type, entry_addr, exec_type, align_4k,
                 text_len, data_len, bss_len, symtab_err, symsAddr>>

(* boot.c 915: the loop ends after the last program header. *)
ElfSegmentsDone ==
  /\ pc = "elf" /\ seg > Len(img.phdrs)
  /\ pc' = "elfend"
  /\ UNCHANGED <<img, suggested, arg, big_linux, linux_mem_size, errnum, type, entry_addr, real_entry_addr,
                 cur_addr, exec_type, align_4k, text_len, data_len, bss_len,
                 filepos, mem, seg, loaded, symtab_err, symsAddr>>

(* boot.c 969-1000: no loaded segment is ERR_EXEC_FORMAT; otherwise the *)
(* section-header table is read to the next 4 KiB boundary.             *)
ElfShdrTable ==
  /\ pc = "elfend"
  /\ IF errnum # "ERR_NONE"
       THEN /\ pc' = "finish"
            /\ UNCHANGED <<errnum, cur_addr, filepos, mem, seg, symtab_err, symsAddr>>
       ELSE IF loaded = 0
       THEN /\ errnum' = "ERR_EXEC_FORMAT" /\ pc' = "finish"
            /\ UNCHANGED <<cur_addr, filepos, mem, seg, symtab_err, symsAddr>>
       ELSE LET c   == IF align_4k = 1 THEN Align4K(cur_addr) ELSE cur_addr
                tab == img.e_shentsize * Len(img.shdrs)
                pos == Seek(img.e_shoff)
                got == ReadCountAt(pos, tab)
            IN /\ mem' = Append(mem, [lo |-> c, hi |-> c + got, what |-> "sym"])
               /\ filepos' = pos + got
               /\ IF got = tab
                    THEN /\ symsAddr' = c /\ cur_addr' = c + tab
                         /\ seg' = 1 /\ pc' = "elfsec"
                         /\ UNCHANGED symtab_err
                    ELSE /\ symtab_err' = 1 /\ pc' = "elfsymsdone"
                         /\ cur_addr' = c
                         /\ UNCHANGED <<symsAddr, seg>>
               /\ UNCHANGED errnum
  /\ UNCHANGED <<img, suggested, arg, big_linux, linux_mem_size, type, entry_addr, real_entry_addr,
                 exec_type, align_4k, text_len, data_len, bss_len, loaded>>

(* boot.c 1002-1030: one section header: a section with an address or   *)
(* without bytes is skipped, any other is aligned and loaded after      *)
(* memcheck; a failure ends the loop and drops the table.               *)
ElfSection ==
  /\ pc = "elfsec" /\ seg <= Len(img.shdrs)
  /\ LET sh == img.shdrs[seg] IN
     IF sh.addr # 0 \/ sh.size = 0
       THEN /\ seg' = seg + 1
            /\ UNCHANGED <<errnum, cur_addr, filepos, mem, symtab_err, pc>>
       ELSE
     LET c   == AlignSection(cur_addr, sh.align)
         pos == Seek(sh.offset)
         e   == MemcheckErr(c, sh.size, errnum)
         got == ReadCountAt(pos, sh.size)
     IN /\ errnum' = e
        /\ mem' = IF e = "ERR_NONE"
                    THEN Append(mem, [lo |-> c, hi |-> c + got, what |-> "sym"])
                    ELSE mem
        /\ filepos' = IF e = "ERR_NONE" THEN pos + got ELSE pos
        /\ IF e = "ERR_NONE" /\ got = sh.size
             THEN /\ cur_addr' = c + sh.size /\ seg' = seg + 1
                  /\ UNCHANGED <<symtab_err, pc>>
             ELSE /\ cur_addr' = c /\ symtab_err' = 1 /\ pc' = "elfsymsdone"
                  /\ UNCHANGED seg
  /\ UNCHANGED <<img, suggested, arg, big_linux, linux_mem_size, type, entry_addr, real_entry_addr,
                 exec_type, align_4k, text_len, data_len, bss_len, loaded, symsAddr>>

(* boot.c 1002: the loop ends after the last section header. *)
ElfSectionsDone ==
  /\ pc = "elfsec" /\ seg > Len(img.shdrs)
  /\ pc' = "elfsymsdone"
  /\ UNCHANGED <<img, suggested, arg, big_linux, linux_mem_size, errnum, type, entry_addr, real_entry_addr,
                 cur_addr, exec_type, align_4k, text_len, data_len, bss_len,
                 filepos, mem, seg, loaded, symtab_err, symsAddr>>

(* boot.c 1032-1055: a table below 64 KiB is implausible; a dropped     *)
(* table clears the descriptor and sets cur_addr to 0.                 *)
ElfSymsDone ==
  /\ pc = "elfsymsdone"
  /\ LET bad == symtab_err = 1 \/ symsAddr < 65536 IN
       /\ symtab_err' = IF bad THEN 1 ELSE 0
       /\ symsAddr' = IF bad THEN 0 ELSE symsAddr
       /\ cur_addr' = IF bad THEN 0 ELSE cur_addr
  /\ pc' = "finish"
  /\ UNCHANGED <<img, suggested, arg, big_linux, linux_mem_size, errnum, type, entry_addr, real_entry_addr,
                 exec_type, align_4k, text_len, data_len, bss_len, filepos, mem,
                 seg, loaded>>

(* boot.c 1057-1083: an error makes the result KERNEL_TYPE_NONE; the   *)
(* entry is corrected to its physical address; a suggested type that   *)
(* differs from the result is ERR_EXEC_FORMAT.                         *)
Finish ==
  /\ pc = "finish"
  /\ LET t == IF errnum = "ERR_NONE" THEN type ELSE "none" IN
       IF suggested # "none" /\ suggested # t
         THEN errnum' = "ERR_EXEC_FORMAT" /\ type' = "none"
         ELSE type' = t /\ UNCHANGED errnum
  /\ entry_addr' = IF errnum = "ERR_NONE" /\ real_entry_addr # 0
                   THEN real_entry_addr ELSE entry_addr
  /\ pc' = "done"
  /\ UNCHANGED <<img, suggested, arg, big_linux, linux_mem_size, real_entry_addr, cur_addr, exec_type,
                 align_4k, text_len, data_len, bss_len, filepos, mem, seg,
                 loaded, symtab_err, symsAddr>>

Next ==
  \/ Probe \/ Classify \/ Fill \/ LinuxHeader \/ LinuxArgs \/ LinuxCopy \/ AoutLoad \/ AoutSyms
  \/ ElfSegment \/ ElfSegmentsDone \/ ElfShdrTable \/ ElfSection
  \/ ElfSectionsDone \/ ElfSymsDone \/ Finish

Spec == Init /\ [][Next]_vars

-----------------------------------------------------------------------------
(* Reference definitions, from the format descriptions of spec 3 and 4.1. *)

(* The format the detection order of spec 4.1 gives the file. *)
SpecFormat ==
  CASE img.kind = "elf" /\ ProbeLen > ELF_EHDR_SIZE
       /\ (MbFound \/ img.osabi_freebsd \/ img.brand_freebsd
           \/ suggested \in {"none", "netbsd", "openbsd"}) ->
         IF MbFound THEN "multiboot"
         ELSE IF suggested = "netbsd" THEN "netbsd"
         ELSE IF img.osabi_freebsd \/ img.brand_freebsd THEN "freebsd"
         ELSE "openbsd"
    [] KludgeFlag -> "multiboot"
    [] img.kind = "aout" /\ ProbeLen > EXEC_SIZE ->
         IF MbFound THEN "multiboot" ELSE IF img.fbsd_sig THEN "freebsd" ELSE "openbsd"
    [] BootSector -> IF img.big THEN "biglinux" ELSE "linux"
    [] OTHER -> "none"

NonEmpty(r) == r.hi > r.lo

(* The segments the headers of a non-Linux image declare, each as the   *)
(* file bytes then the zero fill (spec 3: file size <= memory size, the *)
(* remainder zero-filled).  An a.out image with a Multiboot header but  *)
(* no address fields declares no load address.                          *)
DeclaredSegments(t) ==
  LET Seg(a, f, m) == {[lo |-> a, hi |-> a + f, what |-> "file"],
                       [lo |-> a + f, hi |-> a + m, what |-> "zero"]}
  IN CASE img.kind = "elf" /\ t # "none" ->
            UNION {Seg(IF t \in BSD THEN ph.paddr % Mask24 ELSE ph.paddr,
                       IF ph.filesz > ph.memsz THEN ph.memsz ELSE ph.filesz,
                       ph.memsz) : ph \in {q \in Range(img.phdrs) : q.type = "load"}}
       [] KludgeFlag ->
            LET h == img.mbhdr
                lend == IF h.load_end_addr = 0 THEN h.load_addr + img.filemax
                        ELSE h.load_end_addr
                bend == IF h.bss_end_addr = 0 THEN lend ELSE h.bss_end_addr
            IN Seg(h.load_addr, lend - h.load_addr, bend - h.load_addr)
       [] img.kind = "aout" /\ ~MbFound ->
            LET e == img.a_entry % Mask24
                base == IF img.fbsd_sig THEN e ELSE ((e \div OneMB) % 16) * OneMB
                tEnd == base + img.a_text
                dAt == IF img.fbsd_sig \/ img.nmagic THEN Align4K(tEnd) ELSE tEnd
            IN {[lo |-> base, hi |-> tEnd, what |-> "file"]}
               \cup Seg(dAt, img.a_data, img.a_data + img.a_bss)
       [] OTHER -> {}

(* The ranges in use after the load: the image, and symbols kept. *)
Live == {r \in Range(mem) : NonEmpty(r) /\ (r.what # "sym" \/ symsAddr # 0)}

Success == pc = "done" /\ type # "none"

-----------------------------------------------------------------------------
TypeOK ==
  /\ pc \in {"probe", "classify", "linux", "linuxargs", "linuxcopy", "fill", "aout", "aoutsyms", "elf",
             "elfend", "elfsec", "elfsymsdone", "finish", "done"}
  /\ type \in Types
  /\ errnum \in {"ERR_NONE", "ERR_FILE_NOT_FOUND", "ERR_EXEC_FORMAT",
                 "ERR_BOOT_FEATURES", "ERR_BELOW_1MB", "ERR_WONT_FIT",
                 "ERR_NUMBER_PARSING"}
  /\ symtab_err \in {0, 1}
  /\ \A k \in DOMAIN mem : mem[k].lo <= mem[k].hi

(***************************************************************************)
(* A kernel load_image accepts is classified as the detection order of    *)
(* spec 4.1 says: Multiboot first, then ELF with its BSD flavour (hint     *)
(* NetBSD, else OS/ABI or brand FreeBSD, else OpenBSD), the kludge, plain  *)
(* a.out, Linux.                                                           *)
(***************************************************************************)
ClassifiedAsSpec == Success => type = SpecFormat

(***************************************************************************)
(* When load_image succeeds every segment the image declares is in memory *)
(* at its address: all its file bytes, then its zero fill.                *)
(***************************************************************************)
ImageComplete ==
  Success => {r \in DeclaredSegments(type) : NonEmpty(r)} \subseteq Live

(***************************************************************************)
(* Everything a successful load leaves in use lies in upper memory, at or *)
(* above 1 MiB and within mbi.mem_upper (spec 3: every segment's          *)
(* destination >= 1 MiB; spec 7: an image that exceeds its window is      *)
(* WontFit).                                                              *)
(***************************************************************************)
PlacedInUpperMemory ==
  Success => \A r \in Live : r.lo >= OneMB /\ r.hi <= OneMB + MemUpper * 1024

(***************************************************************************)
(* After a successful load cur_addr, where load_module places the next    *)
(* module, is past everything in use.                                      *)
(***************************************************************************)
CursorAboveImage == Success => \A r \in Live : r.hi <= cur_addr

(***************************************************************************)
(* Symbol tables are best effort (spec 4.1, 7): a load whose symbol table *)
(* is dropped still succeeds unless the suggested type disagrees.         *)
(***************************************************************************)
DebugSectionsBestEffort ==
  pc = "done" /\ symtab_err = 1 /\ suggested \in {"none", SpecFormat} => type # "none"

=============================================================================
