---------------------------- MODULE MC_LoadImage ----------------------------
(***************************************************************************)
(* Kernel files for LoadImage.  Each is a record of the header fields     *)
(* load_image reads; Base gives the fields a format does not use.  Sizes  *)
(* are bytes, addresses physical; memory is 640 KiB lower and 4 MiB upper. *)
(***************************************************************************)
EXTENDS BsdBoot

MB == 1048576
NoHdr == [header_addr |-> 0, load_addr |-> 0, load_end_addr |-> 0,
          bss_end_addr |-> 0, entry_addr |-> 0]
Base == [exists |-> TRUE, filemax |-> 65536, kind |-> "junk",
         mboff |-> -1, mbflags |-> {}, mbhdr |-> NoHdr,
         osabi_freebsd |-> FALSE, brand_freebsd |-> FALSE, e_entry |-> 0,
         e_phoff |-> 52, e_phentsize |-> 32, phdrs |-> << >>,
         e_shoff |-> 0, e_shentsize |-> 40, shdrs |-> << >>,
         fbsd_sig |-> FALSE, nmagic |-> FALSE, a_entry |-> 0, a_text |-> 0,
         a_data |-> 0, a_bss |-> 0, a_syms |-> 0, strsize |-> 0, txtoff |-> 0,
         setup_sects |-> 0, hdr_magic |-> FALSE, version |-> 0, big |-> FALSE,
         initrd_addr_max |-> 939524095]

Load(off, fs, ms, pa, va) ==
  [type |-> "load", offset |-> off, filesz |-> fs, memsz |-> ms, paddr |-> pa, vaddr |-> va]
Note == [type |-> "note", offset |-> 0, filesz |-> 0, memsz |-> 0, paddr |-> 0, vaddr |-> 0]
Sec(a, sz, al, off) == [addr |-> a, size |-> sz, align |-> al, offset |-> off]

(* ELF images: a text segment from offset 4096 and a section table after *)
(* it holding a loaded section, a debug section and an empty one.        *)
Elf(mb, pa, va, entry, fs, ms) ==
  [Base EXCEPT !.kind = "elf", !.mboff = IF mb THEN 4096 ELSE -1,
               !.e_entry = entry, !.phdrs = << Note, Load(4096, fs, ms, pa, va) >>,
               !.shdrs = << Sec(pa, 100, 4, 4096), Sec(0, 200, 4, 4096 + fs),
                            Sec(0, 0, 1, 0) >>,
               !.e_shoff = 4096 + fs + 200, !.filemax = 4096 + fs + 200 + 120]

ElfMultiboot  == Elf(TRUE, MB, MB, MB + 16, 8192, 12288)
ElfHigherHalf == Elf(TRUE, MB, 1074790400, 1074790416, 8192, 8192)   \* vaddr 0x40100000
ElfFreeBSD    == [Elf(FALSE, 1074790400, 1074790400, 1074790400, 4096, 8192)
                    EXCEPT !.osabi_freebsd = TRUE]
ElfBelow1MB   == Elf(TRUE, 524288, 524288, MB, 4096, 4096)
ElfTooBig     == Elf(TRUE, MB, MB, MB, 4096, 8 * MB)
ElfNoLoad     == [Elf(TRUE, MB, MB, MB, 4096, 4096) EXCEPT !.phdrs = << Note >>]
ElfPlain      == Elf(FALSE, 1074790400, 1074790400, 1074790400, 4096, 4096)
ElfOverlong   == Elf(TRUE, MB, MB, MB + 16, 8192, 4096)        \* filesz > memsz
ElfTwoSegs    == [Elf(TRUE, MB, MB, MB, 4096, 4096)            \* data above text
                    EXCEPT !.phdrs = << Load(8192, 4096, 8192, 2 * MB, 2 * MB),
                                        Load(4096, 4096, 4096, MB, MB) >>,
                           !.e_shoff = 12288 + 200, !.filemax = 12288 + 200 + 120]

(* a.out images: text at txtoff, data after it, then the symbol table. *)
Aout(sig, nm, entry, t, d, b, syms, strs, fmax) ==
  [Base EXCEPT !.kind = "aout", !.fbsd_sig = sig, !.nmagic = nm,
               !.a_entry = entry, !.a_text = t, !.a_data = d, !.a_bss = b,
               !.a_syms = syms, !.strsize = strs, !.txtoff = 4096, !.filemax = fmax]

AoutFreeBSD   == Aout(TRUE, FALSE, 1074790400, 4096, 4096, 4096, 64, 20, 12288 + 64 + 20)
AoutOpenBSD   == Aout(FALSE, FALSE, 2 * MB + 32, 100, 50, 30, 0, 0, 4096 + 150)
AoutNmagic    == Aout(FALSE, TRUE, 2 * MB + 32, 100, 50, 30, 0, 0, 4096 + 150)
AoutBadSyms   == Aout(TRUE, FALSE, MB, 4096, 0, 0, 16, 100000, 8192 + 16 + 20)
AoutTinyStrs  == Aout(TRUE, FALSE, MB, 4096, 0, 0, 16, 2, 8192 + 16 + 20)
AoutShort     == Aout(TRUE, FALSE, MB, 8192, 0, 0, 0, 0, 8192)
AoutMultiboot == [Aout(FALSE, FALSE, MB, 100, 0, 0, 0, 0, 4096 + 100)
                    EXCEPT !.mboff = 64]

(* Multiboot kludge images: header at offset 0 with explicit addresses. *)
Kludge(h, fmax) == [Base EXCEPT !.mboff = 0, !.mbflags = {"kludge"}, !.mbhdr = h,
                               !.filemax = fmax]
KludgeWhole == Kludge([header_addr |-> MB, load_addr |-> MB, load_end_addr |-> 0,
                       bss_end_addr |-> 0, entry_addr |-> MB + 32], 8192)
KludgeBss   == Kludge([header_addr |-> MB, load_addr |-> MB, load_end_addr |-> MB + 4096,
                       bss_end_addr |-> MB + 8192, entry_addr |-> MB + 32], 8192)
KludgeBad   == Kludge([header_addr |-> MB, load_addr |-> MB, load_end_addr |-> MB + 4096,
                       bss_end_addr |-> MB + 100, entry_addr |-> MB + 32], 8192)

(* Linux images. *)
Linux(magic, ver, big, ss, fmax) ==
  [Base EXCEPT !.kind = "linux", !.hdr_magic = magic, !.version = ver, !.big = big,
               !.setup_sects = ss, !.filemax = fmax]
BzImage     == Linux(TRUE, 516, TRUE, 0, 100000)
ZImage      == Linux(TRUE, 513, FALSE, 12, 20000)
OldLinux    == Linux(FALSE, 0, FALSE, 7, 10000)
ZImageBig   == Linux(TRUE, 514, FALSE, 4, 600000)
LinuxBadSects == Linux(TRUE, 516, TRUE, 65, 100000)

(* Files of no known format. *)
Straddling  == [Base EXCEPT !.mboff = 8184, !.filemax = 9000]    \* header crosses 8192
Unsupported == [Base EXCEPT !.mboff = 0, !.mbflags = {"unsupported"}]
TooShort    == [Base EXCEPT !.filemax = 20]
Missing     == [Base EXCEPT !.exists = FALSE]

MC_Images ==
  {ElfMultiboot, ElfHigherHalf, ElfFreeBSD, ElfBelow1MB, ElfTooBig, ElfNoLoad,
   ElfPlain, ElfOverlong, ElfTwoSegs,
   AoutFreeBSD, AoutOpenBSD, AoutNmagic, AoutBadSyms, AoutTinyStrs, AoutShort,
   AoutMultiboot,
   KludgeWhole, KludgeBss, KludgeBad,
   BzImage, ZImage, OldLinux, ZImageBig, LinuxBadSects,
   Straddling, Unsupported, TooShort, Missing}
MC_Hints == {"none", "netbsd", "multiboot", "biglinux"}
NoMem == [kind |-> "none", n |-> 0, unit |-> ""]
MemOpt(n, u) == [kind |-> "num", n |-> n, unit |-> u]
MC_Args == {[vga |-> "none", mem |-> NoMem], [vga |-> "bad", mem |-> NoMem],
            [vga |-> "ok", mem |-> MemOpt(64, "m")]}
MC_StaleAddrs == {0, 2 * MB}

\* Command lines for bsd_boot: a kernel path with no, one or two slashes
\* (or ending in one), then up to four characters of options and words,
\* so option words, several words, a "-" inside a word and a "-" glued to
\* the file name all occur.
MC_Names == {<<"k">>, <<"/", "k">>, <<"/", "b", "/", "k">>, <<"b", "/">>}
MC_Cmdlines == {n \o r : n \in MC_Names, r \in BoundedSeq({" ", "-", "s", "v"}, 4)}

(* Images the code handles otherwise than spec 3, 4.1 and 7 describe. *)
ElfBrandFreeBSD == [ElfFreeBSD EXCEPT !.osabi_freebsd = FALSE, !.brand_freebsd = TRUE]
ElfShdrCut   == [ElfMultiboot EXCEPT !.filemax = 4096 + 8192 + 200 + 60]
ElfTruncated == [ElfMultiboot EXCEPT !.filemax = 4096 + 4000]
ElfHugeDebug == [ElfMultiboot EXCEPT !.shdrs[2].size = 8 * MB, !.filemax = 9 * MB]
BzImageCut   == Linux(TRUE, 516, TRUE, 4, 1024)
KludgeHugeBss == Kludge([header_addr |-> MB, load_addr |-> MB, load_end_addr |-> MB + 4096,
                         bss_end_addr |-> 9 * MB, entry_addr |-> MB + 32], 8192)

MCBrand_Images == {ElfFreeBSD, ElfBrandFreeBSD}
MCShdrCut_Images == {ElfMultiboot, ElfShdrCut}
MCTruncated_Images == {ElfMultiboot, ElfTruncated}
MCHugeDebug_Images == {ElfMultiboot, ElfHugeDebug}
MCSetup_Images == {BzImage, BzImageCut}
MCBss_Images == {KludgeBss, KludgeHugeBss}
MCNoHint == {"none"}

=============================================================================
