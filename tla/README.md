# TLA+ models of TrustedGRUB's measured-boot core

This directory holds TLA+ models of the trusted-boot parts of TrustedGRUB
(`src/`), the TLC configurations that check them, and `PROJECT.json`, which
records every module's correspondence to the source (`map`), every run,
the mutants that show each property can fail, the findings and the hazards.

## The system and its parts

TrustedGRUB is GRUB legacy with a TCG extension. These are the parts that
matter here, leaves first:

| Part | Source | Role |
|---|---|---|
| SHA1 engine | `src/util/sha1.c` 17-369 | streaming SHA1: `sha1_init`, `sha1_update` (buffers partial blocks), `sha1_finish` (padding and length) |
| File hasher (host) | `src/util/sha1.c` 381-467 | `calculate_sha1`: a file in `TCG_BUFFER_SIZE` (0xEFFF) rounds through the engine |
| PCR extend | `src/stage2/boot.c` 37-108 | `update_pcr`: checks the register is 8..15, asks the BIOS TPM interface to extend it |
| Measurement list (checkfile) | `src/stage2/boot.c` 120-298 | `load_checkfile`: parses a manifest of `<40 hex> <path>\n` records, hashes each file, extends PCR 13 with every matching digest, counts mismatches and asks the operator whether to go on |
| Boot-session switch | `src/stage2/stage2.c` 1091-1096, 1250-1264, 1301-1328 | `perform_sha1` (measure what `grub_read` loads) and `tpm_present()` |
| Offline verifier | `src/util/verify_pcr.c` | recomputes a PCR from an initial value and a list of files |
| `create_sha1` | `src/util/create_sha1.c` 9-37 | prints the SHA1 of a file, or its usage or an error |
| Format detector / loader | `src/stage2/boot.c` 308-1083 | `load_image`: Multiboot, ELF, a.out kludge, a.out, Linux |
| Module loader | `src/stage2/boot.c` 1086-1249 | `load_module`, with the `--with-password-dialog` splice and the `mll[99]` table |
| Initrd relocator | `src/stage2/boot.c` 1282-1340 | `load_initrd` |
| Boot menu | `src/stage2/stage2.c` 84-110, 827-850, 1087-1142, 1146-1218, 1223-1508 | `get_line_from_config` splits a file into command lines; `cmain` reads the preset menu and the configuration file into the entry buffers, checks the default and fallback entries, keeps a history of configuration files; `run_menu` boots an entry and falls back along the fallback list |
| NIC drivers | `src/netboot/ntulip.c`, `src/netboot/pcnet32.c` | the `struct nic` entry points (probe/reset, transmit, poll, disable) of the DEC Tulip and AMD PCnet32 cards, sharing descriptor rings with the card's DMA engine |
| BSD boot | `src/stage2/boot.c` 1374-1518, `src/stage2/openbsd.c` | `bsd_boot` reads the boot flags from the kernel command line and calls a FreeBSD or NetBSD kernel with the bootinfo block or argument list; `openbsd_boot` does the same for OpenBSD (not modelled, see below) |

The parts interact as follows.

- `cmain` switches `perform_sha1` off while it reads the saved-default file, and `run_menu` sets `perform_sha1 = 1` when an entry is booted. Both use the same `old_perform_sha1_value` global as `load_checkfile`.
- A boot entry's script may run `configfile`, which jumps back to the top of `cmain`'s loop with another file; the back key of the menu returns to the previous file through the history ring.
- `load_checkfile` turns measurement off while it reads the manifest and the files it names, keeping the old value in the global `old_perform_sha1_value`. It also calls `update_pcr`.
- The host tools `create_sha1` and `verify_pcr` include `sha1.c` and use its `calculate_sha1`. The verifier predicts the PCR value the boot produces.
- After a FreeBSD or NetBSD `load_image`, the `boot` command calls `bsd_boot`, which reads the command line `load_image` was given and the a.out symbol table it kept.
- A boot entry runs a `kernel` command (`load_image`), then `module` or `initrd` commands. Each of these loads its file at the static `cur_addr` that the previous load left. `load_initrd` also reads the Linux header that `load_image` staged just below `cur_addr`.
- The NIC drivers are the one place with real concurrency. The CPU runs one driver entry point at a time, while the card's DMA engine reads and writes the same descriptors and buffers whenever a descriptor's OWN bit gives it to the card. Which side may touch a descriptor is the whole protocol.
- Everything else runs on one thread. What is hard to test there is:
  - long call sequences and boundary sizes in the SHA1 engine and file hasher;
  - error paths that skip a restore;
  - manifests the parser does not expect;
  - the ordering of extends into an extend-only register.

## Modules

**`SHA1.tla`**: the engine as pure operators on a context record
`[lo, hi, vector, buffer]`.

- **Kept exactly:**
  - the counter split into a low and a high word and the carry test (`NextLo`, `Carry`);
  - the three phases of `sha1_update`: complete the buffered block (`FillsBlock`), process whole blocks, store the tail at `TailOffset`;
  - the rejection of a zero-length chunk (`UpdateRejects`);
  - `sha1_finish`'s bit length (`LengthHigh`) and padding length (`PadCount`).
- **Scaled:** a block is `BlockSize` bytes (64 in the code) and a counter word `Width` bits (32). The 8-byte length field becomes two positions, high and low.
- **Uninterpreted:** `sha1_process`. The vector is the sequence of blocks absorbed, which determines the real vector.
- **The buffer:**
  - A fresh context's buffer is `Garbage` (uninitialised stack memory).
  - A tail write is recorded with its index, so a write past the buffer grows the buffer's domain and `TypeOK` sees it.
- **Reference:** `RefPadded` and `RefDigest` are the FIPS 180-1 padding, scaled the same way.

**`SHA1Stream.tla`**: a caller of the engine.

- Arbitrary `sha1_update` calls (`UpdateChunk`) with chunks of 0..`MaxChunk` bytes, `Finish`, and `Reinit`.
- `Reinit` is `sha1_init` on a used context, as `verify_pcr` does for every file. `sha1_init` does not clear the buffer.

**`FileHasher.tla`**: `calculate_sha1` of the host tools.

- Actions: `Open` (open, stat, `sha1_init`, `memset`), `WholeRound` (the `while (bytes_to_copy > TCG_BUFFER_SIZE)` loop body), `LastRound` and `Finish`.
- `IntOf` is the conversion of `st_size` to `int` (two's complement, `IntBits` bits).
- `ReadInto` is `read()` into `tcgbuffer`. Its count is a `size_t`, so a negative int reads the rest of the file, and bytes past the buffer grow its domain.
- `LastLength` is the same `int` passed to `sha1_update` as a `t_U32` of `Width` bits, so a negative count becomes a large length. `sha1_update` refuses only 0, and bytes read past what was written are `Garbage` from the heap (`BufferPrefix`).

**`MeasurementList.tla`**: the abstract specification of the checkfile command, written from spec §4.6 and §6 at the level of whole records. `ParseFrom` is a RECURSIVE reference parse.

- Actions:
  - `Verify` processes one record. It is an error when the file is missing. A match extends the PCR if a TPM is present; otherwise it counts an error.
  - `Conclude` ends the run with an error if the manifest is malformed, with the prompt if there were errors, and with ok otherwise.
  - `Confirm` is the operator's answer.
- `ASafety` is the safety part.
- `AReachesFinal` is the liveness part. It is equivalent to `WF(ANext)`, because `ANext` is enabled exactly in the non-final statuses.

**`Checkfile.tla`**: `load_checkfile` byte by byte.

- **Actions, one per stretch of code:**
  - `Open` (lines 140-168): the measurement switch, open, size check and read;
  - `Record` (171-192): the loop test, 40 hash bytes and the separator check;
  - `NameByte` (194-217): one byte of the path;
  - `Hash` (218-281): hash the file, compare, count an error or extend;
  - `End` (282-297);
  - `Answer` (285-293): the operator's key.
- **Abstractions:**
  - A byte at or past `max_length` comes from the uninitialised stack array (`Readings`): any character.
  - The file named by a record is hashed by stage2's own `calculate_sha1`, which is not under `src/`. `FS` maps a path to a content, and `HexOf` gives the digest's hex rendering.
  - `tpm_present()` returns 0 when a TPM answered, per the comment at `stage2.c` 1256.
- **Refinement:** `ML` instantiates `MeasurementList`, mapping:
  - `manifest` ← `data`
  - `k` ← the number of records compared
  - `pcr` ← `pcr13`
  - `errors` ← `general_error`
  - `status` ← `Status`, which is computed from the control point and the return value.

**`OfflineVerifier.tla`**: `verify_pcr`'s `main`.

- Actions: `ParseArgs` (lines 21-76), `TestFile` (78-101, the `test -e` loop) and `HashFile` (103-145).
- A register is the byte sequence given on the command line, or `Ext(p, c)`: `p` extended with the digest of content `c`. SHA1 is treated as injective.
- Following the FileHasher result, `calculate_sha1` fails on a file that cannot be read or is empty.

**`LoadImage.tla`**: `load_image` (`boot.c` 308-1083) as a step machine over a kernel file given as a record of header fields.

- Actions:
  - `Probe` (333-376);
  - `Classify`, the format chain in the code's order (383-513, 775-776), with `ClassifyElf`, `ClassifyKludge`, `ClassifyAout` and `ClassifyNone`;
  - `Fill`, the early return (778-801);
  - `LinuxHeader`, `LinuxArgs` and `LinuxCopy` (514-775);
  - `AoutLoad` and `AoutSyms` (802-904);
  - `ElfSegment`, `ElfSegmentsDone`, `ElfShdrTable`, `ElfSection`, `ElfSectionsDone` and `ElfSymsDone` (905-1055);
  - `Finish` (1057-1083).
- `mem` records every range written, as file bytes, zeroes or symbol data.
- 32-bit values are TLA+ integers. Unsigned comparisons use `UGt`, and masks use `Bitwise`. The higher-half example base is 0x40100000 instead of 0xC0100000: both have the same low 24 bits, and TLC's integers stop at 2^31.
- `grub_read`, `grub_seek`, `memcheck` and `MULTIBOOT_FOUND` are GRUB code outside `src/`. They are modelled from their contracts:
  - a read is short at the end of the file;
  - a seek outside the file is refused;
  - `memcheck` refuses lower memory past `mem_lower` and anything past `mem_upper`.

**`BsdBoot.tla`** (extends `LoadImage`): `bsd_boot` (`boot.c` 1374-1518), run after a load of a FreeBSD or NetBSD kernel.

- `KernelLine` puts the kernel command's line into `MB_CMDLINE_BUF` (line 786). `load_image`'s BSD paths never read it, so any line of `Cmdlines` may be there.
- `BsdBootCall` is the whole of `bsd_boot`: the flag scan, the FreeBSD bootinfo block (kernel name cut out of the buffer in place, symbol table, memory sizes) or the NetBSD `end_mark`, and the call to the entry point, recorded in `call`.
- The command line is a sequence of characters. The scans are RECURSIVE operators over 0-based offsets, in the code's order: `SkipName` (which, like the code, starts one character in), `ScanFlags` and `OptionWord` (every character after a `-` up to a space sets its flag from the table `RB`), `SlashBack` and `KernelNameAt`.
- `AoutSymsKept` and `SymsEnd` read what `load_image` left: `MB_INFO_AOUT_SYMS` and the end of the size word, table, string size and strings.
- The references `RefKernelName` and `RefOptions` read the line as words: the last path component of the first word, and the letters of later words that start with `-`.

**`CreateSha1.tla`** (extends `FileHasher`): `main` of `create_sha1` (`create_sha1.c` 9-37). `Usage` is the call without a file name; `Hash` is one step of `calculate_sha1`; `Report` prints the error or the five digest words and returns. Output is abstracted to what it says.

**`BootSession.tla`** (extends `LoadImage`): a boot entry.

- `KernelStep` runs `load_image` to its return, and `KernelDone` records the type.
- `Command` dispatches each later command as GRUB's `builtins.c` does (outside `src/`, modelled from its contract):
  - `LoadModule` is `load_module`'s placement (1201-1249): 4 KiB rounding, the memory check, and the `mll` entry;
  - `LoadInitrd` is `load_initrd` (1282-1338): the read to `cur_addr`, the ceiling, the clamp below the kernel's `initrd_addr_max` and the 64 KiB margin. An empty initrd jumps to `fail` with `errnum` clear, which is a success.
- `MC_BootSession` takes its kernels from `MC_LoadImage`, which extends `BsdBoot`; its `MCS_Spec` holds BsdBoot's `cmdline` and `call` at their initial values, because a boot entry that goes on to module and initrd commands does not reach `bsd_boot`.

**`PasswordSplice.tla`**: the `--with-password-dialog` rewrite at the start of `load_module` (1086-1187).

- A string is a sequence of atoms: a space, the marker (22 characters), the marker with a quote (23), an ordinary word piece, and the atoms of the spliced `--password '<pw>' `. `Width` gives their lengths, so buffer sizes are counted in characters.
- `Tokenize` is one iteration of the reading loop. It skips a space and copies the next character, whatever it is.
- `Scan` is one iteration of the rebuild loop.
- `Prompt` is one pass of the do-while that reads the password twice.

**`ConfigMenu.tla`**: one pass after another of `cmain`'s loop (`stage2.c` 1223-1508) and the boot loop of `run_menu` (1087-1142).

- A file is a sequence of characters (see `ConfigLine`). `ReadChar` is one pass of `get_line_from_config`'s loop that does not end the line; the line it returns is what the parse actions read. Its command is its first word (`find_command`, outside this tree), its arguments what `skip_to (1, ..)` leaves, and the numbers of `default` and `fallback` are read from them (`Numbers`). A buffer is a sequence of cells, a string being one cell and a NUL; an empty title is the NUL alone.
- The history variable `got` collects the lines read from the current file, and `src` names that file.
- `Restart` is the top of the loop: `reset ()`, and the saved-default file read with measurement off (1271-1330). `Open` and `OpenFails` are the top of the do-while (1340-1357).
- `ParseUnknown`, `ParseTitle`, `ParseMenuCommand`, `ParseIgnored` and `ParseEntryLine` are the five ways one line goes through the reading loop (1356-1418). `EndOfFile` closes the last entry (1420-1436).
- `FallbackKept` and `FallbackDropped` are one iteration each of the validation loop (1441-1453), so a loop that does not end is a behaviour that stutters there. `ValidateDone` is the default check, the close and the history save (1455-1491).
- `Pick` and `Back` are the operator's keys. `ScriptBoots`, `ScriptFails`, `ScriptReturns` and `ScriptConfigFile` are the outcomes of `run_script` (1116-1142). A script that runs `configfile` sets `config_file` and jumps back to `Restart`.
- `GetEntry` translates `get_entry` (96-110), and the properties use it to read the buffers back.

**`ConfigLine.tla`**: `get_line_from_config` (`stage2.c` 1146-1218). `Step` is one pass of its loop over a character: carriage returns skipped, tabs made spaces, a backslash-newline replaced by a space over the backslash (`pos--`), comments and leading blanks skipped, and at most `maxlen` characters kept. The special characters are space, tab, CR, LF, backslash and `#`; any other atom is one character of a word. `RefLines` is the reference: the whole text with CRs dropped, tabs made spaces and backslash-newlines joined, split at newlines, with leading blanks, blank lines and comment lines removed and each line cut to `maxlen`.

**`NicRx.tla`**: what the receive side of a driver promises its caller. The good frames the card accepted (`inbox`) are delivered once each, intact, in arrival order (`Accept`, `Deliver`), and a reset may drop what the card holds (`Discard`). Both drivers are checked against it by refinement.

**`TulipNic.tla`**: `ntulip.c`, driver and card together.

- **Driver actions:**
  - `Probe` and `Reset` are `ntulip_probe` and `ntulip_reset` up to the wait (`ResetCard`, with `init_ring`);
  - `SetupWaitEnds` is the setup-frame wait and the Rx start;
  - `Transmit` and `TxWaitEnds` are `ntulip_transmit` before and after its wait;
  - `PollCrcError` and `PollFrame` are the two outcomes of `ntulip_poll`;
  - `Disable` is `ntulip_disable`.
- **Card actions:**
  - `CardReceive` stores a frame in the descriptor the card owns, or misses it;
  - `CardFetch` and `CardSent` take the transmit descriptor and later write its status back with OWN clear.
- **Time-outs:** `currticks()` is not modelled, so each wait may end on its time-out at any moment while the card still owns the descriptor.
- **Frames:** a received frame is a member of `Frames` with an error bit. A sent frame is the pair (header call, packet call), because the header sits in the shared `ehdr` and the packet is the caller's buffer.
- **Refinement:** `Inbox` maps the run of returned descriptors at `rxd_tail` onto `NicRx`'s `inbox`.

**`PCNet32.tla`**: `pcnet32.c` in the same style.

- `Probe` is `pcnet32_init`, which leaves `cur_rx` and `cur_tx` as they were.
- `Transmit` copies into the one `tx_buff` and gives `tx_ring[cur_tx]` to the card.
- `pcnet32_poll` is two steps, because the card can act between them:
  - `PollFree` returns the descriptor to the card and advances `cur_rx`;
  - `PollCopy` then copies the buffer.
- `Disable` stops the card. `pcnet32_reset` is empty.

**`ConfigHistory.tla`**: what the history ring promises, a stack of at most `CAP` files with push, pop-to-previous and switch. `ConfigMenu` maps the ring (`config_file_history`, `pos`, `start`) onto it as `HistStack`.

## Runs

| Run | Checks | Result and meaning |
|---|---|---|
| `sha1_stream` (`MC_SHA1Stream.cfg`) | `TypeOK`, `StreamInvariant`, `DigestMatchesReference` | pass. See below. |
| `checkfile` (`MC_Checkfile.cfg`) | `TypeOK`, `ImplementsMeasurementList` | pass. For every manifest of up to three records drawn from a good record for each file, a mismatch, a missing file, a bad separator and a too-long path, with and without TPM, and with every entry value of the two globals, `load_checkfile` implements `MeasurementList`. |
| `checkfile_flag` (`MC_CheckfileFlag.cfg`) | `MeasurementSwitchRestored` | violation. An unopenable checkfile returns with `perform_sha1 = 0`. |
| `file_hasher` (`MC_FileHasher.cfg`) | `TypeOK`, `DigestCorrect`, `PrintsDigestOfFile` | pass. For every non-empty file of up to 7 bytes, and files of up to 17 bytes that wrap the 4-bit byte counter, the buffer stays in bounds and a reported success carries the file's digest. The wrap exercises the carry into the high word and the bit length of `sha1_finish`. Run as `create_sha1` with and without a file name, the tool returns 0 exactly for a readable file and then prints that file's digest. |
| `offline_verifier` (`MC_OfflineVerifier.cfg`) | `PredictsRegister` | pass. A printed register is `argv[1]`'s value extended by the file digests in argument order. |
| `load_image` (`MC_LoadImage.cfg`) | `TypeOK`, `ClassifiedAsSpec`, `ImageComplete`, `PlacedInUpperMemory`, `CursorAboveImage`, `DebugSectionsBestEffort` | pass. The images are 28 kernels covering every branch, with 4 suggested types and 3 argument strings. A successful load is classified as spec §4.1 orders the formats, and every declared byte is loaded into upper memory below `cur_addr`. A failure of the symbol table alone never fails the load. After a FreeBSD or NetBSD load, `bsd_boot` is run on 1364 command lines: the kernel gets the symbol table `load_image` wrote (`SymbolsHandedOver`), FreeBSD gets the last component of the kernel's path as its name (`KernelNameAsReference`), and every option letter written reaches the boot flags (`EveryOptionHonoured`). |
| `boot_session` (`MC_BootSession.cfg`) | `ModulesPlaced`, `InitrdPlaced` | pass. The kernels are Multiboot, kludge, a.out and Linux. After each, modules and ramdisks that fit are placed in upper memory, clear of the kernel and of each other, and ramdisks stay under the kernel's initrd limit. |
| `password_splice` (`MC_PasswordSplice.cfg`) | `TypeOK`, `PassThrough`, `MarkersReplaced` | pass. The inputs are all arguments of up to four atoms containing the marker text. An argument without a marker token comes back unchanged. In a single-spaced argument, every marker token is replaced by a password entered twice. |
| `config_menu` (`MC_ConfigMenu.cfg`) | `TypeOK`, `LinesAsReference`, `EntriesMatchConfig`, `BootEntryValid`, `HistoryRefinement`, `MenuReached` | pass. Over a preset menu and three files, through `configfile` jumps and the back key: `get_line_from_config` returns the reference's logical lines; the buffers hold exactly the entries the file describes (titles with commands); every entry booted, picked, default or fallback, exists; the history ring implements `ConfigHistory`; and every pass reaches the menu or the command line. |
| `tulip_nic` (`MC_TulipNic.cfg`) | `TypeOK`, `RxRingInSync`, `ImplementsNicRx` | pass, 1,058,663 states in about 40 s. The card fills a three-descriptor ring concurrently with good and bad frames, while poll, transmit and reset interleave in any order. `rxd_tail` stays on the oldest descriptor the card returned, and the card fills the one after the returned run. Every good frame stored is delivered once, in arrival order. |
| `tulip_tx_timeout` (`MC_TulipNicTx.cfg`) | `TxFramesIntact` | violation. The setup frame's wait times out, and the first `ntulip_transmit` rewrites `txd` while the card still holds the setup frame. The card's late status write clears OWN of frame 1, which leaves its wait as sent and never goes out. |
| `pcnet32_rx_race` (`MC_PCNet32Rx.cfg`) | `ImplementsNicRx` | violation. `pcnet32_poll` gives the descriptor back before copying it, and a frame arriving in between replaces the one the caller gets. |

In the `sha1_stream` run, every sequence of `sha1_update` calls with chunks of 0..6 bytes, up to 8 bytes in all, with re-initialisation, keeps three properties:

- the buffer in bounds;
- the counter equal to the message length;
- absorbed blocks plus buffered bytes equal to the message.

Also, `sha1_finish` yields the reference digest.

Every property of a passing run has a mutant in `PROJECT.json`. A mutant is a plausible slip in the mapped code: a dropped carry test, an off-by-one in the fill test, the tail offset not reset, `<=` for `<` in the padding test, the high word of the length left out, the extend gate inverted, the path limit off by one, the round test off by one, the last length taken as the whole buffer, or the extend operands swapped. The newer modules add these mutants:

- the kludge test without its bss comparison;
- the ELF flavour without the `EI_OSABI` test;
- `p_filesz` not clamped to `p_memsz`;
- the 1 MiB floor dropped;
- the high-water mark taken from the last segment;
- the section alignment mask taken as `align`;
- the module memory check dropped;
- the initrd clamp dropped;
- the tokenizer skipping one character too many;
- a separator after the last token;
- the quoted marker not recognised;
- the history position wrapping one slot late;
- an entry closed after its title alone;
- a default entry equal to `num_entries` taken as present;
- the history start not moved on when the ring is full;
- the fallback shift moving one slot too few;
- `get_line_from_config` keeping `maxlen + 1` characters;
- `ntulip_poll`'s wrap test written as `rxd_tail > NRXD`;
- its error path without `rxd_tail++`;
- its test of the error bit left out;
- the symbol end without the size word in front of the table;
- the kernel name taken without testing for the slash;
- an option word read as its first letter only;
- `calculate_sha1`'s result ignored by `create_sha1`.

TLC finds the property violated under each.

### Further configurations

Each of these configurations shows another place where the code disagrees with a property stated in the modules. TLC finds the property violated in each. `PROJECT.json` lists them as hazards.

| Configuration | Property | What TLC shows |
|---|---|---|
| `MC_LoadImageTruncated.cfg` | `ImageComplete` | An ELF file that ends inside its segment leaves the loop with `break` and no error (line 965), and is reported loaded. |
| `MC_PasswordSpliceOverflow.cfg` | `CmdlineBuffersFit`, `FindArgsFit` | For `/m --with-password-dialog` and a 10-character password, the splice is longer than `new_cmdline` and `temp`, which are sized to the original argument. An argument of eleven words overflows `find_args[10]` (line 1091). Each invariant is violated on its own. |
| `MC_PCNet32Tx.cfg` | `TxInCallOrder` | Two `pcnet32_transmit` calls before the card sends the first: both descriptors point at `tx_buff`, so the second frame goes out in place of the first (lines 215-223). |
| `MC_CheckfileTail.cfg` | `ImplementsMeasurementList` | A manifest `"\n"` or one whose last record lacks its newline is parsed on into stack garbage, and a garbage record is hashed and extended. |
| `MC_FileHasherEmpty.cfg` | `HashesEveryFile` | The empty file is refused: the last `sha1_update` has length 0. |
| `MC_FileHasherWide.cfg` | `TypeOK`, `DigestCorrect` | With a 4-bit `int`, a size that is a negative `int` makes the last `read()` write the rest of the file past `tcgbuffer` (`TypeOK`, found first), and a 17-byte file is hashed as its first byte and reported as a success (`DigestCorrect`, alone). |
| `MC_LoadImageBrand.cfg` | `ClassifiedAsSpec` | An ELF kernel branded FreeBSD only in `e_ident[EI_BRAND]` passes the ELF gate as FreeBSD (line 386), but the flavour test (418-419) reads only `EI_OSABI`. The kernel is booted as OpenBSD. |
| `MC_LoadImageShdrCut.cfg` | `CursorAboveImage` | Unreadable section headers set `cur_addr = 0` (line 1049), and the load still succeeds. |
| `MC_LoadImageHugeDebug.cfg` | `DebugSectionsBestEffort` | A debug section too large for memory sets `errnum` in `memcheck` (line 1021) as well as `symtab_err`, so the whole load fails. |
| `MC_LoadImageSetup.cfg` | `PlacedInUpperMemory` | A bzImage shorter than its setup makes `text_len` wrap (line 561). The setup is then staged below 1 MiB. |
| `MC_LoadImageBss.cfg` | `PlacedInUpperMemory` | The text and bss of a kludge image are written without `memcheck` (lines 811-836). |
| `MC_BootSessionZero.cfg` | `ModulesPlaced` | After an ELF kernel whose section headers could not be read, `cur_addr` is 0 and the next module is loaded at address 0 (lines 1049, 1203). |
| `MC_BootSessionMany.cfg` | `ModuleTableBound` | The hundredth module is written past `mll[99]` (lines 1232-1239). |
| `MC_BootSessionBigRd.cfg` | `InitrdPlaced` | A ramdisk larger than the memory above the kernel is read past the top of memory and moved below 1 MiB (lines 1297-1320). |
| `MC_PasswordSpliceSpaces.cfg` | `SpliceAsSpec` | After two spaces the marker token starts with a space, so no password is asked for and the marker reaches the module (lines 1115-1138). |
| `MC_ConfigMenuSha1.cfg` | `MeasurementRestored` | Without a "default" file beside the configuration file, `perform_sha1` stays 0 while the file is read (`stage2.c` 1303-1327). |
| `MC_ConfigMenuHang.cfg` | `MenuReached` | A fallback line that fills the table (`fallback 0 1 2` on a file with one entry) makes the validation loop run forever (`stage2.c` 1441-1452). |
| `MC_LoadImageBsdFlags.cfg` | `OnlyOptionsSet` | `bsd_boot` looks for `-` anywhere after the file name, not only at the start of a word (lines 1388-1424): the line `k s-s` boots the kernel single-user. |
| `MC_ConfigLineEdge.cfg` | `LinesAsReference` | A line already `maxlen` characters long and continued with a backslash-newline loses its last character: the backslash was not stored, but `pos--` (line 1183) still steps back over it. |

### Bounds

- **SHA1.** `BlockSize = 4` keeps the three phases and both padding cases. `Width = 8` lets the counter hold 8 messages' worth of bits.
- **FileHasher.** `TCG_BUFFER_SIZE = 0xEFFF = 959*64 + 63` is one byte short of a whole number of blocks. `Chunk = 3` with `BlockSize = 4` has the same property, so successive rounds end at every offset within a block. Files of up to 7 bytes give two whole rounds and a last one. With `Width = 4`, the files of one byte value up to 17 bytes cross the counter wrap at 16. The wide runs use one byte value, so that files up to 17 bytes stay few. This is enough because the control depends only on the size. `create_sha1` is started with `argc` 1 and 2, the two branches of its test.
- **Checkfile.** `HashLen = 2` (40 in the code) and `NameMax = 2` (1023) keep the parser's structure. `BufMax = 15` admits three 5-byte records and refuses longer manifests, so the too-large path is also taken. The `Chars` set includes every byte the records use and one stranger, `x`.
- **OfflineVerifier.** `PcrLen = 1` (20), with up to three file arguments from four paths:
  - two readable files with different contents;
  - one file that exists but is unreadable;
  - one path that does not exist.

- **LoadImage.** Memory is 640 KiB lower and 4 MiB upper, which is small enough that an 8 MiB segment or bss does not fit. Each of the 28 images is built to reach one branch. For example, `ElfTwoSegs` lists its higher segment first, so the high-water mark must not follow the last segment. `StaleAddrs = {0, 2 MiB}` is the `cur_addr` a previous load may have left, which matters for an a.out kernel with a Multiboot header and no kludge flag. The hints are none, NetBSD, Multiboot and big Linux. Among the three argument strings, one has a bad `vga=` and one has `mem=64m`.
- **BsdBoot.** Four file names (no slash, a leading slash, two slashes, a trailing slash) followed by every tail of up to four characters over space, `-`, `s` and `v`: 1364 lines. They contain double and trailing spaces, options glued to the name, several option words, and a `-` inside a word, which are the cases the scans treat differently. The kernel is every FreeBSD and NetBSD image of LoadImage, a.out with and without symbols and ELF.
- **BootSession.** Seven kernels are followed by five command scripts. The scripts include:
  - modules of 4 KiB, 10 000 and 300 000 bytes;
  - two modules of 2.5 MB, where the second does not fit after a Multiboot kernel and is clamped under a 4 MiB `initrd_addr_max` after a Linux one;
  - a missing file and an empty file;
  - an initrd followed by a module.
  The memory is the same as in LoadImage.
- **ConfigMenu.** `MAX_FALLBACK_ENTRIES = 3` (8 in GRUB) and `CONFIG_FILE_HISTORY_ENTRIES = 4` (10): a fallback list of two is one short of the table, and five saves wrap the ring. `maxlen = 7` (`NEW_HEAPSIZE`, 1500) is long enough for `fallback 0 1 2`, and one kernel line of 8 characters is cut. File A has a default and a fallback out of range, a title with no command, an unknown command and a trailing title with no command; its lines also contain a leading tab, a tab between numbers, a DOS line end, blank lines, a comment whose backslash-newline swallows a title line, a title joined across a backslash-newline, and no final newline. B has two entries, the second with an empty title, a default replaced by the first fallback, and a fallback line inside an entry; C cannot be opened. Only A has a default file. Any file can be the target of `configfile`, so the ring fills, wraps and is walked back.
- **TulipNic.** `Frames = {f1, f2}` tell order and duplication apart. `NRXD = 3` (4 in the code) lets the ring wrap and fill. Four arrivals fill it and overflow it once, with good and bad frames. Two transmit calls let a late frame overlap the next call, and resets may come at any point.
- **PCNet32.** Rings of two descriptors (16 in the code), three arrivals and three transmit calls, on a clean link, so that the error bit is not the first thing found.
  - With 16 descriptors the receive race needs a full ring when poll starts, because the card then waits on the very descriptor poll frees. A backlog of frames while the loader is busy produces that.
  - The transmit race needs only two calls before the card's first send.
- **PasswordSplice.** The inputs are every argument of up to four atoms over word, space, marker and quoted marker that contains the marker text: 310 strings. Double and trailing spaces and a marker glued to a word all occur. There are two 3-character passwords, so the prompt loop both repeats and ends.

### Fairness

Every module is a sequential function that runs to completion, so `WF_vars(Next)` is the fairness the code justifies. The one wait is `getkey()` at the integrity prompt, and the model assumes the operator eventually presses a key. The modelled functions return, so the cfgs say `CHECK_DEADLOCK FALSE`: a final state is where the function has returned. `ConfigMenu` assumes `WF_vars(Load)` for `cmain`'s own steps (reading, checking, saving), which need no input; the operator's keys and the outcomes of the scripts get no fairness. `LoadImage`, `BootSession`, `PasswordSplice` and the NIC models state only safety properties and assume no fairness. The NIC runs say `CHECK_DEADLOCK FALSE`: after `disable` the loader hands the machine to the kernel and the driver is not entered again. The password prompt waits for the operator, who may never type two matching entries.

## Findings

- **Measurement stays off after a checkfile error** (`boot.c` 151, 158, 190, 215, 223). Run: `checkfile_flag`. The restore of `perform_sha1` is only on the normal return. A missing, oversized or malformed checkfile leaves later kernels and modules unmeasured. The stale `old_perform_sha1_value` can also switch measurement on.
- **Reading past the manifest** (`boot.c` 174-178, 198-216). Configuration: `MC_CheckfileTail.cfg`. No comparison with `max_length` happens inside a record.
- **Empty files cannot be hashed by the host tools** (`sha1.c` 453). Configuration: `MC_FileHasherEmpty.cfg`. Spec §4.5 says the final, possibly empty, chunk is processed.
- **Files of 2 GiB and more** (`sha1.c` 404, 452). Configuration: `MC_FileHasherWide.cfg`. Sizes of 4 GiB and more get a prefix's digest. Sizes of 2 to 4 GiB overflow the heap buffer.
- **The TPM gate.** The spec (§4.6, §9) reads `if (!tpm_present())` at `boot.c` 275 as "extend when the TPM is absent". The comment at `stage2.c` 1256 and its use at 1257-1262 say that `tpm_present()` returns 0 when a TPM is present, so the code extends exactly when a TPM is present. The model follows the code and the comment. `ExtendGateInverted` is the spec's reading, and the refinement run rejects it.
- **A truncated ELF kernel is accepted** (`boot.c` 958-965). Configuration: `MC_LoadImageTruncated.cfg`. A failed read or `memcheck` of a segment leaves the loop without an error.
- **A module at address 0** (`boot.c` 1049, 1203). Configuration: `MC_BootSessionZero.cfg`. `load_image` succeeds with `cur_addr = 0` when it drops the section headers.
- **Measurement left off without a default file** (`stage2.c` 1303-1327). Configuration: `MC_ConfigMenuSha1.cfg`. The restore is inside the branch where the default file opened, so the configuration file, and on a file without entries the command line, run unmeasured.
- **A full fallback list hangs stage2** (`stage2.c` 1441-1452). Configuration: `MC_ConfigMenuHang.cfg`. The memmove leaves the last slot unchanged, and `i--` looks at it again forever.
- **A continued line at the length limit loses a character** (`stage2.c` 1183, 1210). Configuration: `MC_ConfigLineEdge.cfg`. A backslash beyond `maxlen` is not stored, but the newline after it still moves `pos` back, so the last kept character becomes a space. With `NEW_HEAPSIZE` at 1500 this needs a line of 1500 characters.
- **The password splice overflows its stack buffers** (`boot.c` 1099-1100, 1164-1169). Configuration: `MC_PasswordSpliceOverflow.cfg`. An argument rebuilt to its full length also leaves `new_cmdline` without a NUL.
- **A transmit time-out lets the next frame be lost** (`ntulip.c` 676-681, 711-722, 733-738). Run: `tulip_tx_timeout`.
  - A wait for OWN that times out only prints, and the card keeps the descriptor.
  - The next `ntulip_transmit` rewrites `txd` and `ehdr` under it.
  - The card's late status write clears OWN, so the new frame is taken as sent and never goes out.
  - A frame the card had fetched goes out with the new header.
- **pcnet32 hands the caller a frame the card is overwriting** (`pcnet32.c` 252-260). Run: `pcnet32_rx_race`.
  - `pcnet32_poll` sets OWN and advances `cur_rx` before copying the buffer.
  - With a full ring, the next frame lands in that buffer during the copy, and the copy uses the old length.
  - `pcnet32_poll` never tests the error bits, so frames with CRC errors are delivered as well.
- **A `-` inside a word sets boot flags** (`boot.c` 1388-1424). Configuration: `MC_LoadImageBsdFlags.cfg`. `bsd_boot`'s outer loop starts an option word at any `-` after the kernel file name, so a path or value containing `-s` boots FreeBSD or NetBSD single-user.
- **pcnet32 transmits out of one buffer without checking OWN** (`pcnet32.c` 206-223). Configuration: `MC_PCNet32Tx.cfg`.
- The further configurations above show the remaining disagreements. They are recorded as hazards in `PROJECT.json`.

## Not modelled, and why

- The data path of `sha1_process` (80 rounds). It is uninterpreted: the engine's properties are about which bytes reach it in which order. On LP64 hosts `t_U32` is 64 bits and `create_sha1` prints the unmasked upper bits. This is a printing issue only, and it is listed as a hazard.
- The TPM transport (`tcg_hash_extend_pcr`) and the layout of the command buffer. The model assumes every extend happens, because the code never reads the answer.
- A file changing while `calculate_sha1` or `verify_pcr` runs.
- Of the boot menu: the screen, key handling beyond pick and back, entry editing, search, the saved-default number, and the command line (`enter_cmdline` is not in this tree). The `default` and `fallback` commands are in `builtins.c`, also not in the tree; they are modelled by what they set.
- `openbsd_boot` (`openbsd.c`). Its text in this tree is incomplete and does not compile: blank lines stand for the body of the flag loop, the `end_mark` expression, the body of `xxx_memcpy` and the arguments of the entry call. A model of it would be invented, not translated.
- The disk geometry `get_diskinfo` puts into FreeBSD's `bi_bios_geom` (`bios.c`, not under `src/`).
- `create_sha1`'s formatting of the digest (`%08lx`) and the `sha1sum` command it builds but never runs.
- Of the NIC drivers:
  - the MII and EEPROM bit-banging (`mdio_read`, `mdio_write`, `do_mii`, `read_eeprom`), which only reads the MAC address and media data;
  - the chip-specific register values of `ntulip_reset`;
  - the PCI bus-master bit of `pcnet32_probe`;
  - the unbounded wait for the init-done bit in `pcnet32_init` (line 179), which hangs only on a card that never finishes its initialisation;
  - frame lengths (`packetlen`, `msg_length - 4`).
- In `load_image`, the following are left out:
  - the Multiboot video-mode request (`match_vbe`);
  - the layout of the Linux command line copied to the setup area;
  - the byte contents of files, which are abstracted to the header fields the code tests.
- The console output of `load_module`'s dialog (`gotoxy`, `printf`).
- `create_vbe_module` (VESA information placed at `cur_addr`) and `set_load_addr`, which set `cur_addr` outside the kernel, module and initrd commands modelled here.

## Plan (next modules)

1. `Session.tla`: `ConfigMenu`'s boot loop composed with `Checkfile` and `BootSession`, so that a script's `checkfile`, `kernel` and `module` commands share `perform_sha1`. The planned property is that kernels and modules are measured after `boot_entry`.
2. The verifier composed with `Checkfile`: the offline prediction equals the live PCR 13 (spec §8).
3. The ELF program-header bound at `boot.c` 404. This needs the table's offset in the image records.
4. `TulipNic`: a liveness property for receive (a good frame stored is eventually delivered), under weak fairness of the poll loop that `eth_poll`'s callers run.
