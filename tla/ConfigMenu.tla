------------------------------ MODULE ConfigMenu ------------------------------
(***************************************************************************)
(* One pass of cmain (stage2.c 1223-1508) and the boot loop of run_menu   *)
(* (1087-1140): the saved-default file is read with measurement switched  *)
(* off, the preset menu and then the configuration file are read line by  *)
(* line into the flat buffers menu_entries and config_entries, the        *)
(* fallback list and the default entry are checked against the number of *)
(* entries, the file is pushed on the history ring, and the menu (or the  *)
(* command line) takes over.  From the menu an entry is booted, falling   *)
(* back along the fallback list when its script fails; the back key and   *)
(* the configfile command start cmain's loop again.                       *)
(*                                                                         *)
(* A file is a sequence of characters (ConfigLine), read one command line *)
(* at a time by get_line_from_config.  A word atom is one character; the  *)
(* command of a line is its first word, its arguments what skip_to (1, ..) *)
(* leaves.  A string of a buffer is one cell holding its characters,      *)
(* followed by the NUL cell; the empty string is the NUL cell alone.      *)
(***************************************************************************)
EXTENDS Integers, Sequences, SequencesExt, ConfigLine

CONSTANTS
  Files,            \* configuration file names
  InitialFile,      \* config_file when stage2 starts
  Content,          \* Content[f]: the characters of f
  Missing,          \* files grub_open cannot open
  DefaultFile,      \* DefaultFile[f]: the "default" file beside f opens
  HasPreset,        \* preset_menu is compiled in
  PresetMenu,       \* its characters
  Commands,         \* names of the commands that are neither title nor menu commands
  Digit,            \* the word atoms that are numbers, mapped to their value
  MAX_FALLBACK_ENTRIES,
  CONFIG_FILE_HISTORY_ENTRIES

NUL == << >>
H == CONFIG_FILE_HISTORY_ENTRIES
NoName == ""    \* an empty slot of config_file_history
PresetName == "preset menu"
Text(f) == IF f = PresetName THEN PresetMenu ELSE Content[f]
MenuCommands == {"default", "fallback"}

VARIABLES
  phase,            \* "start" (top of for (;;)), "open", "parse", "validate",
                    \* "menu", "boot", "booted", "cmdline"
  perform_sha1, old_perform_sha1_value,
  sha1_at_start,    \* history: perform_sha1 at the top of the pass
  config_file,
  preset_open,      \* preset_menu != 0
  is_preset,
  lines,            \* the characters not yet read
  src,              \* history: the file being read, or PresetName
  got,              \* history: the command lines read from it so far
  cmd, literal, comment,   \* get_line_from_config's cmdline[0 .. pos-1] and flags
  state,            \* 0, 1, or 2 for every state > 1
  menu, config,     \* menu_entries[0 .. menu_len-1], config_entries[..]
  prev_menu_len, prev_config_len,
  num_entries, default_entry,
  fallback_entries, fallback_entryno,
  fb_i,             \* i of the validation loop (1441-1453)
  entryno,          \* first_entry + entryno of the entry being booted
  hist, hist_pos, hist_start, hist_prev   \* config_file_history*

vars == <<phase, perform_sha1, old_perform_sha1_value, sha1_at_start, config_file,
          preset_open, is_preset, lines, src, got, cmd, literal, comment, state, menu,
          config, prev_menu_len,
          prev_config_len, num_entries, default_entry, fallback_entries,
          fallback_entryno, fb_i, entryno, hist, hist_pos, hist_start, hist_prev>>

Slots == 0 .. MAX_FALLBACK_ENTRIES - 1

(* The first word of a line, up to the first space. *)
WordEnd(l) == IF \E i \in DOMAIN l : l[i] = SP
              THEN CHOOSE i \in DOMAIN l : l[i] = SP /\ \A j \in 1 .. i - 1 : l[j] # SP
              ELSE Len(l) + 1
Cmd(l) == SubSeq(l, 1, WordEnd(l) - 1)

(* skip_to (1, cmdline): what follows the first word and its spaces. *)
Args(l) == TrimLeft(SubSeq(l, WordEnd(l), Len(l)))

(* find_command (cmdline.c) knows the command of the line. *)
Names == {"title"} \cup MenuCommands \cup Commands
IsKnown(l) == Cmd(l) \in {<<n>> : n \in Names}
IsTitle(l) == Cmd(l) = <<"title">>
IsMenuCommand(l) == Cmd(l) \in {<<n>> : n \in MenuCommands}

(* safe_parse_maxint and skip_to (0, ..) in turn: the numbers at the     *)
(* start of an argument, each followed by spaces.                         *)
RECURSIVE Numbers(_)
Numbers(a) == IF a # << >> /\ Head(a) \in DOMAIN Digit
              THEN <<Digit[Head(a)]>> \o Numbers(TrimLeft(Tail(a))) ELSE << >>

(* A string copied into a buffer with its NUL. *)
Str(t) == IF t = << >> THEN <<NUL>> ELSE <<t, NUL>>

(***************************************************************************)
(* Strings of a flat buffer, as get_entry (96-110) walks them.            *)
(***************************************************************************)
RECURSIVE AfterNul(_, _)
AfterNul(s, p) == IF s[p] = NUL THEN p + 1 ELSE AfterNul(s, p + 1)

RECURSIVE AfterEntry(_, _)
AfterEntry(s, p) == LET q == AfterNul(s, p) IN
                    IF s[q] = NUL THEN q + 1 ELSE AfterEntry(s, q + 1)

(* The index of the num-th string (nested: the num-th entry) of s. *)
RECURSIVE GetEntry(_, _, _)
GetEntry(s, num, nested) ==
  IF num = 0 THEN 1
  ELSE LET p == GetEntry(s, num - 1, nested) IN
       IF nested THEN AfterEntry(s, p) ELSE AfterNul(s, p)

(* The mutants below are plausible slips in the lines the operators after *)
(* them translate.                                                       *)
ShiftOneShort(fe, i) == [j \in Slots |-> IF i <= j /\ j < MAX_FALLBACK_ENTRIES - 2
                                         THEN fe[j + 1] ELSE fe[j]]
NextPosOffByOne(p) == IF p + 1 > H THEN 0 ELSE p + 1
StartKept(s, p) == s
ClosesOffByOne(st) == st >= 1
DefaultMissingOffByOne(d, n) == d > n

(* reset () and init_config () (1229-1238): empty buffers, no entries,   *)
(* default entry 0, no fallback.                                          *)
Reset ==
  /\ num_entries' = 0 /\ menu' = << >> /\ config' = << >>
  /\ default_entry' = 0 /\ fallback_entryno' = -1
  /\ fallback_entries' = [fallback_entries EXCEPT ![0] = -1]

(* grub_memmove (fallback_entries + i, fallback_entries + i + 1, ..),    *)
(* 1447-1450: the slots after i move down one; the last keeps its value. *)
Shift(fe, i) == [j \in Slots |-> IF i <= j /\ j < MAX_FALLBACK_ENTRIES - 1
                                 THEN fe[j + 1] ELSE fe[j]]

(* ++config_file_history_pos wrapping at the end of the ring (1485-1486). *)
NextPos(p) == IF p + 1 = H THEN 0 ELSE p + 1

(* The oldest slot after a save: when the ring is full it moves on       *)
(* (1487-1489).                                                           *)
StartAfterSave(s, p) == IF s = p THEN NextPos(s) ELSE s

(* The slot before config_file_history_prev_pos (843). *)
BackPos(p) == IF p = 0 THEN H - 1 ELSE p - 1

(* The entry being read has a command, so a title or the end of the file *)
(* closes it (1373, 1420).                                                *)
Closes(st) == st > 1

(* The default entry is not in the menu (1461). *)
DefaultMissing(d, n) == d >= n

(* After the do-while (1494-1505). *)
UI(n) == IF n = 0 THEN "cmdline" ELSE "menu"

Init ==
  /\ phase = "start"
  /\ perform_sha1 \in {0, 1} /\ old_perform_sha1_value = 0
  /\ sha1_at_start = perform_sha1
  /\ config_file = InitialFile
  /\ preset_open = HasPreset /\ is_preset = FALSE
  /\ lines = << >> /\ src = NoName /\ got = << >> /\ state = 0
  /\ cmd = << >> /\ literal = FALSE /\ comment = FALSE
  /\ menu = << >> /\ config = << >> /\ prev_menu_len = 0 /\ prev_config_len = 0
  /\ num_entries = 0 /\ default_entry = 0
  /\ fallback_entries = [j \in Slots |-> -1] /\ fallback_entryno = -1
  /\ fb_i = 0 /\ entryno = 0
  /\ hist = [j \in 0 .. H - 1 |-> NoName]
  /\ hist_pos = 0 /\ hist_start = 0 /\ hist_prev = 0

-----------------------------------------------------------------------------
(* The top of cmain's loop (1271-1330): reset (), then the "default" file  *)
(* beside config_file is read with measurement switched off; measurement  *)
(* is switched back on only when that file opened.  No file is on the     *)
(* network device "(nd)", so the default file is always tried.           *)
Restart ==
  /\ phase = "start"
  /\ Reset
  /\ sha1_at_start' = perform_sha1
  /\ LET old == IF perform_sha1 # 0 THEN perform_sha1 ELSE old_perform_sha1_value
         off == IF perform_sha1 # 0 THEN 0 ELSE perform_sha1
     IN /\ old_perform_sha1_value' = old
        /\ perform_sha1' = IF DefaultFile[config_file] /\ old # 0 THEN old ELSE off
  /\ phase' = "open"
  /\ UNCHANGED <<config_file, preset_open, is_preset, lines, src, got, cmd, literal,
                 comment, state, prev_menu_len,
                 prev_config_len, fb_i, entryno, hist, hist_pos, hist_start, hist_prev>>

(* The top of the do-while (1342-1357): the preset menu, while it is     *)
(* still there, else config_file; then reset () once more.                *)
Open ==
  /\ phase = "open"
  /\ preset_open \/ config_file \notin Missing
  /\ is_preset' = preset_open
  /\ src' = IF preset_open THEN PresetName ELSE config_file
  /\ lines' = Text(src') /\ got' = << >>
  /\ UNCHANGED <<cmd, literal, comment>>
  /\ Reset
  /\ state' = 0 /\ prev_menu_len' = 0 /\ prev_config_len' = 0
  /\ phase' = "parse"
  /\ UNCHANGED <<perform_sha1, old_perform_sha1_value, sha1_at_start, config_file,
                 preset_open, fb_i, entryno, hist, hist_pos, hist_start, hist_prev>>

(* Neither opens: the do-while ends (1349-1350) with what the last pass  *)
(* left.                                                                  *)
OpenFails ==
  /\ phase = "open"
  /\ ~preset_open /\ config_file \in Missing
  /\ is_preset' = FALSE
  /\ phase' = UI(num_entries)
  /\ UNCHANGED <<perform_sha1, old_perform_sha1_value, sha1_at_start, config_file,
                 preset_open, lines, src, got, cmd, literal, comment, state, menu,
                 config, prev_menu_len,
                 prev_config_len, num_entries, default_entry, fallback_entries,
                 fallback_entryno, fb_i, entryno, hist, hist_pos, hist_start, hist_prev>>

(* One line of the reading loop (1356-1418). *)
ParseVars == <<phase, perform_sha1, old_perform_sha1_value, sha1_at_start, config_file,
               preset_open, is_preset, src, fb_i, entryno, hist, hist_pos, hist_start,
               hist_prev>>

(* get_line_from_config after reading the next character. *)
Scanned == Step([buf |-> cmd, literal |-> literal, comment |-> comment], Head(lines))

(* One more character that does not end the line (1152-1213). *)
ReadChar ==
  /\ phase = "parse"
  /\ lines # << >>
  /\ \E sc \in {Scanned} :
       /\ ~sc.done
       /\ lines' = Tail(lines)
       /\ cmd' = sc.buf /\ literal' = sc.literal /\ comment' = sc.comment
  /\ UNCHANGED <<state, menu, config, prev_menu_len, prev_config_len, num_entries,
                 default_entry, fallback_entries, fallback_entryno, got>>
  /\ UNCHANGED ParseVars

(* get_line_from_config returns a non-empty line: at a newline, or at  *)
(* the end of the file (1155-1157, 1207-1217); the next call starts     *)
(* afresh.                                                               *)
LineReady == \/ lines # << >> /\ Scanned.done
             \/ lines = << >> /\ cmd # << >>

(* The line just read. *)
Line == IF lines # << >> THEN Scanned.buf ELSE cmd

ReadLine(l) == /\ lines' = IF lines # << >> THEN Tail(lines) ELSE lines
               /\ got' = Append(got, l)
               /\ cmd' = << >> /\ literal' = FALSE /\ comment' = FALSE

(* find_command knows no such command: the line is skipped (1364-1366). *)
ParseUnknown ==
  /\ phase = "parse"
  /\ LineReady /\ \E l \in {Line} : ReadLine(l) /\ ~IsKnown(l)
  /\ UNCHANGED <<state, menu, config, prev_menu_len, prev_config_len, num_entries,
                 default_entry, fallback_entries, fallback_entryno>>
  /\ UNCHANGED ParseVars

(* A title closes the entry before it when that entry has a command, and *)
(* otherwise takes the place of the title before it (1368-1395).          *)
ParseTitle ==
  /\ phase = "parse"
  /\ LineReady
  /\ \E l \in {Line} :
       /\ ReadLine(l) /\ IsTitle(l)
       /\ IF Closes(state)
            THEN /\ num_entries' = num_entries + 1
                 /\ config' = Append(config, NUL)
                 /\ prev_menu_len' = Len(menu)
                 /\ prev_config_len' = Len(config) + 1
                 /\ menu' = menu \o Str(Args(l))
            ELSE /\ menu' = SubSeq(menu, 1, prev_menu_len) \o Str(Args(l))
                 /\ config' = SubSeq(config, 1, prev_config_len)
                 /\ UNCHANGED <<num_entries, prev_menu_len, prev_config_len>>
       /\ state' = 1
  /\ UNCHANGED <<default_entry, fallback_entries, fallback_entryno>>
  /\ UNCHANGED ParseVars

(* Before the first title a menu command runs at once (1396-1404): the   *)
(* default and fallback commands of builtins.c, outside this tree, set    *)
(* default_entry to the number of their argument (left as it is when     *)
(* there is none), and fallback_entries to up to MAX_FALLBACK_ENTRIES     *)
(* numbers, with a -1 after the last and fallback_entryno 0.              *)
ParseMenuCommand ==
  /\ phase = "parse" /\ state = 0
  /\ LineReady
  /\ \E l \in {Line} :
       /\ ReadLine(l) /\ IsMenuCommand(l)
       /\ LET nums == Numbers(Args(l)) IN
          IF Cmd(l) = <<"default">>
            THEN /\ default_entry' = IF nums # << >> THEN Head(nums) ELSE default_entry
                 /\ UNCHANGED <<fallback_entries, fallback_entryno>>
            ELSE LET fl == [i \in 1 .. IF Len(nums) < MAX_FALLBACK_ENTRIES
                                       THEN Len(nums) ELSE MAX_FALLBACK_ENTRIES
                            |-> nums[i]] IN
                 /\ fallback_entries' = [j \in Slots |-> IF j < Len(fl) THEN fl[j + 1]
                                                         ELSE IF j = Len(fl) THEN -1
                                                         ELSE fallback_entries[j]]
                 /\ fallback_entryno' = IF fl = << >> THEN -1 ELSE 0
                 /\ UNCHANGED default_entry
  /\ UNCHANGED <<state, menu, config, prev_menu_len, prev_config_len, num_entries>>
  /\ UNCHANGED ParseVars

(* Before the first title any other command is ignored (1405-1407). *)
ParseIgnored ==
  /\ phase = "parse" /\ state = 0
  /\ LineReady
  /\ \E l \in {Line} : ReadLine(l) /\ IsKnown(l) /\ ~IsTitle(l) /\ ~IsMenuCommand(l)
  /\ UNCHANGED <<state, menu, config, prev_menu_len, prev_config_len, num_entries,
                 default_entry, fallback_entries, fallback_entryno>>
  /\ UNCHANGED ParseVars

(* After a title every known command is copied into the entry (1409-1417). *)
ParseEntryLine ==
  /\ phase = "parse" /\ state >= 1
  /\ LineReady
  /\ \E l \in {Line} : /\ ReadLine(l) /\ IsKnown(l) /\ ~IsTitle(l)
                      /\ config' = config \o Str(l)
  /\ state' = 2
  /\ UNCHANGED <<menu, prev_menu_len, prev_config_len, num_entries, default_entry,
                 fallback_entries, fallback_entryno>>
  /\ UNCHANGED ParseVars

(* End of file (1420-1437): the last entry is closed if it has a command, *)
(* else dropped, and both buffers get their closing NUL.                  *)
EndOfFile ==
  /\ phase = "parse" /\ lines = << >> /\ cmd = << >>
  /\ IF Closes(state)
       THEN /\ num_entries' = num_entries + 1
            /\ config' = config \o <<NUL, NUL>>
            /\ menu' = Append(menu, NUL)
       ELSE /\ menu' = Append(SubSeq(menu, 1, prev_menu_len), NUL)
            /\ config' = Append(SubSeq(config, 1, prev_config_len), NUL)
            /\ UNCHANGED num_entries
  /\ fb_i' = 0 /\ phase' = "validate"
  /\ UNCHANGED <<perform_sha1, old_perform_sha1_value, sha1_at_start, config_file,
                 preset_open, is_preset, lines, src, got, cmd, literal, comment, state,
                 prev_menu_len,
                 prev_config_len, default_entry, fallback_entries, fallback_entryno,
                 entryno, hist, hist_pos, hist_start, hist_prev>>

(* The validation loop goes on (1441-1445). *)
InLoop == /\ fallback_entryno >= 0 /\ fb_i < MAX_FALLBACK_ENTRIES
          /\ fallback_entries[fb_i] >= 0

LoopVars == <<perform_sha1, old_perform_sha1_value, sha1_at_start, config_file,
              preset_open, is_preset, lines, src, got, cmd, literal, comment, state,
              menu, config, prev_menu_len,
              prev_config_len, num_entries, default_entry, fallback_entryno, entryno,
              hist, hist_pos, hist_start, hist_prev, phase>>

(* A fallback entry that exists stays (1445). *)
FallbackKept ==
  /\ phase = "validate" /\ InLoop
  /\ fallback_entries[fb_i] < num_entries
  /\ fb_i' = fb_i + 1
  /\ UNCHANGED fallback_entries
  /\ UNCHANGED LoopVars

(* One that does not is removed, and slot i is looked at again           *)
(* (1445-1452: i-- then i++).                                              *)
FallbackDropped ==
  /\ phase = "validate" /\ InLoop
  /\ fallback_entries[fb_i] >= num_entries
  /\ fallback_entries' = Shift(fallback_entries, fb_i)
  /\ UNCHANGED fb_i
  /\ UNCHANGED LoopVars

(* After the loop (1455-1491): no fallback if slot 0 is empty; a default *)
(* entry that does not exist is replaced by the first fallback (which is *)
(* then used up) or by entry 0; the file is closed and pushed on the     *)
(* history ring.  The preset menu is followed by config_file.             *)
ValidateDone ==
  /\ phase = "validate" /\ ~InLoop
  /\ LET fbno == IF fallback_entryno >= 0 /\ fallback_entries[0] < 0
                   THEN -1 ELSE fallback_entryno
         next == fbno + 1
     IN IF DefaultMissing(default_entry, num_entries) /\ fbno >= 0
          THEN /\ default_entry' = fallback_entries[0]
               /\ fallback_entryno' = IF next >= MAX_FALLBACK_ENTRIES
                                         \/ fallback_entries[next] < 0
                                      THEN -1 ELSE next
          ELSE /\ default_entry' = IF DefaultMissing(default_entry, num_entries) THEN 0
                                   ELSE default_entry
               /\ fallback_entryno' = fbno
  /\ preset_open' = (preset_open /\ ~is_preset)
  /\ hist' = [hist EXCEPT ![hist_pos] = config_file]
  /\ hist_prev' = hist_pos
  /\ hist_pos' = NextPos(hist_pos)
  /\ hist_start' = StartAfterSave(hist_start, NextPos(hist_pos))
  /\ phase' = IF is_preset THEN "open" ELSE UI(num_entries)
  /\ UNCHANGED <<perform_sha1, old_perform_sha1_value, sha1_at_start, config_file,
                 is_preset, lines, src, got, cmd, literal, comment, state, menu, config,
                 prev_menu_len,
                 prev_config_len, num_entries, fallback_entries, fb_i, entryno>>

-----------------------------------------------------------------------------
MenuVars == <<old_perform_sha1_value, sha1_at_start, preset_open, is_preset, lines,
              src, got, cmd, literal, comment, state, menu, config, prev_menu_len,
              prev_config_len, num_entries,
              default_entry, fallback_entries, fallback_entryno, fb_i, hist,
              hist_start, hist_prev>>

(* The operator picks an entry (827-834), or the timeout boots the       *)
(* highlighted default entry (395); boot_entry switches measurement on    *)
(* (1090-1095).                                                           *)
Pick ==
  /\ phase = "menu"
  /\ \E e \in {default_entry} \cup (0 .. num_entries - 1) : entryno' = e
  /\ perform_sha1' = 1
  /\ phase' = "boot"
  /\ UNCHANGED <<config_file, hist_pos>>
  /\ UNCHANGED MenuVars

(* The back key, when there is an older file in the ring (836-849):      *)
(* run_menu returns and cmain loads that file.                            *)
Back ==
  /\ phase = "menu"
  /\ hist_prev # hist_start
  /\ config_file' = hist[BackPos(hist_prev)]
  /\ hist_pos' = BackPos(hist_prev)
  /\ phase' = "start"
  /\ UNCHANGED <<perform_sha1, entryno>>
  /\ UNCHANGED MenuVars

(* run_script of the entry (1110-1139).  The kernel starts: *)
ScriptBoots ==
  /\ phase = "boot"
  /\ phase' = "booted"
  /\ UNCHANGED <<perform_sha1, config_file, hist_pos, entryno>>
  /\ UNCHANGED MenuVars

(* The script fails: the next fallback entry, while there is one. *)
ScriptFails ==
  /\ phase = "boot"
  /\ IF fallback_entryno >= 0
       THEN LET next == fallback_entryno + 1 IN
            /\ entryno' = fallback_entries[fallback_entryno]
            /\ fallback_entryno' = IF next >= MAX_FALLBACK_ENTRIES
                                      \/ fallback_entries[next] < 0
                                   THEN -1 ELSE next
            /\ UNCHANGED phase
       ELSE /\ phase' = "menu"
            /\ UNCHANGED <<entryno, fallback_entryno>>
  /\ UNCHANGED <<perform_sha1, config_file, hist_pos, old_perform_sha1_value,
                 sha1_at_start, preset_open, is_preset, lines, src, got, cmd, literal,
                 comment, state, menu,
                 config, prev_menu_len, prev_config_len, num_entries, default_entry,
                 fallback_entries, fb_i, hist, hist_start, hist_prev>>

(* The script ends without booting: back to the menu (1137-1145). *)
ScriptReturns ==
  /\ phase = "boot"
  /\ phase' = "menu"
  /\ UNCHANGED <<perform_sha1, config_file, hist_pos, entryno>>
  /\ UNCHANGED MenuVars

(* The script runs configfile, which sets config_file and jumps back to *)
(* the top of cmain's loop.                                              *)
ScriptConfigFile ==
  /\ phase = "boot"
  /\ \E f \in Files : config_file' = f
  /\ phase' = "start"
  /\ UNCHANGED <<perform_sha1, hist_pos, entryno>>
  /\ UNCHANGED MenuVars

(* What cmain does by itself, without input. *)
Load == \/ Restart \/ Open \/ OpenFails \/ ReadChar
        \/ ParseUnknown \/ ParseTitle \/ ParseMenuCommand \/ ParseIgnored
        \/ ParseEntryLine \/ EndOfFile
        \/ FallbackKept \/ FallbackDropped \/ ValidateDone

Next == Load \/ Pick \/ Back
        \/ ScriptBoots \/ ScriptFails \/ ScriptReturns \/ ScriptConfigFile

Spec == Init /\ [][Next]_vars /\ WF_vars(Load)

-----------------------------------------------------------------------------
(* The entries a file describes: each title with the known commands after *)
(* it, up to the next title, for the titles that have at least one.      *)
TitleIdx(ls) == SetToSortSeq({i \in DOMAIN ls : IsTitle(ls[i])}, <)

EndOfEntry(ls, i) ==
  LET later == {j \in DOMAIN ls : j > i /\ IsTitle(ls[j])}
  IN IF later = {} THEN Len(ls) + 1 ELSE CHOOSE j \in later : \A m \in later : j <= m

Body(ls, i) == SelectSeq(SubSeq(ls, i + 1, EndOfEntry(ls, i) - 1),
                         LAMBDA l : IsKnown(l))

RefEntries(ls) ==
  SelectSeq([j \in DOMAIN TitleIdx(ls) |-> <<Args(ls[TitleIdx(ls)[j]]), Body(ls,
                                             TitleIdx(ls)[j])>>],
            LAMBDA e : e[2] # << >>)

(* The logical lines and the entries of each file and of the preset     *)
(* menu, computed once.                                                  *)
RefLinesOf == [f \in Files \cup {PresetName} |-> RefLines(Text(f))]
RefEntriesOf == [f \in Files \cup {PresetName} |-> RefEntries(RefLinesOf[f])]

(* The strings of s from index p up to the empty one. *)
RECURSIVE StringsFrom(_, _)
StringsFrom(s, p) == IF s[p] = NUL THEN << >> ELSE <<s[p]>> \o StringsFrom(s, AfterNul(s,
                                          p))

TypeOK ==
  /\ phase \in {"start", "open", "parse", "validate", "menu", "boot", "booted", "cmdline"}
  /\ perform_sha1 \in {0, 1} /\ old_perform_sha1_value \in {0, 1}
  /\ state \in 0 .. 2
  /\ fallback_entries \in [Slots -> Int]
  /\ fallback_entryno \in -1 .. MAX_FALLBACK_ENTRIES - 1
  /\ fb_i \in 0 .. MAX_FALLBACK_ENTRIES
  /\ hist \in [0 .. H - 1 -> Files \cup {NoName}]
  /\ {hist_pos, hist_start, hist_prev} \subseteq 0 .. H - 1

(***************************************************************************)
(* The menu shows exactly the entries of the file that was read: walking  *)
(* menu_entries and config_entries as get_entry does finds, for each of   *)
(* the num_entries entries, its title and its commands, and titles with   *)
(* no command are gone.  This is what the length bookkeeping of the       *)
(* reading loop (prev_menu_len, prev_config_len, 1373-1430) must achieve. *)
(***************************************************************************)
EntriesMatchConfig ==
  phase \in {"menu", "boot", "booted"} =>
    LET ref == RefEntriesOf[src] IN
    /\ num_entries = Len(ref)
    /\ \A i \in 0 .. num_entries - 1 :
         /\ menu[GetEntry(menu, i, FALSE)] = ref[i + 1][1]
         /\ StringsFrom(config, GetEntry(config, i, TRUE)) = ref[i + 1][2]

(***************************************************************************)
(* The reading loop (1356-1418) sees the logical lines of the file: the   *)
(* command lines get_line_from_config returns are, in order, those of the *)
(* whole file (all of them once the end is reached), with                 *)
(* backslash-newline joined, comments, blank lines and leading blanks    *)
(* dropped, and each line cut to its first maxlen characters.            *)
(***************************************************************************)
LinesAsReference ==
  /\ phase = "parse" => IsPrefix(got, RefLinesOf[src])
  /\ phase = "validate" => got = RefLinesOf[src]

(***************************************************************************)
(* Every entry the boot loop of run_menu runs (1116-1132), whether picked, *)
(* the default one or reached through the fallback list, is one of the    *)
(* menu's entries: the checks of the default entry and of the fallback    *)
(* list after reading the file (1439-1473) leave no number that is out of *)
(* range.                                                                 *)
(***************************************************************************)
BootEntryValid == phase = "boot" => entryno \in 0 .. num_entries - 1

(***************************************************************************)
(* The history ring (config_file_history, its pos, start and prev_pos)    *)
(* implements a stack of the last CONFIG_FILE_HISTORY_ENTRIES - 1 files:  *)
(* saving after a menu is built, the back key, and configfile are its     *)
(* push, pop and switch.                                                   *)
(***************************************************************************)
HistLen == (hist_pos - hist_start + H) % H
HistStack == [i \in 1 .. HistLen |-> hist[(hist_start + i - 1) % H]]

History == INSTANCE ConfigHistory WITH stack <- HistStack, current <- config_file,
                                       CAP <- H - 1

HistoryRefinement == History!Spec

(***************************************************************************)
(* Each pass of cmain's loop ends in the menu or on the command line:      *)
(* reading a file and checking its fallback list terminate.               *)
(***************************************************************************)
MenuReached == phase = "start" ~> phase \in {"menu", "cmdline"}

(***************************************************************************)
(* Measurement is off only while the "default" file is read ("Temporarily *)
(* disable SHA1-measuremnt", 1302): when the configuration file is read, *)
(* perform_sha1 is what it was at the top of the pass.                    *)
(***************************************************************************)
MeasurementRestored == phase = "parse" => perform_sha1 = sha1_at_start

=============================================================================
