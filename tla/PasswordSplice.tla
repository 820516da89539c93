---------------------------- MODULE PasswordSplice ----------------------------
(***************************************************************************)
(* The password dialog at the start of load_module (boot.c 1086-1187).    *)
(* When the argument contains "--with-password-dialog", the code splits   *)
(* it into find_args[10][1024], asks twice for a password until both      *)
(* entries match, and rebuilds the argument in the stack buffer           *)
(* new_cmdline[strlen(arg)] with "--password '<pw>' " in place of the     *)
(* marker token, then copies it back over arg.                            *)
(*                                                                         *)
(* A string is a sequence of atoms.  " " is one space; "M" is the 22      *)
(* characters --with-password-dialog and "Q" the same with a trailing     *)
(* quotation mark; "w" is any other run of WordWidth characters; atoms    *)
(* written next to each other form one word.  The spliced text is "D"     *)
(* (--password), " ", "O" (a quote), the password, "O", an optional "q"   *)
(* (quotation mark) and " ".  Width gives each atom's length in chars.    *)
(***************************************************************************)
EXTENDS Integers, Sequences, SequencesExt

CONSTANTS
  Args,         \* the argument strings, as sequences of atoms
  Passwords,    \* what the operator may type, at most 10 characters each
  PwWidth,      \* the length of each password
  WordWidth,    \* the length of a "w" atom
  MAX_ARGS,     \* rows of find_args (10)
  maxlen        \* columns of find_args (1024)

Marker == {"M", "Q"}

Width(a) ==
  CASE a \in Passwords -> PwWidth[a]
    [] a = "w"         -> WordWidth
    [] a = "M"         -> 22
    [] a = "Q"         -> 23
    [] a = "D"         -> 10
    [] OTHER           -> 1            \* " ", "O", "q"

(* grub_strlen of a string. *)
CharLen(s) == FoldLeft(LAMBDA n, a : n + Width(a), 0, s)

VARIABLES
  arg,          \* the caller's argument buffer
  arg0,         \* history: arg on entry
  pc,           \* "tokenize", "scan", "prompt", "done"
  gc,           \* global_counter, 1-based; Len(arg) + 1 is the NUL
  tokens,       \* find_args[0 .. number_args-1]
  cur,          \* find_args[number_args][0 .. arg_counter-1]
  k,            \* arg_counter of the rebuild loop, 1-based
  quoted,       \* with_quotation_mark of the current marker token
  pw1, pw2,     \* module_pass1, module_pass2
  temp,         \* temp[], the last sprintf'd splice
  new_cmdline   \* new_cmdline[] up to its first NUL

vars == <<arg, arg0, pc, gc, tokens, cur, k, quoted, pw1, pw2, temp, new_cmdline>>

(* The atom at gc, or <<>> for the NUL that ends the string. *)
CharAt(i) == IF i <= Len(arg) THEN <<arg[i]>> ELSE << >>

(* The mutants below are plausible slips in the lines the operators after *)
(* them translate.                                                       *)
AfterSpaceTwice(i) == i + 3
IsMarkerUnquoted(t) == t = <<"M">>
NeedsSeparatorAlways(j, n) == TRUE

(* boot.c 1115-1124: a space ends the token; the loop then skips it and  *)
(* copies the character after it into the next token, whatever it is.   *)
AfterSpace(i) == i + 2

(* boot.c 1134-1138: the token is exactly the marker, with or without  *)
(* the quotation mark (memcmp over 24 and 23 bytes, NUL included).      *)
IsMarker(t) == t \in {<<"M">>, <<"Q">>}

(* boot.c 1175-1176: a space after every token but the last. *)
NeedsSeparator(j, n) == j < n

(* boot.c 1164-1167: sprintf(temp, "--password '%s'[\"] ", pass). *)
Splice(p, q) == <<"D", " ", "O", p, "O">> \o (IF q THEN <<"q">> ELSE << >>) \o <<" ">>

Init ==
  /\ arg \in Args /\ arg0 = arg
  /\ pc = IF \E i \in DOMAIN arg : arg[i] \in Marker THEN "tokenize" ELSE "done"
  /\ gc = 1 /\ tokens = << >> /\ cur = << >> /\ k = 1
  /\ quoted = FALSE /\ pw1 = "" /\ pw2 = "" /\ temp = << >> /\ new_cmdline = << >>

(* One iteration of the reading loop (boot.c 1113-1124); after the NUL,   *)
(* the last token is closed (1125-1126).                                  *)
Tokenize ==
  /\ pc = "tokenize"
  /\ IF gc <= Len(arg) + 1
       THEN IF CharAt(gc) = <<" ">>
              THEN /\ tokens' = Append(tokens, cur)
                   /\ cur' = CharAt(gc + 1)
                   /\ gc' = AfterSpace(gc)
                   /\ UNCHANGED pc
              ELSE /\ cur' = cur \o CharAt(gc)
                   /\ gc' = gc + 1
                   /\ UNCHANGED <<tokens, pc>>
       ELSE /\ tokens' = Append(tokens, cur)
            /\ pc' = "scan"
            /\ UNCHANGED <<cur, gc>>
  /\ UNCHANGED <<arg, arg0, k, quoted, pw1, pw2, temp, new_cmdline>>

(* One iteration of the rebuild loop (boot.c 1129-1179); a token that is *)
(* the marker goes to the prompt, any other is copied.  After the last   *)
(* token the argument is overwritten with new_cmdline (1183-1184).       *)
Scan ==
  /\ pc = "scan"
  /\ IF k <= Len(tokens)
       THEN IF IsMarker(tokens[k])
              THEN /\ pc' = "prompt" /\ quoted' = (tokens[k] = <<"Q">>)
                   /\ UNCHANGED <<k, new_cmdline, arg>>
              ELSE /\ new_cmdline' = new_cmdline \o tokens[k]
                                     \o (IF NeedsSeparator(k, Len(tokens)) THEN <<" ">> ELSE << >>)
                   /\ k' = k + 1
                   /\ UNCHANGED <<pc, quoted, arg>>
       ELSE /\ arg' = new_cmdline /\ pc' = "done"
            /\ UNCHANGED <<k, quoted, new_cmdline>>
  /\ UNCHANGED <<arg0, gc, tokens, cur, pw1, pw2, temp>>

(* One pass of the do-while (boot.c 1142-1163): both passwords are read; *)
(* when they match, the splice is appended (1164-1170).                  *)
Prompt ==
  /\ pc = "prompt"
  /\ \E p1, p2 \in Passwords :
       /\ pw1' = p1 /\ pw2' = p2
       /\ IF p1 = p2
            THEN /\ temp' = Splice(p1, quoted)
                 /\ new_cmdline' = new_cmdline \o Splice(p1, quoted)
                 /\ k' = k + 1 /\ pc' = "scan"
            ELSE UNCHANGED <<temp, new_cmdline, k, pc>>
  /\ UNCHANGED <<arg, arg0, gc, tokens, cur, quoted>>

Next == Tokenize \/ Scan \/ Prompt

Spec == Init /\ [][Next]_vars

-----------------------------------------------------------------------------
(* The words of a string, split on spaces, empty ones dropped. *)
RECURSIVE SplitSpaces(_)
SplitSpaces(s) ==
  IF s = << >> THEN << << >> >>
  ELSE LET r == SplitSpaces(Tail(s)) IN
       IF Head(s) = " " THEN << << >> >> \o r
       ELSE << <<Head(s)>> \o Head(r) >> \o Tail(r)

Words(s) == SelectSeq(SplitSpaces(s), LAMBDA w : w # << >>)

NoMarkerWord(s) == \A i \in DOMAIN Words(s) : Words(s)[i] \notin {<<"M">>, <<"Q">>}

TypeOK ==
  /\ pc \in {"tokenize", "scan", "prompt", "done"}
  /\ gc \in 1 .. Len(arg0) + 2
  /\ k \in 1 .. Len(tokens) + 1
  /\ quoted \in BOOLEAN

(***************************************************************************)
(* When no password was spliced in, the rewrite hands the argument back   *)
(* exactly as it was: the rebuild loop of load_module (boot.c 1168-1175)  *)
(* rejoins the tokens, whatever spaces separated them, for every         *)
(* argument that contains the marker text without a marker token.       *)
(***************************************************************************)
PassThrough == pc = "done" /\ ~Contains(arg, "D") => arg = arg0

(***************************************************************************)
(* If the words of the argument are separated by single spaces, every    *)
(* marker token, quoted or not, has been replaced by a password by the   *)
(* time load_module goes on to open the file (spec 4.2).                 *)
(***************************************************************************)
MarkersReplaced ==
  pc = "done" /\ ~(\E i \in 1 .. Len(arg0) - 1 : arg0[i] = " " /\ arg0[i + 1] = " ")
    => NoMarkerWord(arg)

(***************************************************************************)
(* Spec 4.2: a marker token in the argument, after tokenizing on          *)
(* whitespace, is replaced by the password in every case.                *)
(***************************************************************************)
SpliceAsSpec == pc = "done" => NoMarkerWord(arg)

(***************************************************************************)
(* The reading loop (boot.c 1113-1126) stays inside find_args[10][1024]: *)
(* at most MAX_ARGS tokens, each shorter than maxlen.                     *)
(***************************************************************************)
FindArgsFit ==
  /\ Len(tokens) + (IF pc = "tokenize" THEN 1 ELSE 0) <= MAX_ARGS
  /\ CharLen(cur) < maxlen

(***************************************************************************)
(* new_cmdline and temp, each strlen(arg) bytes (boot.c 1099-1100), hold *)
(* what sprintf and the rebuild write into them with its NUL, which the  *)
(* grub_strlen calls of 1168-1184 need.                                  *)
(***************************************************************************)
CmdlineBuffersFit ==
  /\ CharLen(new_cmdline) + 1 <= CharLen(arg0)
  /\ CharLen(temp) + 1 <= CharLen(arg0)

=============================================================================
