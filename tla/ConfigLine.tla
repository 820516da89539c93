------------------------------ MODULE ConfigLine ------------------------------
(***************************************************************************)
(* get_line_from_config (stage2.c 1146-1218) reads the next command line *)
(* of a configuration file, one character per pass of its loop.          *)
(* Carriage returns are dropped, tabs become spaces,                       *)
(* a backslash before a newline joins two lines, blank lines and lines    *)
(* whose first non-blank character is # are skipped, leading blanks are   *)
(* dropped, and at most maxlen characters are kept.                       *)
(*                                                                         *)
(* A file is a sequence of characters.  The special ones are SP, TAB, CR, *)
(* LF, BS (backslash) and HASH; every other atom stands for one character *)
(* of a word.                                                              *)
(***************************************************************************)
EXTENDS Integers, Sequences, SequencesExt

CONSTANT maxlen    \* NEW_HEAPSIZE, the room in CMDLINE_BUF

SP == " "
TAB == "TAB"
CR == "CR"
LF == "LF"
BS == "BS"
HASH == "#"

(* The mutant below is a plausible slip in the lines the operator after *)
(* it translates.                                                        *)
KeepsUpToMaxlen(buf) == Len(buf) <= maxlen

(* if (pos < maxlen) cmdline[pos++] = c (1210-1211). *)
Fits(buf) == Len(buf) < maxlen

(***************************************************************************)
(* One pass of the loop (1152-1213) over the character ch, from the line  *)
(* so far (cmdline[0 .. pos-1]) and the flags literal and comment.  done  *)
(* is the break at the newline that ends a non-empty line.               *)
(***************************************************************************)
Step(sc, ch) ==
  IF ch = CR THEN [buf |-> sc.buf, literal |-> sc.literal, comment |-> sc.comment,
                  done |-> FALSE]
  ELSE LET c0   == IF ch = TAB THEN SP ELSE ch
           join == sc.literal /\ c0 = LF
           c    == IF join THEN SP ELSE c0
           b    == IF join /\ sc.buf # << >> THEN Front(sc.buf) ELSE sc.buf
           lit  == c = BS
       IN CASE sc.comment ->
                 [buf |-> b, literal |-> lit, comment |-> c # LF, done |-> FALSE]
            [] b = << >> ->
                 [buf |-> IF c \notin {SP, LF, HASH} THEN <<c>> ELSE b,
                  literal |-> lit, comment |-> c = HASH, done |-> FALSE]
            [] c = LF ->
                 [buf |-> b, literal |-> lit, comment |-> FALSE, done |-> TRUE]
            [] OTHER ->
                 [buf |-> IF Fits(b) THEN Append(b, c) ELSE b,
                  literal |-> lit, comment |-> FALSE, done |-> FALSE]

-----------------------------------------------------------------------------
(* Reference: the logical lines of a file, defined on the whole text.     *)
RECURSIVE Joined(_)
Joined(s) == IF Len(s) < 2 THEN s
             ELSE IF s[1] = BS /\ s[2] = LF THEN <<SP>> \o Joined(Tail(Tail(s)))
             ELSE <<s[1]>> \o Joined(Tail(s))

(* The pieces of s between newlines. *)
SplitLines(s) ==
  LET n == Cardinality({i \in DOMAIN s : s[i] = LF})
      nl(k) == CHOOSE i \in DOMAIN s :
                 s[i] = LF /\ Cardinality({j \in 1 .. i : s[j] = LF}) = k
      from(k) == IF k = 1 THEN 1 ELSE nl(k - 1) + 1
      to(k) == IF k = n + 1 THEN Len(s) ELSE nl(k) - 1
  IN [k \in 1 .. n + 1 |-> SubSeq(s, from(k), to(k))]

RECURSIVE TrimLeft(_)
TrimLeft(l) == IF l # << >> /\ Head(l) = SP THEN TrimLeft(Tail(l)) ELSE l

Clean(s) == LET t == SelectSeq(s, LAMBDA c : c # CR)
            IN [i \in DOMAIN t |-> IF t[i] = TAB THEN SP ELSE t[i]]

Logical(s) == LET ls == SplitLines(Joined(Clean(s)))
              IN [i \in DOMAIN ls |-> TrimLeft(ls[i])]

RefLines(s) ==
  LET ls == SelectSeq(Logical(s), LAMBDA l : l # << >> /\ Head(l) # HASH)
      cut(l) == SubSeq(l, 1, IF Len(l) < maxlen THEN Len(l) ELSE maxlen)
  IN [i \in DOMAIN ls |-> cut(ls[i])]

=============================================================================
