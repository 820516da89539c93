---------------------------- MODULE MC_ConfigMenu ----------------------------
(***************************************************************************)
(* Configuration files for ConfigMenu, as characters (maxlen 7).          *)
(*   A: default 2 and fallback 0 2 (after a tab, with a tab between the  *)
(*      numbers and a DOS line end) before the first title; a command    *)
(*      that is ignored there; a comment whose backslash-newline swallows *)
(*      a title line; a title with no command; blank lines; an entry     *)
(*      whose kernel line is longer than maxlen, an unknown command and  *)
(*      a copied "default 0"; a last title, joined across a backslash-   *)
(*      newline and without a final newline, with no command.  One       *)
(*      entry, so the default and the second fallback are out of range.  *)
(*   B: fallback 1 0 and default 2 before two entries, the second with   *)
(*      an empty title, so the default is replaced by the first fallback; *)
(*      the fallback line again inside an entry, where it is only copied. *)
(*   C: cannot be opened.                                                  *)
(* The preset menu has one entry; only A has a "default" file beside it.  *)
(***************************************************************************)
EXTENDS ConfigMenu

MC_Files == {"A", "B", "C"}

FileA(fallback) ==
  <<"default", SP, "2", LF>>
  \o <<TAB>> \o fallback \o <<CR, LF>>
  \o <<"kernel", SP, "w", LF>>
  \o <<HASH, SP, "w", BS, LF, "title", SP, "x", LF>>
  \o <<"title", SP, "t1", LF, LF, SP, SP, LF>>
  \o <<"title", SP, "t2", LF>>
  \o <<SP, "kernel", SP, "w", "w", "w", "w", "w", "w", LF>>
  \o <<"bogus", LF, "default", SP, "0", LF>>
  \o <<"title", SP, BS, LF, "t3">>

FileB(title1) ==
  <<"fallback", SP, "1", SP, "0", LF, "default", SP, "2", LF>>
  \o title1 \o <<"kernel", LF>>
  \o <<"title", LF, "kernel", SP, "w", LF, "kernel", LF>>
  \o <<"fallback", SP, "1", SP, "0">>

Content2 == [f \in MC_Files |->
               CASE f = "A" -> FileA(<<"fallback", SP, "0", SP, TAB, "2">>)
                 [] f = "B" -> FileB(<<"title", SP, "t1", LF>>)
                 [] OTHER   -> << >>]

MC_PresetMenu == <<"title", SP, "t3", LF, "kernel", LF>>
MC_DefaultFile == [f \in MC_Files |-> f = "A"]
MC_Digit == [d \in {"0", "1", "2"} |-> CASE d = "0" -> 0 [] d = "1" -> 1 [] OTHER -> 2]

(* A's fallback list fills every slot and ends with entries A does not  *)
(* have.                                                                  *)
ContentFull == [Content2 EXCEPT !["A"] = FileA(<<"fallback", SP, "0", SP, "1", SP, "2">>)]

(* B's first title line is longer than maxlen and continued with a      *)
(* backslash-newline after its seventh character.                        *)
ContentEdge == [Content2 EXCEPT !["B"] =
                  FileB(<<"title", SP, "t1", "w", "w", "w", "w", BS, LF, "w", LF>>)]

=============================================================================
