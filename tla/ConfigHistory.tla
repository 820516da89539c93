---------------------------- MODULE ConfigHistory ----------------------------
(***************************************************************************)
(* What the config-file history of the menu promises (stage2.c 84-93,     *)
(* 836-849, 1480-1489): a stack of the configuration files whose menus    *)
(* were shown, newest last, of at most CAP files.  Showing a menu pushes  *)
(* the current file, dropping the oldest one when the stack is full; the  *)
(* "back" key pops the current file and makes the one below it current   *)
(* again, which is then pushed again when its menu is shown; the         *)
(* configfile command makes another file current without touching the   *)
(* stack.                                                                 *)
(***************************************************************************)
EXTENDS Naturals, Sequences

CONSTANTS
  Files,   \* the configuration files
  CAP      \* how many files the history holds

VARIABLES
  stack,   \* the files whose menus were shown, oldest first
  current  \* config_file

Init == stack = << >> /\ current \in Files

(* A menu was built from current. *)
Save ==
  /\ stack' = IF Len(stack) = CAP THEN Tail(Append(stack, current))
                                  ELSE Append(stack, current)
  /\ UNCHANGED current

(* Back to the file shown before the current one. *)
Back ==
  /\ Len(stack) >= 2
  /\ current' = stack[Len(stack) - 1]
  /\ stack' = SubSeq(stack, 1, Len(stack) - 2)

(* Another file becomes current (the configfile command). *)
Switch == \E f \in Files : current' = f /\ UNCHANGED stack

Next == Save \/ Back \/ Switch

Spec == Init /\ [][Next]_<<stack, current>>

=============================================================================
