-------------------------- MODULE MC_PasswordSplice --------------------------
(***************************************************************************)
(* Arguments of up to four atoms holding the marker text; two passwords  *)
(* of three characters.                                                  *)
(***************************************************************************)
EXTENDS PasswordSplice

MC_Args == {s \in SeqOf({"w", "M", "Q", " "}, 4) : Contains(s, "M") \/ Contains(s, "Q")}
MC_Passwords == {"p", "r"}
MC_PwWidth == [p \in MC_Passwords |-> 3]

(* "/boot/mod a b c d e f g h i --with-password-dialog" *)
MCMany_Args == {<<"w", " ", "w", " ", "w", " ", "w", " ", "w", " ", "w", " ",
                  "w", " ", "w", " ", "w", " ", "w", " ", "M">>}
(* "/m --with-password-dialog" and a ten-character password *)
MCLong_Args == {<<"w", " ", "M">>}
MCLong_PwWidth == [p \in MC_Passwords |-> 10]

(* Both, with the ten-character password. *)
MCOverflow_Args == MCMany_Args \cup MCLong_Args

=============================================================================
