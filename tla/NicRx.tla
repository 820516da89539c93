-------------------------------- MODULE NicRx --------------------------------
(***************************************************************************)
(* What the receive side of a network card driver promises its caller     *)
(* (the poll entry of struct nic): the frames the card accepted from the  *)
(* wire without error are handed to the caller once each, intact, in the  *)
(* order they arrived.  Frames that find no free buffer are lost on the   *)
(* wire, and a reset of the card may discard the frames it still holds.   *)
(*                                                                         *)
(* inbox holds the accepted frames not yet delivered; delivered is what   *)
(* the caller has been given, in order.                                   *)
(***************************************************************************)
EXTENDS Sequences

CONSTANT Frames   \* the frame contents that can appear on the wire

VARIABLES inbox, delivered

vars == <<inbox, delivered>>

Init == inbox = << >> /\ delivered = << >>

(* The card accepts a frame from the wire. *)
Accept == \E f \in Frames : inbox' = Append(inbox, f) /\ UNCHANGED delivered

(* poll hands the oldest accepted frame to the caller. *)
Deliver ==
  /\ inbox # << >>
  /\ delivered' = Append(delivered, Head(inbox))
  /\ inbox' = Tail(inbox)

(* A reset of the card drops what it holds. *)
Discard == inbox' = << >> /\ UNCHANGED delivered

Next == Accept \/ Deliver \/ Discard

Spec == Init /\ [][Next]_vars

=============================================================================
