-------------------------------- MODULE Screen --------------------------------
(***************************************************************************)
(* What the display promises the program, whatever the renderer does: each  *)
(* picture handed to the VGA side is whole, and is that of the camera and   *)
(* the clear order together as they stood at one instant since the picture  *)
(* before it was handed over.  So pictures come in the order of what the    *)
(* program wrote, none is handed over twice, none is of what the program    *)
(* had taken back before the last one, and an order that stays is shown by  *)
(* the second picture from now at the latest.                              *)
(***************************************************************************)
CONSTANTS
  Frame,        (* what a frame can be drawn from: a camera and an order *)
  Picture(_),   (* the picture of a frame, all pixels                   *)
  PowerUp,      (* the frame the memory starts with                     *)
  Reset         (* the frame the registers start with                   *)

VARIABLES
  wish,         (* the frame the registers ask for now          *)
  sampled,      (* the frame they asked for when last sampled   *)
  due,          (* a picture of it has not been handed over yet *)
  picture       (* the picture handed over                      *)

screenVars == <<wish, sampled, due, picture>>

Init ==
  /\ wish = Reset /\ sampled = Reset
  /\ due = FALSE
  /\ picture = Picture(PowerUp)

Write ==
  /\ wish' \in Frame
  /\ UNCHANGED <<sampled, due, picture>>

Sample ==
  /\ ~due /\ due' = TRUE
  /\ sampled' = wish
  /\ UNCHANGED <<wish, picture>>

Show ==
  /\ due /\ due' = FALSE
  /\ picture' = Picture(sampled)
  /\ UNCHANGED <<wish, sampled>>

Next == Write \/ Sample \/ Show

Spec == Init /\ [][Next]_screenVars

=============================================================================
