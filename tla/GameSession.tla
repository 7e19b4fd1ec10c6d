------------------------------ MODULE GameSession ------------------------------
(***************************************************************************)
(* What the screens of the game promise the player: a world is either being *)
(* chosen, played or paused; play starts on a whole world only, and from    *)
(* then until the player quits the world is changed by playing and by       *)
(* nothing else.                                                            *)
(***************************************************************************)
VARIABLES
  phase,      (* "choosing", "playing" or "paused"          *)
  world       (* what is in the world memory                *)

WorldStatus == {"none", "partial", "whole"}

SessionInit == phase = "choosing" /\ world = "none"

(* While choosing, the world memory is anybody's. *)
Choose == phase = "choosing" /\ phase' = phase /\ world' \in WorldStatus

Start == phase = "choosing" /\ phase' = "playing" /\ world' = "whole"

Pause  == phase = "playing" /\ phase' = "paused"   /\ UNCHANGED world
Resume == phase = "paused"  /\ phase' = "playing"  /\ UNCHANGED world
Quit   == phase = "paused"  /\ phase' = "choosing" /\ UNCHANGED world

SessionNext == Choose \/ Start \/ Pause \/ Resume \/ Quit

SessionSpec == SessionInit /\ [][SessionNext]_<<phase, world>>
=============================================================================
