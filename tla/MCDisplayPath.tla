---------------------------- MODULE MCDisplayPath ----------------------------
(* A screen of two by two pixels, one dot each, and two poses. *)
EXTENDS DisplayPath

MCCamera == [place : 0 .. MaxPose, aim : 0 .. MaxPose]

=============================================================================
