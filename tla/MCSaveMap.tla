------------------------------- MODULE MCSaveMap -------------------------------
(* Up to five blocks of two types, runs of at most three, a buffer of two     *)
(* bytes: a run can be broken by MAX_RUN as well as by another block, and a  *)
(* flag and its block can be in different buffers.                          *)
EXTENDS SaveMap

MCBlock == {0, 1}
=============================================================================
