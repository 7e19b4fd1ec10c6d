------------------------------ MODULE VoxelWorld ------------------------------
(***************************************************************************)
(* The world as the hardware sees it: 16-bit SRAM words of two blocks, one  *)
(* per byte lane (software/main.c getBlock: index x<<14 | y<<7 | z, so two  *)
(* neighbours in z share a word).                                          *)
(***************************************************************************)
EXTENDS Naturals

CONSTANTS
  Addr,    (* word addresses                          *)
  Addr0,   (* word address 0, the registers' reset value *)
  Block,   (* values of one byte: the block types     *)
  Air      (* block type 0                            *)

ASSUME AddrAssumption  == Addr0 \in Addr
ASSUME BlockAssumption == Block \subseteq 0..255 /\ Air \in Block /\ Air = 0

Lane    == {0, 1}
Word    == [Lane -> Block]
AirWord == [l \in Lane |-> Air]

(* The word left by a write of data on the byte lanes be. *)
Merge(old, data, be) == [l \in Lane |-> IF l \in be THEN data[l] ELSE old[l]]
=============================================================================
