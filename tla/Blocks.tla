-------------------------------- MODULE Blocks --------------------------------
(***************************************************************************)
(* The world of blocks as the processor uses it: getBlock, setBlock and    *)
(* isSolid of software/main.c, with the columns of the block table         *)
(* (ROM/BLOCK_INFO.hex) that the game reads.                               *)
(*                                                                         *)
(* A cell is a triple <<x, y, z>>; a world gives every cell of the map a    *)
(* block type.  Outside the map everything is bedrock, but there is air    *)
(* above it.                                                               *)
(***************************************************************************)
EXTENDS Integers

CONSTANTS WORLD_X, WORLD_Y, WORLD_Z     (* 128 each in the code *)

ASSUME WorldAssumption ==
  WORLD_X \in Nat \ {0} /\ WORLD_Y \in Nat \ {0} /\ WORLD_Z \in Nat \ {0}

Block   == 0..15
AIR     == 0
GRASS   == 2
DIRT    == 3
SOURCE  == 6                  (* water that was placed: it never dries     *)
Flowing == 7..9               (* water that flows, by its distance         *)
Water   == Flowing \cup {SOURCE}
BEDROCK == 15

Cell  == (0 .. WORLD_X - 1) \X (0 .. WORLD_Y - 1) \X (0 .. WORLD_Z - 1)
World == [Cell -> Block]

isSolid(b)      == b \notin Water \cup {AIR}
Destructible(b) == b \in (1..5) \cup (10..14)

AboveMap(c) == /\ c[1] \in 0 .. WORLD_X - 1 /\ c[3] \in 0 .. WORLD_Z - 1
               /\ c[2] >= WORLD_Y

getBlock(world, c) ==
  IF c \in Cell THEN world[c] ELSE IF AboveMap(c) THEN AIR ELSE BEDROCK

setBlock(world, c, b) ==
  IF c \in Cell THEN [world EXCEPT ![c] = b] ELSE world

Solid(world, c) == isSolid(getBlock(world, c))

(* The neighbour of c, one step of s along axis a. *)
Beside(c, a, s) == [c EXCEPT ![a] = @ + s]
Below(c)         == Beside(c, 2, -1)
Above(c)         == Beside(c, 2, 1)
=============================================================================
