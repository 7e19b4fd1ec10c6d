-------------------------------- MODULE MCPlay --------------------------------
(* A map five blocks long, three high and one deep, where water flows no more *)
(* than two blocks from the body: flat ground, a roof two blocks thick over a  *)
(* cave far below the start, a save in a pool whose source is too far away for *)
(* waterSim, and a save in the middle of a fall of more than two blocks a     *)
(* tick.                                                                   *)
EXTENDS Play

Filled(blocks) == [c \in Cell |-> IF c \in DOMAIN blocks THEN blocks[c] ELSE AIR]
Layer(y, b)    == [c \in {c \in Cell : c[2] = y} |-> b]

Flat == Layer(0, GRASS)
MCSteps == {<<0, 0>>, <<-2, 0>>, <<2, 2>>}
Roofed == [c \in Cell |-> IF c[2] \in {1, 2} THEN BEDROCK ELSE AIR]
MCMaps == {[world |-> Roofed, x |-> 12, y |-> 52, z |-> 4],
           [world |-> Filled(Flat), x |-> 20, y |-> 12, z |-> 4]}
Pool == [c \in Cell |-> CASE c[2] = 0 -> 1 [] c = <<3, 1, 0>> -> SOURCE [] OTHER -> AIR]
MCSaves == {[world |-> Pool, selectBlockType |-> 6,
             player |-> [x |-> 4, y |-> 9, z |-> 4, vy |-> 0, onGround |-> TRUE]],
            [world |-> Roofed, selectBlockType |-> 1,
             player |-> [x |-> 12, y |-> 29, z |-> 4, vy |-> -20, onGround |-> FALSE]]}
=============================================================================
