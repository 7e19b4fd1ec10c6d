----------------------------- MODULE MCWorldFetch -----------------------------
(* WorldFetch on two words of air and a byte whose low bits are those of     *)
(* stone, which is the type the ROM goes by.  The program accesses the      *)
(* world a byte at a time, through sram_8_ptr: here it reads a byte, sets a  *)
(* block on the upper lane of one word and breaks one on the lower lane of  *)
(* the other.                                                              *)
EXTENDS WorldFetch

MCAddr     == {0, 1}
MCBlock    == {0, 17}
MCPassable == {0, 6}

ByteAccess(w, a, d, l) ==
  [read |-> ~w, write |-> w, address |-> a,
   writedata |-> [x \in Lane |-> d], byteenable |-> {l}]

MCRequests ==
  {ByteAccess(TRUE, 0, Air, 0), ByteAccess(TRUE, 1, 17, 1),
   ByteAccess(FALSE, 1, Air, 0)}

=============================================================================
