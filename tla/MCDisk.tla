-------------------------------- MODULE MCDisk --------------------------------
(* Cards of three sectors, two bytes each: an address that is wrong by the    *)
(* factor of the sector size is another sector or none.                      *)
EXTENDS Disk

MCFresh  == [s \in Sector |-> s]
MCReads  == {<<0, 2>>, <<2, 1>>}
MCWrites == {<<0, <<3, 4>>>>, <<2, <<3>>>>}
=============================================================================
