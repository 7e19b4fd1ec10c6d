----------------------------- MODULE CodecSetup -----------------------------
(***************************************************************************)
(* What setting up the codec promises: each entry of the table is written    *)
(* once, whole and in its place in the order, or it is refused, which is     *)
(* never forgotten; refused or not, the next entry follows.                 *)
(***************************************************************************)
EXTENDS Naturals, Sequences

CONSTANT Table           (* the register writes, in order                  *)
VARIABLES
  dealt,                 (* entries dealt with so far                      *)
  log,                   (* what the codec was written                     *)
  refused                (* whether it ever refused                        *)

Init == dealt = 0 /\ log = <<>> /\ refused = FALSE

WriteNext == /\ dealt < Len(Table) /\ dealt' = dealt + 1
             /\ log' = Append(log, Table[dealt'])
             /\ UNCHANGED refused

RefuseNext == /\ dealt < Len(Table) /\ dealt' = dealt + 1
              /\ refused' = TRUE
              /\ UNCHANGED log

Spec == Init /\ [][WriteNext \/ RefuseNext]_<<dealt, log, refused>>
=============================================================================
