------------------------------ MODULE PS2_Driver ------------------------------
(***************************************************************************)
(* modules/PS2_driver.v: receives the bytes of a PS/2 keyboard and joins the *)
(* prefixes to the code they belong to.  One step is one falling edge of    *)
(* PS_CLK, with the bit read from PS_DAT: the keyboard's clock is thousands *)
(* of times slower than the receiver's, so the synchronizers and the clocks *)
(* between two edges are left out.                                         *)
(*                                                                         *)
(* A byte is the sequence of its bits, the least significant first.  got is *)
(* the byte the last edge completed, which the code shows for one clock.    *)
(***************************************************************************)
EXTENDS Integers, Sequences

CONSTANTS
  DATA_BITS,    (* 8 in the code                                           *)
  EXT, BRK      (* the prefixes: E0 and F0 in the code                     *)

Byte == [1..DATA_BITS -> BOOLEAN]

ASSUME DriverAssumption ==
  DATA_BITS \in Nat \ {0} /\ EXT \in Byte /\ BRK \in Byte /\ EXT # BRK

VARIABLES count, get_data, parity, is_extended, is_break, got

driverVars == <<count, get_data, parity, is_extended, is_break, got>>

PARITY == DATA_BITS + 1
STOP   == DATA_BITS + 2
None   == <<>>
Zero   == [i \in 1..DATA_BITS |-> FALSE]

DriverTypeOK ==
  /\ count \in 0..STOP /\ get_data \in Byte /\ parity \in BOOLEAN
  /\ is_extended \in BOOLEAN /\ is_break \in BOOLEAN
  /\ got \in Byte \cup {None}

DriverInit ==
  /\ count = 0 /\ get_data = Zero /\ parity = FALSE
  /\ is_extended = FALSE /\ is_break = FALSE /\ got = None

StartBit(bit) ==
  /\ count = 0
  /\ IF bit THEN UNCHANGED <<count, get_data, parity>>
            ELSE count' = 1 /\ get_data' = Zero /\ parity' = FALSE
  /\ got' = None /\ UNCHANGED <<is_extended, is_break>>

DataBit(bit) ==
  /\ count \in 1..DATA_BITS /\ count' = count + 1
  /\ get_data' = Append(Tail(get_data), bit)
  /\ parity' = (parity # bit)
  /\ got' = None /\ UNCHANGED <<is_extended, is_break>>

ParityBit(bit) ==
  /\ count = PARITY /\ count' = STOP
  /\ parity' = (parity # bit)
  /\ got' = None /\ UNCHANGED <<get_data, is_extended, is_break>>

(* Mutant: the parity is not looked at. *)
AcceptsAll(bit) == bit

Accepts(bit) == parity /\ bit

(* Mutant: a release leaves the break prefix set. *)
PrefixesKept(byte) ==
  /\ is_extended' = (byte = EXT \/ (byte = BRK /\ is_extended))
  /\ is_break' = (byte = BRK \/ is_break)

(* A prefix waits for the code it belongs to, which uses both up. *)
Prefixes(byte) ==
  /\ is_extended' = (byte = EXT \/ (byte = BRK /\ is_extended))
  /\ is_break' = (byte = BRK \/ (byte = EXT /\ is_break))

(* Mutant: a byte that is refused is not the end of its frame. *)
StopBitWaits(bit) ==
  /\ count = STOP /\ count' = IF Accepts(bit) THEN 0 ELSE STOP
  /\ IF Accepts(bit) THEN Prefixes(get_data) /\ got' = get_data
       ELSE got' = None /\ UNCHANGED <<is_extended, is_break>>
  /\ UNCHANGED <<get_data, parity>>

StopBit(bit) ==
  /\ count = STOP /\ count' = 0
  /\ IF Accepts(bit) THEN Prefixes(get_data) /\ got' = get_data
       ELSE got' = None /\ UNCHANGED <<is_extended, is_break>>
  /\ UNCHANGED <<get_data, parity>>

Edge(bit) == StartBit(bit) \/ DataBit(bit) \/ ParityBit(bit) \/ StopBit(bit)
=============================================================================
