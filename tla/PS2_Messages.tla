----------------------------- MODULE PS2_Messages -----------------------------
(***************************************************************************)
(* modules/PS2_Messages.v: the key map.  It turns what PS2_Driver received  *)
(* into a bit for each key, and the digits into the block the player holds.  *)
(* It follows the driver by one clock and the block by one more, long before *)
(* the next edge of the keyboard, so both belong to the driver's step.      *)
(*                                                                         *)
(* move_ctrl, action_keys and state_key are wires from pressed_key.         *)
(***************************************************************************)
EXTENDS PS2_Driver, FiniteSetsExt

CONSTANT KeyTable    (* the case statement: the number of [ext, code]      *)

ASSUME TableAssumption ==
  /\ DOMAIN KeyTable \subseteq [ext : BOOLEAN, code : Byte \ {EXT, BRK}]
  /\ \A k \in DOMAIN KeyTable : KeyTable[k] \in 0..44
  /\ \A j, k \in DOMAIN KeyTable : KeyTable[j] = KeyTable[k] => j = k

VARIABLES pressed_key, block_select

messageVars == <<pressed_key, block_select>>

Known  == DOMAIN KeyTable
Digits == 1..6

MessagesTypeOK ==
  /\ pressed_key \subseteq {KeyTable[k] : k \in Known}
  /\ block_select \in Digits

MessagesInit == pressed_key = {} /\ block_select = 1

(* The code that this bit completes; other codes, and the prefixes, change   *)
(* nothing.                                                                *)
key_index(bit) ==
  {KeyTable[k] : k \in {j \in Known :
     count = STOP /\ Accepts(bit) /\ j = [ext |-> is_extended, code |-> get_data]}}

Block(keys) ==
  IF keys \cap Digits # {} THEN Min(keys \cap Digits) ELSE block_select

Message(bit) ==
  /\ pressed_key' = IF is_break THEN pressed_key \ key_index(bit)
                                ELSE pressed_key \cup key_index(bit)
  /\ block_select' = Block(pressed_key')

(* An edge of the keyboard's clock. *)
Receive(bit) == Edge(bit) /\ Message(bit)
=============================================================================
