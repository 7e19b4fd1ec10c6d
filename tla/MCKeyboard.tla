------------------------------ MODULE MCKeyboard ------------------------------
(* Bytes of three bits.  Two digits, an extended key, and the plain key with   *)
(* the same code, which PS2_Messages does not know: the arrows and the        *)
(* numbers of the keypad.                                                  *)
EXTENDS Keyboard, TLC

MCEXT == <<TRUE, TRUE, TRUE>>
MCBRK == <<FALSE, TRUE, TRUE>>

One    == [ext |-> FALSE, code |-> <<TRUE, FALSE, FALSE>>]
Two    == [ext |-> FALSE, code |-> <<FALSE, TRUE, FALSE>>]
Up     == [ext |-> TRUE,  code |-> <<TRUE, TRUE, FALSE>>]
KeyPad == [ext |-> FALSE, code |-> <<TRUE, TRUE, FALSE>>]

MCKeyTable == (One :> 1) @@ (Two :> 2) @@ (Up :> 42)
MCKeys     == {One, Two, Up, KeyPad}
=============================================================================
