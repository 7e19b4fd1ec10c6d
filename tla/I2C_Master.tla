----------------------------- MODULE I2C_Master -----------------------------
(***************************************************************************)
(* modules/i2c_master.v: the I2C master, for what Audio_Controller asks of   *)
(* it: a transaction that writes one byte to an 8-bit sub-address.          *)
(*                                                                         *)
(* The 400 kHz clock is made of halves of 125 clocks, in each of which the   *)
(* automaton acts at one moment: DATA_HOLD_TIME after the falling edge, or   *)
(* START_IND_SETUP or STOP_IND_SETUP after the rising one.  A step is such   *)
(* a moment or an edge.                                                     *)
(*                                                                         *)
(* A byte is the sequence of its bits, the most significant first.  cntr is  *)
(* {byte_sent, cntr}: the bits of the byte that have been shifted out.  The  *)
(* ninth shift, which shows a 0 for one clock while SCL is low before the    *)
(* line is released, belongs to the step that releases it.                 *)
(***************************************************************************)
EXTENDS Integers, Sequences

CONSTANT BITS     (* 8: the length of a byte *)
ASSUME BitsAssumption == BITS \in Nat \ {0}

Byte == [1..BITS -> {0, 1}]
Z    == 2         (* a line that is not driven *)

VARIABLES
  state, next_state,
  reg_sda_o,
  en_scl, clk_i2c,
  due,            (* the automaton has yet to act in this half            *)
  cntr, byte_sr,
  sub_addr, data_to_write,
  busy, nack

latched    == <<sub_addr, data_to_write>>
clockVars  == <<en_scl, clk_i2c, due>>
masterVars == <<state, next_state, reg_sda_o, clockVars, cntr, byte_sr,
                latched, busy, nack>>

Sending == {"SLAVE_ADDR", "SUB_ADDR", "WRITE"}
Zero    == [i \in 1..BITS |-> 0]

MasterInit ==
  /\ state = "IDLE" /\ next_state = "IDLE" /\ reg_sda_o = Z
  /\ en_scl = FALSE /\ clk_i2c = 1 /\ due = FALSE
  /\ cntr = 0 /\ byte_sr = Zero
  /\ sub_addr = Zero /\ data_to_write = Zero
  /\ busy = FALSE /\ nack = FALSE

scl_o == IF en_scl THEN clk_i2c ELSE 1

Begin(req_trans, i_sub_addr, i_data_write) ==
  /\ state = "IDLE" /\ req_trans /\ ~busy
  /\ busy' = TRUE /\ state' = "START" /\ next_state' = "SLAVE_ADDR"
  /\ sub_addr' = i_sub_addr /\ data_to_write' = i_data_write
  /\ en_scl' = TRUE /\ clk_i2c' = 1 /\ due' = TRUE
  /\ reg_sda_o' = 1 /\ nack' = FALSE /\ cntr' = 0
  /\ UNCHANGED byte_sr

(* Nobody asks; a request during a transaction would wait. *)
Unasked(req_trans) == /\ state = "IDLE" /\ ~(req_trans /\ ~busy)
                      /\ UNCHANGED masterVars

Edge == /\ en_scl /\ ~due
        /\ clk_i2c' = 1 - clk_i2c /\ due' = TRUE
        /\ UNCHANGED <<state, next_state, reg_sda_o, en_scl, cntr, byte_sr,
                       latched, busy, nack>>

(* The automaton's moment of this half, at a level of the clock. *)
Moment(level) == /\ en_scl /\ due /\ clk_i2c = level
                 /\ due' = FALSE /\ UNCHANGED <<en_scl, clk_i2c, latched>>

(* Halves in which a state has nothing to do. *)
Pass == /\ \/ Moment(1) /\ state \in Sending
           \/ Moment(0) /\ state = "ACK_NACK_RX"
        /\ UNCHANGED <<state, next_state, reg_sda_o, cntr, byte_sr, busy, nack>>

(* i_addr_w_rw: the device, written to. *)
SendStart(addr) ==
  /\ Moment(1) /\ state = "START"
  /\ reg_sda_o' = 0 /\ byte_sr' = addr /\ state' = "SLAVE_ADDR"
  /\ UNCHANGED <<next_state, cntr, busy, nack>>

ShiftOut ==
  /\ Moment(0) /\ state \in Sending /\ cntr < BITS
  /\ reg_sda_o' = Head(byte_sr) /\ byte_sr' = Append(Tail(byte_sr), 0)
  /\ cntr' = cntr + 1
  /\ UNCHANGED <<state, next_state, busy, nack>>

(* After the last bit the line is left to the other side, and the next byte  *)
(* is laid ready.                                                          *)
ByteSent(from, to, byte) ==
  /\ Moment(0) /\ state = from /\ cntr = BITS
  /\ reg_sda_o' = Z /\ cntr' = 0
  /\ state' = "ACK_NACK_RX" /\ next_state' = to /\ byte_sr' = byte
  /\ UNCHANGED <<busy, nack>>

Sent == \/ ByteSent("SLAVE_ADDR", "SUB_ADDR", sub_addr)
        \/ ByteSent("SUB_ADDR", "WRITE", data_to_write)
        \/ ByteSent("WRITE", "STOP", byte_sr)

Ack(sda) == /\ Moment(1) /\ state = "ACK_NACK_RX" /\ sda = 0
            /\ state' = next_state
            /\ UNCHANGED <<next_state, reg_sda_o, cntr, byte_sr, busy, nack>>

(* Mutant of Nack: the master stays busy. *)
NackStillBusy(sda) ==
  /\ en_scl /\ due /\ clk_i2c = 1 /\ state = "ACK_NACK_RX" /\ sda = 1
  /\ state' = "IDLE" /\ nack' = TRUE
  /\ reg_sda_o' = Z /\ en_scl' = FALSE /\ clk_i2c' = 1 /\ due' = FALSE
  /\ UNCHANGED <<next_state, cntr, byte_sr, latched, busy>>

(* The transaction is given up, without a stop. *)
Nack(sda) ==
  /\ en_scl /\ due /\ clk_i2c = 1 /\ state = "ACK_NACK_RX" /\ sda = 1
  /\ state' = "IDLE" /\ nack' = TRUE /\ busy' = FALSE
  /\ reg_sda_o' = Z /\ en_scl' = FALSE /\ clk_i2c' = 1 /\ due' = FALSE
  /\ UNCHANGED <<next_state, cntr, byte_sr, latched>>

(* SDA goes down while SCL is low, and up while it is high: the stop. *)
SendStop ==
  \/ /\ Moment(0) /\ state = "STOP" /\ reg_sda_o' = 0
     /\ UNCHANGED <<state, next_state, cntr, byte_sr, busy, nack>>
  \/ /\ en_scl /\ due /\ clk_i2c = 1 /\ state = "STOP"
     /\ reg_sda_o' = 1 /\ state' = "RELEASE_BUS"
     /\ UNCHANGED <<next_state, clockVars, cntr, byte_sr, latched, busy, nack>>

(* Later in the same half. *)
Release ==
  /\ state = "RELEASE_BUS"
  /\ state' = "IDLE" /\ busy' = FALSE
  /\ reg_sda_o' = Z /\ en_scl' = FALSE /\ clk_i2c' = 1 /\ due' = FALSE
  /\ UNCHANGED <<next_state, cntr, byte_sr, latched, nack>>

Master(req_trans, addr, i_sub_addr, i_data_write, sda) ==
  \/ Begin(req_trans, i_sub_addr, i_data_write) \/ Unasked(req_trans)
  \/ Edge \/ Pass \/ SendStart(addr) \/ ShiftOut \/ Sent
  \/ Ack(sda) \/ Nack(sda) \/ SendStop \/ Release
=============================================================================
