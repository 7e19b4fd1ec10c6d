--------------------------- MODULE Audio_Controller ---------------------------
(***************************************************************************)
(* The set-up of the sound codec at power on: the automaton of               *)
(* modules/Audio_Controller.v that has i2c_master write a table of           *)
(* registers, and the codec (WM8731, external) at the other end of the two   *)
(* wires, which takes the transactions apart bit by bit and may refuse any   *)
(* byte.  Codec and master see each other on the open line only.            *)
(*                                                                         *)
(* A step is a clock in which i2c_master acts.  The clocks between its       *)
(* moments, in which Audio_Controller only polls, are left out; the order    *)
(* of the clocks of the handshake by i2c_req and busy is kept.              *)
(***************************************************************************)
EXTENDS I2C_Master

CONSTANTS
  Table,      (* the register writes <<ctrl_byte, data_byte>>, 12 in the code *)
  DEVICE,     (* the address of the codec with the write bit: 34 (hex)      *)
  DELAY       (* clocks the codec is left alone for after a write           *)

ASSUME TableAssumption ==
  Table \in Seq(Byte \X Byte) /\ DEVICE \in Byte /\ DELAY \in Nat

VARIABLES
  i2c_state, init_idx, i2c_req, delay_cnt, i2c_error,
  listening,   (* codec: the byte it receives, "device", "register" or       *)
               (* "data"; "over" after the data, "no" when it does not        *)
  bits,        (* codec: those of the byte so far                           *)
  pull,        (* codec: it holds SDA down, to acknowledge                   *)
  word,        (* codec: register and data received                         *)
  log          (* history: the writes the codec has taken                    *)

setupVars == <<i2c_state, init_idx, i2c_req, delay_cnt, i2c_error>>
codecVars == <<listening, bits, pull, word, log>>
audioVars == <<masterVars, setupVars, codecVars>>

-----------------------------------------------------------------------------
(* The automaton.  init_idx counts from 0. *)

SetupInit == /\ i2c_state = "ST_IDLE" /\ init_idx = 0 /\ i2c_req = FALSE
             /\ delay_cnt = 0 /\ i2c_error = FALSE

ctrl_byte == IF init_idx < Len(Table) THEN Table[init_idx + 1][1] ELSE Zero
data_byte == IF init_idx < Len(Table) THEN Table[init_idx + 1][2] ELSE Zero

NextEntry ==
  /\ i2c_state = "ST_IDLE"
  /\ i2c_state' = IF init_idx < Len(Table) THEN "ST_START" ELSE "ST_DONE"
  /\ UNCHANGED <<init_idx, i2c_req, delay_cnt>>

Ask == /\ i2c_state = "ST_START"
       /\ IF busy THEN UNCHANGED <<i2c_state, i2c_req>>
                  ELSE i2c_req' = TRUE /\ i2c_state' = "ST_WAIT"
       /\ UNCHANGED <<init_idx, delay_cnt>>

(* Mutant of Wait: a master that is not busy yet counts as through. *)
WaitNotBusy ==
  /\ i2c_state = "ST_WAIT"
  /\ i2c_req' = (i2c_req /\ ~busy)
  /\ IF ~busy THEN i2c_state' = "ST_DELAY" /\ delay_cnt' = 0
              ELSE UNCHANGED <<i2c_state, delay_cnt>>
  /\ UNCHANGED init_idx

(* The request is held until the master is busy, and the entry is through    *)
(* when it is not busy any more, whether it was acknowledged or not.        *)
Wait ==
  /\ i2c_state = "ST_WAIT"
  /\ i2c_req' = (i2c_req /\ ~busy)
  /\ IF ~busy /\ ~i2c_req
       THEN i2c_state' = "ST_DELAY" /\ delay_cnt' = 0
       ELSE UNCHANGED <<i2c_state, delay_cnt>>
  /\ UNCHANGED init_idx

Digest ==
  /\ i2c_state = "ST_DELAY"
  /\ IF delay_cnt = DELAY
       THEN /\ init_idx' = init_idx + 1 /\ i2c_state' = "ST_IDLE"
            /\ UNCHANGED delay_cnt
       ELSE /\ delay_cnt' = delay_cnt + 1
            /\ UNCHANGED <<init_idx, i2c_state>>
  /\ UNCHANGED i2c_req

Done == /\ i2c_state = "ST_DONE" /\ i2c_req' = FALSE
        /\ UNCHANGED <<i2c_state, init_idx, delay_cnt>>

Setup == /\ NextEntry \/ Ask \/ Wait \/ Digest \/ Done
         /\ i2c_error' = (i2c_error \/ nack)

-----------------------------------------------------------------------------
(* The codec *)

CodecInit == /\ listening = "no" /\ bits = <<>> /\ pull = FALSE
             /\ word = <<>> /\ log = <<>>

sda_o == IF reg_sda_o # Z THEN reg_sda_o ELSE IF pull THEN 0 ELSE 1

HearNothing == UNCHANGED codecVars

HearStart == /\ listening' = "device" /\ bits' = <<>> /\ pull' = FALSE
             /\ word' = <<>> /\ UNCHANGED log

(* A stop after the data byte makes the codec take the write. *)
HearStop == /\ listening' = "no" /\ bits' = <<>> /\ pull' = FALSE
            /\ word' = <<>>
            /\ log' = IF listening = "over" THEN Append(log, word) ELSE log

HearBit == IF listening = "no" \/ Len(bits) = BITS THEN HearNothing
           ELSE bits' = Append(bits, sda_o') /\ UNCHANGED <<listening, pull, word, log>>

(* After the last bit of a byte: acknowledged, or the rest is not listened   *)
(* to.                                                                     *)
After == [device |-> "register", register |-> "data", data |-> "over"]
TakeByte ==
  \/ /\ listening = "device" => bits = DEVICE
     /\ listening \in DOMAIN After
     /\ pull' = TRUE
     /\ word' = IF listening = "device" THEN word ELSE Append(word, bits)
     /\ UNCHANGED <<listening, bits, log>>
  \/ /\ listening' = "no" /\ bits' = <<>> /\ word' = <<>> /\ UNCHANGED <<pull, log>>

(* Then the line is let go again. *)
LetGo == /\ pull' = FALSE /\ bits' = <<>>
         /\ listening' = After[listening] /\ UNCHANGED <<word, log>>

HearFall == IF pull THEN LetGo
            ELSE IF listening # "no" /\ Len(bits) = BITS THEN TakeByte ELSE HearNothing

(* What the codec makes of a change of the lines. *)
Codec == CASE scl_o = 1 /\ scl_o' = 1 /\ sda_o = 1 /\ reg_sda_o' = 0 -> HearStart
           [] scl_o = 1 /\ scl_o' = 1 /\ sda_o = 0 /\ reg_sda_o' = 1 -> HearStop
           [] scl_o = 0 /\ scl_o' = 1 -> HearBit
           [] scl_o = 1 /\ scl_o' = 0 -> HearFall
           [] OTHER -> HearNothing

-----------------------------------------------------------------------------
AudioInit == MasterInit /\ SetupInit /\ CodecInit

Clock == /\ Setup
         /\ Master(i2c_req, DEVICE, ctrl_byte, data_byte, sda_o)
         /\ Codec

AudioSpec == AudioInit /\ [][Clock]_audioVars

FairAudioSpec == AudioSpec /\ WF_audioVars(Clock)

-----------------------------------------------------------------------------
(* Registers, wires and the codec keep their types: shifting neither leaves the *)
(* byte nor takes cntr past it, and the codec never hears more than a byte.    *)
AudioTypeOK ==
  /\ state \in Sending \cup {"IDLE", "START", "ACK_NACK_RX", "STOP", "RELEASE_BUS"}
  /\ next_state \in Sending \cup {"IDLE", "STOP"}
  /\ reg_sda_o \in {0, 1, Z} /\ en_scl \in BOOLEAN /\ clk_i2c \in {0, 1}
  /\ due \in BOOLEAN /\ cntr \in 0..BITS /\ byte_sr \in Byte
  /\ sub_addr \in Byte /\ data_to_write \in Byte
  /\ busy \in BOOLEAN /\ nack \in BOOLEAN
  /\ i2c_state \in {"ST_IDLE", "ST_START", "ST_WAIT", "ST_DELAY", "ST_DONE"}
  /\ init_idx \in 0..Len(Table) /\ i2c_req \in BOOLEAN
  /\ delay_cnt \in 0..DELAY /\ i2c_error \in BOOLEAN
  /\ listening \in {"no", "device", "register", "data", "over"}
  /\ bits \in Seq({0, 1}) /\ Len(bits) <= BITS
  /\ pull \in BOOLEAN /\ word \in Seq(Byte) /\ log \in Seq(Byte \X Byte)

(* The entry of the table that is being written has been decided on.        *)
Decided == \/ i2c_state = "ST_DELAY"
           \/ i2c_state = "ST_WAIT" /\ ~i2c_req /\ state \in {"RELEASE_BUS", "IDLE"}

(* Taken apart by the codec, the bits on the wires are the table's entries,   *)
(* one after the other, each once: a byte refused in the middle of a         *)
(* transaction, which ends it without a stop, costs this one entry, never    *)
(* makes another of it or of the next, and is remembered.                  *)
Table_ == INSTANCE CodecSetup WITH
            dealt   <- init_idx + (IF Decided THEN 1 ELSE 0),
            refused <- i2c_error \/ nack
ImplementsSetup == Table_!Spec

(* The set-up comes to its end, whatever the codec refuses. *)
SetupEnds == <>(i2c_state = "ST_DONE")
=============================================================================
