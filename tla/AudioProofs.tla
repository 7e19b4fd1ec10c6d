------------------------------ MODULE AudioProofs ------------------------------
(***************************************************************************)
(* Proofs about the sound: about Audio_Controller for tables of registers    *)
(* of any length and bytes of any number of bits, and about Music for songs   *)
(* of any length and any time that an order stands.                         *)
(***************************************************************************)
EXTENDS Audio_Controller, Music, SequenceTheorems, TLAPS

-----------------------------------------------------------------------------
(* The set-up of the codec.  A transaction goes through phases, in each of     *)
(* which master and codec are at the same bit of the same byte.             *)

(* What the codec takes the byte for that is sent in a state, where the        *)
(* master goes from there, and what the byte is.                           *)
ToHear == [SLAVE_ADDR |-> "device", SUB_ADDR |-> "register", WRITE |-> "data"]
ToSend == [SLAVE_ADDR |-> "SUB_ADDR", SUB_ADDR |-> "WRITE", WRITE |-> "STOP"]
ByteOf(s) ==
  IF s = "SLAVE_ADDR" THEN DEVICE ELSE IF s = "SUB_ADDR" THEN sub_addr ELSE data_to_write

(* What the codec has been told when it listens for l. *)
WordAt(l) ==
  IF l \in {"device", "register"} THEN <<>>
  ELSE IF l = "data" THEN <<sub_addr>> ELSE <<sub_addr, data_to_write>>

Hearing(l)      == listening = l /\ ~pull /\ word = WordAt(l)
Acknowledged(l) == listening = l /\ pull /\ word = WordAt(After[l]) /\ Len(bits) = BITS
Deaf            == listening = "no" /\ ~pull
Answered(s)     == Acknowledged(ToHear[s]) \/ Deaf

(* n bits of the byte are shifted out, and the codec has heard n bits of it.  *)
Shifted(byte, n) == \A k \in 1 .. BITS - n : byte_sr[k] = byte[k + n]
Heard(byte, n)   == Len(bits) = n /\ \A k \in 1..n : bits[k] = byte[k]

(* The phases of a transaction. *)
Free == state = "IDLE" /\ ~en_scl /\ reg_sda_o = Z /\ Deaf

Opening == /\ state = "START" /\ en_scl /\ clk_i2c = 1 /\ due
           /\ reg_sda_o = 1 /\ cntr = 0 /\ Deaf

InByte(s) ==
  /\ state = s /\ en_scl /\ Hearing(ToHear[s]) /\ Shifted(ByteOf(s), cntr)
  /\ \/ clk_i2c = 1 /\ reg_sda_o \in {0, 1} /\ Heard(ByteOf(s), cntr)
     \/ clk_i2c = 0 /\ due /\ cntr < BITS /\ Heard(ByteOf(s), cntr)
     \/ /\ clk_i2c = 0 /\ ~due /\ cntr > 0 /\ reg_sda_o = ByteOf(s)[cntr]
        /\ Heard(ByteOf(s), cntr - 1)

ByteOver(s) == /\ state = s /\ en_scl /\ clk_i2c = 0 /\ due /\ cntr = BITS
               /\ Answered(s)

Answering(s) ==
  /\ state = "ACK_NACK_RX" /\ next_state = ToSend[s] /\ en_scl
  /\ \/ clk_i2c = 0 /\ ~due
     \/ clk_i2c = 1 /\ due
  /\ reg_sda_o = Z /\ cntr = 0 /\ Answered(s)
  /\ s # "WRITE" => byte_sr = ByteOf(ToSend[s])

AnswerSeen(s) ==
  /\ state = ToSend[s] /\ en_scl /\ clk_i2c = 1 /\ ~due
  /\ reg_sda_o = Z /\ cntr = 0 /\ Acknowledged(ToHear[s])
  /\ s # "WRITE" => byte_sr = ByteOf(ToSend[s])

Closing ==
  /\ state = "STOP" /\ en_scl /\ Hearing("over")
  /\ \/ clk_i2c = 0 /\ due /\ reg_sda_o = Z /\ Len(bits) = 0
     \/ clk_i2c = 0 /\ ~due /\ reg_sda_o = 0 /\ Len(bits) = 0
     \/ clk_i2c = 1 /\ due /\ reg_sda_o = 0

Closed == /\ state = "RELEASE_BUS" /\ en_scl /\ clk_i2c = 1 /\ due
          /\ reg_sda_o = 1 /\ Deaf

Bus == \/ Free \/ Opening
       \/ \E s \in Sending : InByte(s) \/ ByteOver(s) \/ Answering(s) \/ AnswerSeen(s)
       \/ Closing \/ Closed

(* Audio_Controller has one entry at a time sent, and holds it still. *)
Asking ==
  /\ i2c_state # "ST_WAIT" => state = "IDLE" /\ ~i2c_req
  /\ i2c_state \in {"ST_START", "ST_WAIT", "ST_DELAY"} => init_idx < Len(Table)
  /\ i2c_req => state \in {"IDLE", "START"}
  /\ busy <=> state # "IDLE"
  /\ state # "IDLE" => <<sub_addr, data_to_write>> = Table[init_idx + 1]

AInv == AudioTypeOK /\ Bus /\ Asking

-----------------------------------------------------------------------------
(* Bytes *)

LEMMA ByteSeq ==
  /\ \A b \in Byte : b \in Seq({0, 1}) /\ Len(b) = BITS /\ Head(b) = b[1]
  /\ \A s \in Seq({0, 1}) : Len(s) = BITS => s \in Byte
  /\ Zero \in Byte
<1>1. ASSUME NEW b \in Byte PROVE b \in Seq({0, 1}) /\ Len(b) = BITS /\ Head(b) = b[1]
  <2>1. BITS \in Nat \ {0} /\ b \in [1..BITS -> {0, 1}]
    BY BitsAssumption DEF Byte
  <2>2. b \in Seq({0, 1}) /\ Len(b) = BITS
    BY <2>1, IsASeq, LenProperties
  <2> QED
    BY <2>1, <2>2, HeadTailProperties, EmptySeq
<1>2. ASSUME NEW s \in Seq({0, 1}), Len(s) = BITS PROVE s \in Byte
  BY <1>2, LenProperties DEF Byte
<1>3. Zero \in Byte
  BY BitsAssumption DEF Byte, Zero
<1> QED
  BY <1>1, <1>2, <1>3

(* A byte that is shifted by one. *)
LEMMA ShiftedByte ==
  ASSUME NEW b \in Byte
  PROVE  /\ Append(Tail(b), 0) \in Byte
         /\ \A k \in 1 .. BITS - 1 : Append(Tail(b), 0)[k] = b[k + 1]
<1>1. b \in Seq({0, 1}) /\ Len(b) = BITS /\ BITS \in Nat \ {0} /\ 0 \in {0, 1}
  BY ByteSeq, BitsAssumption
<1>2. /\ Tail(b) \in Seq({0, 1}) /\ Len(Tail(b)) = BITS - 1
      /\ \A k \in 1 .. BITS - 1 : Tail(b)[k] = b[k + 1]
  BY <1>1, HeadTailProperties, EmptySeq
<1> DEFINE t == Tail(b)
<1> HIDE DEF t
<1>3. /\ Append(t, 0) \in Seq({0, 1}) /\ Len(Append(t, 0)) = BITS
      /\ \A k \in 1 .. BITS - 1 : Append(t, 0)[k] = t[k]
  BY <1>1, <1>2, AppendProperties DEF t
<1>4. Append(t, 0) \in Byte
  BY <1>3, ByteSeq
<1> QED
  BY <1>2, <1>3, <1>4 DEF t

(* What was heard to the end is the byte. *)
LEMMA HeardAll ==
  ASSUME bits \in Seq({0, 1}), NEW b \in Byte, Heard(b, BITS)
  PROVE  bits = b
<1>1. /\ bits \in Seq({0, 1}) /\ b \in Seq({0, 1})
      /\ Len(bits) = BITS /\ Len(b) = BITS
      /\ \A k \in 1..BITS : bits[k] = b[k]
  BY ByteSeq DEF Heard
<1> QED
  BY <1>1, SeqEqual

-----------------------------------------------------------------------------
(* What the codec makes of the lines *)

LEMMA Falling ==
  ASSUME Codec, scl_o = 1, scl_o' = 0 PROVE HearFall
<1>1. ~(scl_o = 1 /\ scl_o' = 1 /\ sda_o = 1 /\ reg_sda_o' = 0)
  OBVIOUS
<1>2. ~(scl_o = 1 /\ scl_o' = 1 /\ sda_o = 0 /\ reg_sda_o' = 1)
  OBVIOUS
<1>3. ~(scl_o = 0 /\ scl_o' = 1) /\ scl_o = 1 /\ scl_o' = 0
  OBVIOUS
<1> HIDE DEF scl_o, sda_o
<1> QED
  BY <1>1, <1>2, <1>3, Zenon DEF Codec

LEMMA Rising ==
  ASSUME Codec, scl_o = 0, scl_o' = 1 PROVE HearBit
<1>1. ~(scl_o = 1 /\ scl_o' = 1 /\ sda_o = 1 /\ reg_sda_o' = 0)
  OBVIOUS
<1>2. ~(scl_o = 1 /\ scl_o' = 1 /\ sda_o = 0 /\ reg_sda_o' = 1)
  OBVIOUS
<1>3. scl_o = 0 /\ scl_o' = 1 /\ ~(scl_o = 1 /\ scl_o' = 0)
  OBVIOUS
<1> QED
  BY <1>1, <1>2, <1>3, Zenon DEF Codec

LEMMA Starting ==
  ASSUME Codec, scl_o = 1, scl_o' = 1, sda_o = 1, reg_sda_o' = 0 PROVE HearStart
<1>1. ~(scl_o = 1 /\ scl_o' = 1 /\ sda_o = 0 /\ reg_sda_o' = 1)
  OBVIOUS
<1>2. ~(scl_o = 0 /\ scl_o' = 1) /\ ~(scl_o = 1 /\ scl_o' = 0)
  OBVIOUS
<1> QED
  BY <1>1, <1>2, Zenon DEF Codec

LEMMA Stopping ==
  ASSUME Codec, scl_o = 1, scl_o' = 1, sda_o = 0, reg_sda_o' = 1 PROVE HearStop
<1>1. ~(scl_o = 1 /\ scl_o' = 1 /\ sda_o = 1 /\ reg_sda_o' = 0)
  OBVIOUS
<1>2. ~(scl_o = 0 /\ scl_o' = 1) /\ ~(scl_o = 1 /\ scl_o' = 0)
  OBVIOUS
<1> QED
  BY <1>1, <1>2, Zenon DEF Codec

LEMMA Silent ==
  ASSUME Codec, scl_o \in {0, 1}, scl_o' = scl_o,
         scl_o = 0 \/ (/\ ~(sda_o = 1 /\ reg_sda_o' = 0)
                       /\ ~(sda_o = 0 /\ reg_sda_o' = 1))
  PROVE  UNCHANGED codecVars
<1>1. /\ ~(scl_o = 1 /\ scl_o' = 1 /\ sda_o = 1 /\ reg_sda_o' = 0)
      /\ ~(scl_o = 1 /\ scl_o' = 1 /\ sda_o = 0 /\ reg_sda_o' = 1)
  OBVIOUS
<1>2. ~(scl_o = 0 /\ scl_o' = 1) /\ ~(scl_o = 1 /\ scl_o' = 0)
  OBVIOUS
<1> QED
  BY <1>1, <1>2, Zenon DEF Codec, HearNothing

-----------------------------------------------------------------------------
(* What a clock leaves alone *)

(* During a transaction Audio_Controller waits, and has let the request go.   *)
LEMMA Waiting ==
  ASSUME AInv, Clock, state # "IDLE"
  PROVE  /\ i2c_state = "ST_WAIT" /\ busy
         /\ UNCHANGED <<i2c_state, init_idx, delay_cnt>> /\ i2c_req' = FALSE
         /\ UNCHANGED <<sub_addr, data_to_write>>
<1>1. i2c_state = "ST_WAIT" /\ busy = TRUE
  BY DEF AInv, Asking, AudioTypeOK
<1>2. UNCHANGED <<i2c_state, init_idx, delay_cnt>> /\ i2c_req' = FALSE
  <2>1. Wait
    BY <1>1 DEF Clock, Setup, NextEntry, Ask, Digest, Done
  <2> QED
    BY <1>1, <2>1 DEF Wait
<1>3. UNCHANGED <<sub_addr, data_to_write>>
  BY DEF Clock, Master, Begin, Unasked, Edge, Pass, Moment, SendStart, ShiftOut,
       Sent, ByteSent, Ack, Nack, SendStop, Release, latched
<1> QED
  BY <1>1, <1>2, <1>3

(* The master is busy exactly while it is at a transaction.                  *)
LEMMA BusyAtIt ==
  ASSUME AInv, Clock
  PROVE  busy' <=> state' # "IDLE"
<1>1. busy <=> state # "IDLE"
  BY DEF AInv, Asking
<1>2. next_state \in Sending \cup {"STOP"} \/ state # "ACK_NACK_RX"
  BY DEF AInv, Bus, Free, Opening, InByte, ByteOver, Answering, AnswerSeen, Closing,
       Closed, ToSend, Sending
<1>3. CASE Begin(i2c_req, ctrl_byte, data_byte)
  BY <1>3 DEF Begin
<1>4. CASE Unasked(i2c_req)
  BY <1>1, <1>4 DEF Unasked, masterVars
<1>5. CASE Edge \/ Pass \/ ShiftOut
  BY <1>1, <1>5 DEF Edge, Pass, ShiftOut, Sending
<1>6. CASE SendStart(DEVICE) \/ Sent \/ SendStop
  BY <1>1, <1>6 DEF SendStart, Sent, ByteSent, SendStop
<1>7. CASE Ack(sda_o)
  BY <1>1, <1>2, <1>7 DEF Ack, Sending
<1>8. CASE Nack(sda_o) \/ Release
  BY <1>8 DEF Nack, Release
<1> QED
  BY <1>3, <1>4, <1>5, <1>6, <1>7, <1>8 DEF Clock, Master

LEMMA AskingGoes ==
  ASSUME AInv, Clock, state # "IDLE"
  PROVE  Asking'
BY Waiting, BusyAtIt DEF AInv, Asking

(* Which phase the master's state tells. *)
LEMMA Phases ==
  ASSUME AInv
  PROVE  /\ ToSend["SLAVE_ADDR"] = "SUB_ADDR" /\ ToSend["SUB_ADDR"] = "WRITE"
         /\ ToSend["WRITE"] = "STOP"
         /\ state = "IDLE" => Free
<1>1. /\ ToSend["SLAVE_ADDR"] = "SUB_ADDR" /\ ToSend["SUB_ADDR"] = "WRITE"
      /\ ToSend["WRITE"] = "STOP"
  BY DEF ToSend
<1>2. \A s \in Sending : ToSend[s] # "IDLE" /\ s # "IDLE"
  BY <1>1 DEF Sending
<1>3. state = "IDLE" => Free
  BY <1>2
  DEF AInv, Bus, Opening, InByte, ByteOver, Answering, AnswerSeen, Closing, Closed
<1> QED
  BY <1>1, <1>3

(* Between transactions Audio_Controller asks for the next one or waits.      *)
LEMMA AskingBegins ==
  ASSUME AInv, Clock, state = "IDLE"
  PROVE  /\ Asking'
         /\ \/ i2c_state = "ST_WAIT" /\ i2c_req /\ Begin(i2c_req, ctrl_byte, data_byte)
            \/ ~(i2c_state = "ST_WAIT" /\ i2c_req) /\ Unasked(i2c_req)
<1> USE DEF AInv, Asking
<1>1. busy = FALSE /\ i2c_req \in BOOLEAN /\ init_idx \in 0..Len(Table)
  BY DEF AudioTypeOK
<1>2. \/ Begin(i2c_req, ctrl_byte, data_byte) /\ i2c_req
      \/ Unasked(i2c_req) /\ ~i2c_req
  <2>1. en_scl = FALSE
    BY Phases, Zenon DEF Free, AudioTypeOK
  <2> QED
    BY <1>1, <2>1
    DEF Clock, Master, Begin, Unasked, Edge, Pass, Moment, SendStart, ShiftOut,
        Sent, ByteSent, Ack, Nack, SendStop, Release
<1>3. Len(Table) \in Nat /\ Table \in Seq(Byte \X Byte)
  BY TableAssumption, LenProperties
<1>4. CASE i2c_req
  <2>1. i2c_state = "ST_WAIT" /\ init_idx < Len(Table)
    BY <1>4
  <2>2. Wait /\ UNCHANGED <<i2c_state, init_idx, i2c_req>>
    BY <1>1, <1>4, <2>1 DEF Clock, Setup, NextEntry, Ask, Digest, Done, Wait
  <2>3. Table[init_idx + 1] \in Byte \X Byte
    BY <1>1, <1>3, <2>1, ElementOfSeq
  <2>4. /\ state' = "START" /\ busy'
        /\ sub_addr' = Table[init_idx + 1][1] /\ data_to_write' = Table[init_idx + 1][2]
    BY <1>2, <1>4, <2>1 DEF Begin, ctrl_byte, data_byte
  <2>5. <<sub_addr', data_to_write'>> = Table[init_idx + 1]
    BY <2>3, <2>4
  <2> QED
    BY <1>2, <1>4, <2>1, <2>2, <2>4, <2>5
<1>5. CASE ~i2c_req
  <2>1. UNCHANGED <<state, busy>>
    BY <1>2, <1>5 DEF Unasked, masterVars
  <2>2. /\ i2c_req' => i2c_state' = "ST_WAIT"
        /\ i2c_state' \in {"ST_START", "ST_WAIT", "ST_DELAY"} => init_idx' < Len(Table)
    BY <1>1, <1>3, <1>5 DEF Clock, Setup, NextEntry, Ask, Wait, Digest, Done
  <2> QED
    BY <1>1, <1>2, <1>5, <2>1, <2>2
<1> QED
  BY <1>4, <1>5

-----------------------------------------------------------------------------
(* The steps of a transaction, phase by phase *)

(* Nothing is decided about the entry yet. *)
Undecided == state' \notin {"IDLE", "RELEASE_BUS"} /\ UNCHANGED <<log, nack>>

LEMMA FromFree ==
  ASSUME AInv, Clock, Free
  PROVE  (Free' \/ Opening') /\ UNCHANGED log /\ (nack' => nack)
<1> USE DEF Free, Deaf
<1>1. sda_o = 1 /\ scl_o = 1
  BY DEF sda_o, scl_o
<1>2. CASE Unasked(i2c_req)
  <2>1. UNCHANGED <<state, en_scl, clk_i2c, reg_sda_o, nack>>
    BY <1>2 DEF Unasked, masterVars, clockVars
  <2>2. scl_o' = 1 /\ reg_sda_o' = Z
    BY <1>1, <2>1 DEF scl_o
  <2>3. UNCHANGED codecVars
    BY <1>1, <2>2, Silent DEF Clock, Z
  <2> QED
    BY <2>1, <2>3 DEF codecVars
<1>3. CASE Begin(i2c_req, ctrl_byte, data_byte)
  <2>1. /\ state' = "START" /\ en_scl' /\ clk_i2c' = 1 /\ due' /\ reg_sda_o' = 1
        /\ cntr' = 0 /\ nack' = FALSE
    BY <1>3 DEF Begin
  <2>2. scl_o' = 1
    BY <2>1 DEF scl_o
  <2>3. UNCHANGED codecVars
    BY <1>1, <2>1, <2>2, Silent DEF Clock
  <2> QED
    BY <2>1, <2>3 DEF codecVars, Opening
<1> QED
  BY <1>2, <1>3, AskingBegins

LEMMA FromOpening ==
  ASSUME AInv, Clock, Opening
  PROVE  InByte("SLAVE_ADDR")' /\ Undecided
<1> USE DEF Opening, Deaf
<1>1. SendStart(DEVICE)
  BY DEF Clock, Master, Begin, Unasked, Edge, Pass, Moment, SendStart, ShiftOut,
       Sent, ByteSent, Ack, Nack, SendStop, Release, Sending
<1>2. /\ state' = "SLAVE_ADDR" /\ UNCHANGED <<en_scl, clk_i2c, cntr, nack>>
      /\ reg_sda_o' = 0 /\ byte_sr' = DEVICE
  BY <1>1 DEF SendStart, Moment
<1>3. sda_o = 1 /\ scl_o = 1 /\ scl_o' = 1
  BY <1>2 DEF sda_o, scl_o, Z
<1>4. HearStart
  BY <1>2, <1>3, Starting DEF Clock
<1>5. Hearing("device")' /\ Heard(DEVICE, 0)'
  BY <1>4 DEF HearStart, Hearing, Heard, WordAt
<1>6. Shifted(DEVICE, 0)'
  BY <1>2, BitsAssumption DEF Shifted
<1>7. InByte("SLAVE_ADDR")'
  BY <1>2, <1>5, <1>6 DEF InByte, ToHear, ByteOf
<1> QED
  BY <1>2, <1>4, <1>7 DEF Undecided, HearStart

(* What is fixed while a byte is sent. *)
LEMMA ByteKept ==
  ASSUME AInv, Clock, NEW s \in Sending, state # "IDLE"
  PROVE  /\ ByteOf(s)' = ByteOf(s) /\ ByteOf(s) \in Byte
         /\ \A l : WordAt(l)' = WordAt(l)
<1>1. UNCHANGED <<sub_addr, data_to_write>>
  BY Waiting
<1>2. DEVICE \in Byte /\ sub_addr \in Byte /\ data_to_write \in Byte
  BY TableAssumption DEF AInv, AudioTypeOK
<1> QED
  BY <1>1, <1>2 DEF ByteOf, WordAt

(* A byte while SCL is high: its bit is held until the line falls, and when it  *)
(* was the last one the codec answers.                                     *)
LEMMA ByteHigh ==
  ASSUME AInv, Clock, NEW s \in Sending, InByte(s), clk_i2c = 1
  PROVE  (InByte(s)' \/ ByteOver(s)') /\ Undecided
<1>1. /\ state = s /\ en_scl /\ reg_sda_o \in {0, 1} /\ Heard(ByteOf(s), cntr)
      /\ Hearing(ToHear[s]) /\ Shifted(ByteOf(s), cntr) /\ scl_o = 1
      /\ state # "IDLE" /\ cntr \in 0..BITS /\ due \in BOOLEAN
  BY DEF InByte, scl_o, Sending, AInv, AudioTypeOK
<1>2. sda_o = reg_sda_o
  BY <1>1 DEF sda_o, Z
<1>3. /\ ByteOf(s)' = ByteOf(s) /\ ByteOf(s) \in Byte
      /\ WordAt(ToHear[s])' = WordAt(ToHear[s])
  BY <1>1, ByteKept
<1>4. CASE due
  <2>1. Pass
    <3>1. ~Begin(i2c_req, ctrl_byte, data_byte) /\ ~Unasked(i2c_req) /\ ~Edge
      BY <1>1, <1>4 DEF Begin, Unasked, Edge
    <3>2. ~Moment(0)
      BY DEF Moment
    <3>3. ~SendStart(DEVICE) /\ ~ShiftOut /\ ~Sent
      BY <1>1, <3>2 DEF SendStart, ShiftOut, Sent, ByteSent, Sending
    <3>4. ~Ack(sda_o) /\ ~Nack(sda_o) /\ ~SendStop /\ ~Release
      BY <1>1, <3>2 DEF Ack, Nack, SendStop, Release, Sending
    <3> QED
      BY <3>1, <3>3, <3>4, Zenon DEF Clock, Master
  <2>2. UNCHANGED <<state, en_scl, clk_i2c, reg_sda_o, cntr, byte_sr, nack>>
    BY <2>1 DEF Pass, Moment
  <2>3. UNCHANGED codecVars
    <3>1. scl_o' = 1
      BY <1>1, <2>2 DEF scl_o
    <3> QED
      BY <1>1, <1>2, <2>2, <3>1, Silent DEF Clock
  <2>4. Hearing(ToHear[s])' /\ Heard(ByteOf(s), cntr)' /\ Shifted(ByteOf(s), cntr)'
    BY <1>1, <1>3, <2>2, <2>3 DEF Hearing, Heard, Shifted, codecVars
  <2> QED
    BY <1>1, <2>2, <2>3, <2>4 DEF InByte, Undecided, codecVars, Sending
<1>5. CASE ~due
  <2>1. Edge
    BY <1>1, <1>5
    DEF Clock, Master, Begin, Unasked, Edge, Pass, Moment, SendStart, ShiftOut,
        Sent, ByteSent, Ack, Nack, SendStop, Release, Sending
  <2>2. /\ UNCHANGED <<state, en_scl, reg_sda_o, cntr, byte_sr, nack>>
        /\ clk_i2c' = 0 /\ due' = TRUE
    BY <2>1 DEF Edge
  <2>3. HearFall
    BY <1>1, <2>2, Falling DEF Clock, scl_o
  <2>4. CASE cntr < BITS
    <3>1. UNCHANGED codecVars
      BY <1>1, <2>3, <2>4 DEF HearFall, HearNothing, Hearing, Heard
    <3>2. Hearing(ToHear[s])' /\ Heard(ByteOf(s), cntr)' /\ Shifted(ByteOf(s), cntr)'
      BY <1>1, <1>3, <2>2, <3>1 DEF Hearing, Heard, Shifted, codecVars
    <3> QED
      BY <1>1, <2>2, <2>4, <3>1, <3>2 DEF InByte, Undecided, codecVars, Sending
  <2>5. CASE cntr = BITS
    <3>1. bits = ByteOf(s) /\ Len(bits) = BITS
      BY <1>1, <1>3, <2>5, HeardAll DEF AInv, AudioTypeOK, Heard
    <3>2. TakeByte
      BY <1>1, <2>3, <3>1 DEF HearFall, Hearing, ToHear, Sending
    <3>3. CASE listening' = "no"
      <4>1. Deaf' /\ UNCHANGED log
        BY <1>1, <3>2, <3>3 DEF TakeByte, Hearing, Deaf, ToHear, Sending
      <4> QED
        BY <1>1, <2>2, <2>5, <4>1 DEF ByteOver, Answered, Undecided, Sending
    <3>4. CASE listening' # "no"
      <4>1. /\ listening = ToHear[s] /\ word = WordAt(ToHear[s])
            /\ pull' = TRUE /\ UNCHANGED <<listening, bits, log>>
            /\ word' = IF listening = "device" THEN word ELSE Append(word, bits)
        BY <1>1, <3>2, <3>4 DEF TakeByte, Hearing
      <4>2. word' = WordAt(After[ToHear[s]])
        <5>1. CASE s = "SLAVE_ADDR"
          BY <4>1, <5>1 DEF WordAt, ToHear, After
        <5>2. CASE s = "SUB_ADDR"
          BY <3>1, <4>1, <5>2 DEF WordAt, ToHear, After, ByteOf
        <5>3. CASE s = "WRITE"
          BY <3>1, <4>1, <5>3 DEF WordAt, ToHear, After, ByteOf
        <5> QED
          BY <5>1, <5>2, <5>3 DEF Sending
      <4>3. Acknowledged(ToHear[s])'
        BY <1>1, <3>1, <4>1, <4>2, ByteKept DEF Acknowledged
      <4> QED
        BY <1>1, <2>2, <2>5, <4>1, <4>3 DEF ByteOver, Answered, Undecided, Sending
    <3> QED
      BY <3>3, <3>4
  <2> QED
    BY <1>1, <2>4, <2>5, BitsAssumption
<1> QED
  BY <1>1, <1>4, <1>5

(* A byte while SCL is low: its next bit is laid on the line, and the codec    *)
(* hears it when SCL rises.                                                *)
LEMMA ByteLow ==
  ASSUME AInv, Clock, NEW s \in Sending, InByte(s), clk_i2c = 0
  PROVE  InByte(s)' /\ Undecided
<1>1. /\ state = s /\ en_scl /\ Hearing(ToHear[s]) /\ Shifted(ByteOf(s), cntr)
      /\ scl_o = 0 /\ state # "IDLE" /\ cntr \in 0..BITS /\ BITS \in Nat \ {0}
      /\ byte_sr \in Byte /\ due \in BOOLEAN
  BY BitsAssumption DEF InByte, scl_o, Sending, AInv, AudioTypeOK
<1>2. /\ ByteOf(s)' = ByteOf(s) /\ ByteOf(s) \in Byte
      /\ WordAt(ToHear[s])' = WordAt(ToHear[s])
  BY <1>1, ByteKept
<1>3. ~Moment(1)
  BY DEF Moment
<1>4. CASE due /\ cntr < BITS /\ Heard(ByteOf(s), cntr)
  <2>1. ShiftOut
    <3>1. ~Begin(i2c_req, ctrl_byte, data_byte) /\ ~Unasked(i2c_req) /\ ~Edge
      BY <1>1, <1>4 DEF Begin, Unasked, Edge
    <3>2. ~Pass /\ ~SendStart(DEVICE)
      BY <1>1, <1>3 DEF Pass, SendStart, Sending
    <3>3. ~Sent
      BY <1>1, <1>4 DEF Sent, ByteSent
    <3>4. ~Ack(sda_o) /\ ~Nack(sda_o) /\ ~SendStop /\ ~Release
      BY <1>1, <1>3 DEF Ack, Nack, SendStop, Release, Sending
    <3> QED
      BY <3>1, <3>2, <3>3, <3>4, Zenon DEF Clock, Master
  <2>2. /\ UNCHANGED <<state, en_scl, clk_i2c, nack>> /\ due' = FALSE
        /\ reg_sda_o' = Head(byte_sr) /\ byte_sr' = Append(Tail(byte_sr), 0)
        /\ cntr' = cntr + 1
    BY <2>1 DEF ShiftOut, Moment
  <2>3. UNCHANGED codecVars
    <3>1. scl_o' = 0
      BY <1>1, <2>2 DEF scl_o
    <3> QED
      BY <1>1, <3>1, Silent DEF Clock
  <2>4. reg_sda_o' = ByteOf(s)[cntr + 1]
    BY <1>1, <1>4, <2>2, ByteSeq DEF Shifted
  <2>5. Shifted(ByteOf(s), cntr)'
    <3>1. \A k \in 1 .. BITS - 1 : byte_sr'[k] = byte_sr[k + 1]
      BY <1>1, <2>2, ShiftedByte
    <3> SUFFICES ASSUME NEW k \in 1 .. BITS - (cntr + 1)
                 PROVE  byte_sr'[k] = ByteOf(s)[k + (cntr + 1)]
      BY <1>2, <2>2 DEF Shifted
    <3>2. byte_sr'[k] = byte_sr[k + 1]
      BY <1>1, <3>1
    <3>3. byte_sr[k + 1] = ByteOf(s)[(k + 1) + cntr]
      BY <1>1 DEF Shifted
    <3>4. (k + 1) + cntr = k + (cntr + 1)
      BY <1>1
    <3> QED
      BY <3>2, <3>3, <3>4
  <2>6. Hearing(ToHear[s])'
    BY <1>1, <1>2, <2>3 DEF Hearing, codecVars
  <2>7. cntr' > 0 /\ cntr' - 1 = cntr
    BY <1>1, <2>2
  <2>8. InByte(s)'
    <3>1. state' = s /\ en_scl' /\ Hearing(ToHear[s])' /\ clk_i2c' = 0 /\ ~due'
      BY <1>1, <2>2, <2>6
    <3>2. Shifted(ByteOf(s), cntr)'
      BY <2>5
    <3>3. Heard(ByteOf(s), cntr - 1)'
      BY <1>2, <1>4, <2>3, <2>7 DEF Heard, codecVars
    <3>4. reg_sda_o' = ByteOf(s)'[cntr']
      BY <1>2, <2>2, <2>4
    <3> QED
      BY <2>7, <3>1, <3>2, <3>3, <3>4 DEF InByte
  <2> QED
    BY <1>1, <2>2, <2>3, <2>8 DEF Undecided, codecVars, Sending
<1>5. CASE /\ ~due /\ cntr > 0 /\ reg_sda_o = ByteOf(s)[cntr]
           /\ Heard(ByteOf(s), cntr - 1)
  <2>1. Edge
    BY <1>1, <1>5
    DEF Clock, Master, Begin, Unasked, Edge, Pass, Moment, SendStart, ShiftOut,
        Sent, ByteSent, Ack, Nack, SendStop, Release, Sending
  <2>2. /\ UNCHANGED <<state, en_scl, reg_sda_o, cntr, byte_sr, nack>>
        /\ clk_i2c' = 1 /\ due' = TRUE
    BY <2>1 DEF Edge
  <2>3. HearBit
    BY <1>1, <2>2, Rising DEF Clock, scl_o
  <2>4. reg_sda_o \in {0, 1}
    BY <1>1, <1>2, <1>5 DEF Byte
  <2>5. sda_o' = reg_sda_o
    BY <2>2, <2>4 DEF sda_o, Z
  <2>6. Len(bits) = cntr - 1 /\ listening # "no" /\ Len(bits) # BITS /\ bits \in Seq({0, 1})
    BY <1>1, <1>5 DEF Heard, Hearing, ToHear, Sending, AInv, AudioTypeOK
  <2>7. bits' = Append(bits, reg_sda_o) /\ UNCHANGED <<listening, pull, word, log>>
    BY <2>3, <2>5, <2>6 DEF HearBit
  <2>8. Heard(ByteOf(s), cntr)'
    <3>1. /\ Len(bits') = cntr /\ bits'[cntr] = reg_sda_o
          /\ \A k \in 1 .. cntr - 1 : bits'[k] = bits[k]
      BY <1>1, <2>4, <2>6, <2>7, AppendProperties
    <3>2. \A k \in 1..cntr : k = cntr \/ k \in 1 .. cntr - 1
      BY <1>1
    <3>3. \A k \in 1..cntr : bits'[k] = ByteOf(s)[k]
      BY <1>5, <3>1, <3>2 DEF Heard
    <3> QED
      BY <1>2, <2>2, <3>1, <3>3 DEF Heard
  <2>9. Hearing(ToHear[s])' /\ Shifted(ByteOf(s), cntr)'
    BY <1>1, <1>2, <2>2, <2>7 DEF Hearing, Shifted
  <2> QED
    BY <1>1, <2>2, <2>4, <2>7, <2>8, <2>9 DEF InByte, Undecided, Sending
<1> QED
  BY <1>1, <1>4, <1>5 DEF InByte

LEMMA FromInByte ==
  ASSUME AInv, Clock, NEW s \in Sending, InByte(s)
  PROVE  (InByte(s)' \/ ByteOver(s)') /\ Undecided
BY ByteHigh, ByteLow DEF InByte

LEMMA FromByteOver ==
  ASSUME AInv, Clock, NEW s \in Sending, ByteOver(s)
  PROVE  Answering(s)' /\ Undecided
<1>1. /\ state = s /\ en_scl /\ clk_i2c = 0 /\ due /\ cntr = BITS /\ scl_o = 0
      /\ state # "IDLE" /\ BITS \in Nat \ {0}
  BY BitsAssumption DEF ByteOver, scl_o, Sending
<1>2. ~Moment(1)
  BY <1>1 DEF Moment
<1>3. Sent
  <2>1. ~Begin(i2c_req, ctrl_byte, data_byte) /\ ~Unasked(i2c_req) /\ ~Edge
    BY <1>1 DEF Begin, Unasked, Edge
  <2>2. ~Pass /\ ~SendStart(DEVICE)
    BY <1>1, <1>2 DEF Pass, SendStart, Sending
  <2>3. ~ShiftOut
    BY <1>1 DEF ShiftOut
  <2>4. ~Ack(sda_o) /\ ~Nack(sda_o) /\ ~SendStop /\ ~Release
    BY <1>1, <1>2 DEF Ack, Nack, SendStop, Release, Sending
  <2> QED
    BY <2>1, <2>2, <2>3, <2>4, Zenon DEF Clock, Master
<1>4. /\ state' = "ACK_NACK_RX" /\ en_scl' /\ clk_i2c' = 0 /\ ~due'
      /\ reg_sda_o' = Z /\ cntr' = 0 /\ UNCHANGED nack
  BY <1>1, <1>3 DEF Sent, ByteSent, Moment
<1>5. UNCHANGED <<sub_addr, data_to_write>>
  BY <1>1, Waiting
<1>6. /\ next_state' = ToSend[s]
      /\ s # "WRITE" => byte_sr' = ByteOf(ToSend[s])'
  BY <1>1, <1>3, <1>5, Phases DEF Sent, ByteSent, ByteOf, Sending
<1>7. UNCHANGED codecVars
  <2>1. scl_o' = 0
    BY <1>4 DEF scl_o
  <2> QED
    BY <1>1, <2>1, Silent DEF Clock
<1>8. Answered(s)'
  BY <1>1, <1>7, ByteKept DEF ByteOver, Answered, Acknowledged, Deaf, codecVars
<1> QED
  BY <1>4, <1>6, <1>7, <1>8 DEF Answering, Undecided, codecVars

(* The codec's answer: taken, the transaction goes on; refused, it is over, and  *)
(* nack remembers it.                                                      *)
LEMMA FromAnswering ==
  ASSUME AInv, Clock, NEW s \in Sending, Answering(s)
  PROVE  \/ (Answering(s)' \/ AnswerSeen(s)') /\ Undecided
         \/ Free' /\ state' = "IDLE" /\ nack' = TRUE /\ UNCHANGED log
<1>1. /\ state = "ACK_NACK_RX" /\ next_state = ToSend[s] /\ en_scl
      /\ reg_sda_o = Z /\ cntr = 0 /\ Answered(s)
      /\ pull \in BOOLEAN
  BY DEF Answering, AInv, AudioTypeOK
<1>2. ToSend[s] \in {"SUB_ADDR", "WRITE", "STOP"}
  BY Phases DEF Sending
<1>3. UNCHANGED <<sub_addr, data_to_write>>
  BY <1>1, Waiting
<1>4. UNCHANGED codecVars => Answered(s)'
  BY <1>1, ByteKept DEF Answered, Acknowledged, Deaf, codecVars
<1>5. s # "WRITE" /\ byte_sr' = byte_sr => byte_sr' = ByteOf(ToSend[s])'
  BY <1>3 DEF Answering, ByteOf
<1>6. ~Begin(i2c_req, ctrl_byte, data_byte) /\ ~Unasked(i2c_req) /\ ~SendStart(DEVICE)
      /\ ~ShiftOut /\ ~Sent /\ ~SendStop /\ ~Release
  BY <1>1
  DEF Begin, Unasked, SendStart, ShiftOut, Sent, ByteSent, SendStop, Release, Sending
<1>7. CASE clk_i2c = 0 /\ ~due
  <2>1. Edge
    <3>1. ~Pass /\ ~Ack(sda_o) /\ ~Nack(sda_o)
      BY <1>7 DEF Pass, Ack, Nack, Moment
    <3> QED
      BY <1>6, <3>1, Zenon DEF Clock, Master
  <2>2. /\ UNCHANGED <<state, next_state, en_scl, reg_sda_o, cntr, byte_sr, nack>>
        /\ clk_i2c' = 1 /\ due' = TRUE
    BY <1>7, <2>1 DEF Edge
  <2>3. HearBit
    BY <1>1, <1>7, <2>2, Rising DEF Clock, scl_o
  <2>4. UNCHANGED codecVars
    BY <1>1, <2>3 DEF HearBit, HearNothing, Answered, Acknowledged, Deaf
  <2> QED
    BY <1>1, <1>4, <1>5, <2>2, <2>4 DEF Answering, Undecided, codecVars
<1>8. CASE clk_i2c = 1 /\ due
  <2>1. Ack(sda_o) \/ Nack(sda_o)
    <3>1. ~Edge /\ ~Pass
      BY <1>1, <1>8 DEF Edge, Pass, Moment, Sending
    <3> QED
      BY <1>6, <3>1, Zenon DEF Clock, Master
  <2>2. scl_o = 1
    BY <1>8 DEF scl_o
  <2>3. CASE Ack(sda_o)
    <3>1. /\ state' = ToSend[s] /\ UNCHANGED <<en_scl, clk_i2c, reg_sda_o, cntr, byte_sr, nack>>
          /\ due' = FALSE /\ sda_o = 0
      BY <1>1, <2>3 DEF Ack, Moment
    <3>2. pull
      BY <1>1, <3>1 DEF sda_o, Z
    <3>3. UNCHANGED codecVars
      <4>1. scl_o' = 1
        BY <1>8, <3>1 DEF scl_o
      <4> QED
        BY <1>1, <2>2, <3>1, <4>1, Silent DEF Clock, Z
    <3>4. Acknowledged(ToHear[s])'
      BY <1>4, <3>2, <3>3 DEF Answered, Deaf, codecVars
    <3> QED
      BY <1>1, <1>2, <1>5, <1>8, <3>1, <3>3, <3>4 DEF AnswerSeen, Undecided, codecVars
  <2>4. CASE Nack(sda_o)
    <3>1. /\ state' = "IDLE" /\ nack' = TRUE /\ reg_sda_o' = Z /\ ~en_scl' /\ sda_o = 1
      BY <2>4 DEF Nack
    <3>2. ~pull
      BY <1>1, <3>1 DEF sda_o, Z
    <3>3. UNCHANGED codecVars
      <4>1. scl_o' = 1
        BY <3>1 DEF scl_o
      <4> QED
        BY <2>2, <3>1, <4>1, Silent DEF Clock, Z
    <3>4. Deaf'
      BY <1>4, <3>2, <3>3 DEF Answered, Acknowledged, codecVars
    <3> QED
      BY <3>1, <3>3, <3>4 DEF Free, codecVars
  <2> QED
    BY <2>1, <2>3, <2>4
<1> QED
  BY <1>7, <1>8 DEF Answering

(* The codec lets the line go, and is ready for the next byte or the stop.      *)
LEMMA FromAnswerSeen ==
  ASSUME AInv, Clock, NEW s \in Sending, AnswerSeen(s)
  PROVE  ((\E t \in Sending : InByte(t)') \/ Closing') /\ Undecided
<1>1. /\ state = ToSend[s] /\ en_scl /\ clk_i2c = 1 /\ ~due /\ reg_sda_o = Z /\ cntr = 0
      /\ listening = ToHear[s] /\ pull /\ word = WordAt(After[ToHear[s]])
  BY DEF AnswerSeen, Acknowledged
<1>2. ToSend[s] \in {"SUB_ADDR", "WRITE", "STOP"}
  BY Phases DEF Sending
<1>3. Edge
  BY <1>1, <1>2
  DEF Clock, Master, Begin, Unasked, Edge, Pass, Moment, SendStart, ShiftOut,
      Sent, ByteSent, Ack, Nack, SendStop, Release
<1>4. /\ UNCHANGED <<state, en_scl, reg_sda_o, cntr, byte_sr, nack>>
      /\ clk_i2c' = 0 /\ due' = TRUE
  BY <1>1, <1>3 DEF Edge
<1>5. HearFall
  BY <1>1, <1>4, Falling DEF Clock, scl_o
<1>6. /\ pull' = FALSE /\ bits' = <<>> /\ listening' = After[ToHear[s]]
      /\ UNCHANGED <<word, log>>
  BY <1>1, <1>5 DEF HearFall, LetGo
<1>7. Hearing(After[ToHear[s]])'
  BY <1>1, <1>2, <1>6, ByteKept DEF Hearing
<1>8. CASE s = "WRITE"
  <2>1. Hearing("over")'
    BY <1>7, <1>8 DEF After, ToHear
  <2>2. Closing'
    BY <1>1, <1>4, <1>6, <1>8, <2>1, Phases DEF Closing
  <2> QED
    BY <1>1, <1>2, <1>4, <1>6, <2>2 DEF Undecided
<1>9. CASE s # "WRITE"
  <2> DEFINE t == ToSend[s]
  <2>1. t \in Sending /\ After[ToHear[s]] = ToHear[t]
    BY <1>9, Phases DEF Sending, After, ToHear
  <2>2. byte_sr' = ByteOf(t)' /\ ByteOf(t)' \in Byte
    BY <1>1, <1>2, <1>4, <1>9, <2>1, ByteKept DEF AnswerSeen
  <2>3. Shifted(ByteOf(t), cntr)'
    BY <1>1, <1>4, <2>2, BitsAssumption DEF Shifted
  <2>4. Heard(ByteOf(t), cntr)'
    BY <1>1, <1>4, <1>6 DEF Heard
  <2>5. cntr' < BITS
    BY <1>1, <1>4, BitsAssumption
  <2>6. InByte(t)'
    BY <1>1, <1>4, <1>7, <2>1, <2>3, <2>4, <2>5 DEF InByte
  <2> QED
    BY <1>1, <1>2, <1>4, <1>6, <2>1, <2>6 DEF Undecided
<1> QED
  BY <1>8, <1>9

(* The stop: the codec takes the write, which is the entry asked for.           *)
LEMMA FromClosing ==
  ASSUME AInv, Clock, Closing
  PROVE  \/ Closing' /\ Undecided
         \/ /\ Closed' /\ UNCHANGED nack
            /\ log' = Append(log, Table[init_idx + 1])
<1>1. /\ state = "STOP" /\ en_scl /\ Hearing("over") /\ listening = "over" /\ ~pull
      /\ bits \in Seq({0, 1}) /\ BITS \in Nat \ {0}
      /\ word = <<sub_addr, data_to_write>>
  BY BitsAssumption DEF Closing, Hearing, WordAt, AInv, AudioTypeOK
<1>2. WordAt("over")' = WordAt("over")
  BY <1>1, Waiting DEF WordAt
<1>3. ~Begin(i2c_req, ctrl_byte, data_byte) /\ ~Unasked(i2c_req) /\ ~SendStart(DEVICE)
      /\ ~Pass /\ ~ShiftOut /\ ~Sent /\ ~Ack(sda_o) /\ ~Nack(sda_o) /\ ~Release
  BY <1>1
  DEF Begin, Unasked, SendStart, Pass, ShiftOut, Sent, ByteSent, Ack, Nack, Release, Sending
<1>4. Edge \/ SendStop
  BY <1>3, Zenon DEF Clock, Master
<1>5. CASE clk_i2c = 0 /\ due /\ reg_sda_o = Z /\ Len(bits) = 0
  <2>1. /\ UNCHANGED <<state, en_scl, clk_i2c, nack>> /\ reg_sda_o' = 0 /\ due' = FALSE
    BY <1>4, <1>5 DEF Edge, SendStop, Moment
  <2>2. UNCHANGED codecVars
    <3>1. scl_o = 0 /\ scl_o' = 0
      BY <1>1, <1>5, <2>1 DEF scl_o
    <3> QED
      BY <3>1, Silent DEF Clock
  <2> QED
    BY <1>1, <1>2, <1>5, <2>1, <2>2 DEF Closing, Hearing, Undecided, codecVars
<1>6. CASE clk_i2c = 0 /\ ~due /\ reg_sda_o = 0 /\ Len(bits) = 0
  <2>1. /\ UNCHANGED <<state, en_scl, reg_sda_o, nack>> /\ clk_i2c' = 1 /\ due' = TRUE
    BY <1>4, <1>6 DEF Edge, SendStop, Moment
  <2>2. HearBit
    BY <1>1, <1>6, <2>1, Rising DEF Clock, scl_o
  <2>3. UNCHANGED <<listening, pull, word, log>>
    BY <1>1, <1>6, <2>2 DEF HearBit, HearNothing, codecVars
  <2> QED
    BY <1>1, <1>2, <1>6, <2>1, <2>3 DEF Closing, Hearing, Undecided
<1>7. CASE clk_i2c = 1 /\ due /\ reg_sda_o = 0
  <2>1. /\ state' = "RELEASE_BUS" /\ reg_sda_o' = 1
        /\ UNCHANGED <<en_scl, clk_i2c, due, nack>>
    BY <1>4, <1>7 DEF Edge, SendStop, Moment, clockVars
  <2>2. scl_o = 1 /\ scl_o' = 1 /\ sda_o = 0
    BY <1>7, <2>1 DEF scl_o, sda_o, Z
  <2>3. HearStop
    BY <2>1, <2>2, Stopping DEF Clock
  <2>4. <<sub_addr, data_to_write>> = Table[init_idx + 1]
    BY <1>1 DEF AInv, Asking
  <2> QED
    BY <1>1, <1>7, <2>1, <2>3, <2>4 DEF HearStop, Closed, Deaf
<1> QED
  BY <1>5, <1>6, <1>7 DEF Closing

LEMMA FromClosed ==
  ASSUME AInv, Clock, Closed
  PROVE  Free' /\ UNCHANGED <<log, nack>>
<1>1. Release
  BY DEF Closed, Clock, Master, Begin, Unasked, Edge, Pass, Moment, SendStart, ShiftOut,
       Sent, ByteSent, Ack, Nack, SendStop, Release, Sending
<1>2. state' = "IDLE" /\ reg_sda_o' = Z /\ ~en_scl' /\ UNCHANGED nack
  BY <1>1 DEF Release
<1>3. scl_o = 1 /\ scl_o' = 1 /\ sda_o = 1
  BY <1>2 DEF Closed, scl_o, sda_o, Z
<1>4. UNCHANGED codecVars
  BY <1>2, <1>3, Silent DEF Clock, Z
<1> QED
  BY <1>2, <1>4 DEF Closed, Free, Deaf, codecVars

(* A clock takes every phase to one of them, and the codec takes a write only   *)
(* at the stop, and then the entry asked for.                              *)
LEMMA PhaseStep ==
  ASSUME AInv, Clock
  PROVE  /\ Bus'
         /\ \/ state = "IDLE" /\ UNCHANGED log /\ (nack' => nack)
            \/ state = "RELEASE_BUS" /\ state' = "IDLE" /\ UNCHANGED <<log, nack>>
            \/ state \notin {"IDLE", "RELEASE_BUS"} /\ Undecided
            \/ /\ state \notin {"IDLE", "RELEASE_BUS"} /\ state' = "IDLE"
               /\ nack' = TRUE /\ UNCHANGED log
            \/ /\ state \notin {"IDLE", "RELEASE_BUS"} /\ state' = "RELEASE_BUS"
               /\ UNCHANGED nack /\ log' = Append(log, Table[init_idx + 1])
<1>1. \A s \in Sending : /\ s \notin {"IDLE", "RELEASE_BUS"}
                         /\ ToSend[s] \notin {"IDLE", "RELEASE_BUS"}
  BY Phases DEF Sending
<1>2. CASE Free
  BY <1>2, FromFree DEF Free, Bus
<1>3. CASE Opening
  <2>1. "SLAVE_ADDR" \in Sending
    BY DEF Sending
  <2> QED
    BY <1>3, <2>1, FromOpening DEF Opening, Bus
<1>4. ASSUME NEW s \in Sending, InByte(s) PROVE Bus' /\ Undecided /\ state = s
  BY <1>4, FromInByte DEF InByte, Bus
<1>5. ASSUME NEW s \in Sending, ByteOver(s) PROVE Bus' /\ Undecided /\ state = s
  BY <1>5, FromByteOver DEF ByteOver, Bus
<1>6. CASE \E s \in Sending : Answering(s)
  <2>1. PICK s \in Sending : Answering(s)
    BY <1>6
  <2>2. state = "ACK_NACK_RX"
    BY <2>1 DEF Answering
  <2> QED
    BY <2>1, <2>2, FromAnswering DEF Bus
<1>7. ASSUME NEW s \in Sending, AnswerSeen(s) PROVE Bus' /\ Undecided /\ state = ToSend[s]
  BY <1>7, FromAnswerSeen DEF AnswerSeen, Bus
<1>8. CASE Closing
  <2>1. state = "STOP" /\ (Closed' => state' = "RELEASE_BUS")
    BY <1>8 DEF Closing, Closed
  <2> QED
    BY <1>8, <2>1, FromClosing DEF Bus
<1>9. CASE Closed
  BY <1>9, FromClosed DEF Bus, Closed, Free
<1> QED
  BY <1>1, <1>2, <1>3, <1>4, <1>5, <1>6, <1>7, <1>8, <1>9 DEF AInv, Bus

-----------------------------------------------------------------------------
(* The types *)

LEMMA MasterTypes ==
  ASSUME AInv, Clock
  PROVE  /\ state' \in Sending \cup {"IDLE", "START", "ACK_NACK_RX", "STOP", "RELEASE_BUS"}
         /\ next_state' \in Sending \cup {"IDLE", "STOP"}
         /\ reg_sda_o' \in {0, 1, Z} /\ en_scl' \in BOOLEAN /\ clk_i2c' \in {0, 1}
         /\ due' \in BOOLEAN /\ cntr' \in 0..BITS /\ byte_sr' \in Byte
         /\ sub_addr' \in Byte /\ data_to_write' \in Byte
         /\ busy' \in BOOLEAN /\ nack' \in BOOLEAN
<1> USE DEF AInv, AudioTypeOK, masterVars, clockVars, latched
<1>1. BITS \in Nat \ {0} /\ DEVICE \in Byte /\ 0 \in {0, 1}
  BY BitsAssumption, TableAssumption
<1>2. ctrl_byte \in Byte /\ data_byte \in Byte
  <2>1. CASE init_idx < Len(Table)
    <3>1. Table \in Seq(Byte \X Byte) /\ Len(Table) \in Nat
      BY TableAssumption, LenProperties
    <3>2. Table[init_idx + 1] \in Byte \X Byte
      BY <2>1, <3>1, ElementOfSeq
    <3> QED
      BY <2>1, <3>2 DEF ctrl_byte, data_byte
  <2>2. CASE ~(init_idx < Len(Table))
    BY <2>2, ByteSeq DEF ctrl_byte, data_byte
  <2> QED
    BY <2>1, <2>2
<1>3. CASE Begin(i2c_req, ctrl_byte, data_byte)
  <2>1. en_scl' \in BOOLEAN /\ due' \in BOOLEAN /\ busy' \in BOOLEAN /\ nack' \in BOOLEAN
    BY <1>3, Zenon DEF Begin
  <2> QED
    BY <1>1, <1>2, <1>3, <2>1 DEF Begin, Sending
<1>4. CASE Unasked(i2c_req)
  BY <1>4 DEF Unasked
<1>5. CASE Edge
  BY <1>5 DEF Edge
<1>6. CASE Pass
  BY <1>6 DEF Pass, Moment
<1>7. CASE SendStart(DEVICE)
  BY <1>1, <1>7 DEF SendStart, Moment, Sending
<1>8. CASE ShiftOut
  <2>1. Head(byte_sr) \in {0, 1} /\ Append(Tail(byte_sr), 0) \in Byte
    <3>1. Head(byte_sr) = byte_sr[1] /\ 1 \in 1..BITS
      BY <1>1, ByteSeq
    <3>2. byte_sr[1] \in {0, 1}
      BY <3>1 DEF Byte
    <3> QED
      BY <3>1, <3>2, ShiftedByte
  <2>2. cntr + 1 \in 0..BITS
    BY <1>1, <1>8 DEF ShiftOut
  <2> QED
    BY <1>8, <2>1, <2>2 DEF ShiftOut, Moment
<1>9. CASE Sent
  <2>1. due' \in BOOLEAN /\ UNCHANGED <<en_scl, busy, nack, sub_addr, data_to_write>>
    BY <1>9, Zenon DEF Sent, ByteSent, Moment
  <2>2. /\ state' = "ACK_NACK_RX" /\ reg_sda_o' = Z /\ cntr' = 0 /\ UNCHANGED clk_i2c
        /\ next_state' \in {"SUB_ADDR", "WRITE", "STOP"}
        /\ byte_sr' \in {sub_addr, data_to_write, byte_sr}
    BY <1>9 DEF Sent, ByteSent, Moment
  <2> QED
    BY <1>1, <2>1, <2>2 DEF Sending
<1>10. CASE Ack(sda_o)
  BY <1>10 DEF Ack, Moment
<1>11. CASE Nack(sda_o)
  BY <1>11 DEF Nack
<1>12. CASE SendStop
  BY <1>12 DEF SendStop, Moment
<1>13. CASE Release
  BY <1>13 DEF Release
<1> QED
  BY <1>3, <1>4, <1>5, <1>6, <1>7, <1>8, <1>9, <1>10, <1>11, <1>12, <1>13
  DEF Clock, Master

LEMMA SetupTypes ==
  ASSUME AInv, Clock
  PROVE  /\ i2c_state' \in {"ST_IDLE", "ST_START", "ST_WAIT", "ST_DELAY", "ST_DONE"}
         /\ init_idx' \in 0..Len(Table) /\ i2c_req' \in BOOLEAN
         /\ delay_cnt' \in 0..DELAY /\ i2c_error' \in BOOLEAN
<1> USE DEF AInv, AudioTypeOK
<1>1. Len(Table) \in Nat /\ DELAY \in Nat
  BY TableAssumption, LenProperties
<1>2. i2c_error' \in BOOLEAN
  BY Zenon DEF Clock, Setup
<1>3. i2c_req' \in BOOLEAN
  BY Zenon DEF Clock, Setup, NextEntry, Ask, Wait, Digest, Done
<1>4. CASE NextEntry
  BY <1>2, <1>3, <1>4 DEF NextEntry
<1>5. CASE Ask
  BY <1>2, <1>3, <1>5 DEF Ask
<1>6. CASE Wait
  BY <1>1, <1>2, <1>3, <1>6 DEF Wait
<1>7. CASE Digest
  BY <1>1, <1>2, <1>3, <1>7 DEF Digest, Asking
<1>8. CASE Done
  BY <1>2, <1>3, <1>8 DEF Done
<1> QED
  BY <1>4, <1>5, <1>6, <1>7, <1>8 DEF Clock, Setup

(* The codec holds SDA only at the end of a byte of a write. *)
LEMMA PulledListens ==
  ASSUME AInv, pull
  PROVE  listening \in DOMAIN After
<1>1. \A s \in Sending : ToHear[s] \in DOMAIN After
  BY DEF Sending, ToHear, After
<1> QED
  BY <1>1
  DEF AInv, Bus, Free, Opening, InByte, ByteOver, Answering, AnswerSeen, Closing,
      Closed, Deaf, Hearing, Answered, Acknowledged

LEMMA CodecTypes ==
  ASSUME AInv, Clock
  PROVE  /\ listening' \in {"no", "device", "register", "data", "over"}
         /\ bits' \in Seq({0, 1}) /\ Len(bits') <= BITS
         /\ pull' \in BOOLEAN /\ word' \in Seq(Byte)
<1> USE DEF AInv, AudioTypeOK
<1>1. BITS \in Nat \ {0}
  BY BitsAssumption
<1>2. <<>> \in Seq({0, 1}) /\ <<>> \in Seq(Byte) /\ Len(<<>>) = 0
  BY EmptySeq
<1>3. CASE UNCHANGED codecVars
  BY <1>3 DEF codecVars
<1>4. CASE HearStart \/ HearStop
  <2>1. pull' \in BOOLEAN
    BY <1>4, Zenon DEF HearStart, HearStop
  <2>2. listening' \in {"device", "no"} /\ bits' = <<>> /\ word' = <<>>
    BY <1>4 DEF HearStart, HearStop
  <2>3. bits' \in Seq({0, 1}) /\ Len(bits') = 0 /\ word' \in Seq(Byte)
    BY <1>2, <2>2, Zenon
  <2> QED
    BY <1>1, <2>1, <2>2, <2>3
<1>5. CASE HearBit /\ ~(UNCHANGED codecVars)
  <2>1. /\ bits' = Append(bits, sda_o') /\ UNCHANGED <<listening, pull, word>>
        /\ Len(bits) # BITS
    BY <1>5 DEF HearBit, HearNothing
  <2>2. sda_o' \in {0, 1}
    BY MasterTypes DEF sda_o, Z
  <2>3. bits' \in Seq({0, 1}) /\ Len(bits') = Len(bits) + 1 /\ Len(bits) \in Nat
    BY <2>1, <2>2, AppendProperties, LenProperties
  <2> QED
    BY <1>1, <2>1, <2>3
<1>6. CASE HearFall /\ ~(UNCHANGED codecVars)
  <2>1. CASE pull
    <3>1. LetGo /\ listening \in DOMAIN After
      BY <1>6, <2>1, PulledListens DEF HearFall
    <3>2. pull' \in BOOLEAN
      BY <3>1, Zenon DEF LetGo
    <3> QED
      BY <1>1, <1>2, <3>1, <3>2 DEF LetGo, After
  <2>2. CASE ~pull
    <3>1. TakeByte /\ Len(bits) = BITS
      BY <1>6, <2>2 DEF HearFall, HearNothing
    <3>2. bits \in Byte
      BY <3>1, ByteSeq
    <3>3. Append(word, bits) \in Seq(Byte)
      BY <3>2, AppendProperties
    <3>4. pull' \in BOOLEAN
      BY <3>1, Zenon DEF TakeByte
    <3>5. /\ listening' \in {listening, "no"} /\ bits' \in {bits, <<>>}
          /\ word' \in {word, Append(word, bits), <<>>}
      BY <3>1 DEF TakeByte
    <3>6. bits' \in Seq({0, 1}) /\ (bits' = bits \/ Len(bits') = 0) /\ word' \in Seq(Byte)
      BY <1>2, <3>3, <3>5, Zenon
    <3> QED
      BY <1>1, <3>4, <3>5, <3>6
  <2> QED
    BY <2>1, <2>2
<1>7. HearStart \/ HearStop \/ HearBit \/ HearFall \/ UNCHANGED codecVars
  BY Zenon DEF Clock, Codec, HearNothing
<1> QED
  BY <1>3, <1>4, <1>5, <1>6, <1>7

LEMMA LogType ==
  ASSUME AInv, Clock
  PROVE  log' \in Seq(Byte \X Byte)
<1>1. log \in Seq(Byte \X Byte)
  BY DEF AInv, AudioTypeOK
<1>2. CASE UNCHANGED log
  BY <1>1, <1>2
<1>3. CASE state # "IDLE" /\ log' = Append(log, Table[init_idx + 1])
  <2>1. init_idx < Len(Table) /\ init_idx \in Nat
    BY <1>3, Waiting DEF AInv, Asking, AudioTypeOK
  <2>2. Table[init_idx + 1] \in Byte \X Byte
    BY <2>1, TableAssumption, ElementOfSeq, LenProperties
  <2> QED
    BY <1>1, <1>3, <2>2, AppendProperties
<1> QED
  BY <1>2, <1>3, PhaseStep DEF Undecided

LEMMA AudioTypesStep == ASSUME AInv, Clock PROVE AudioTypeOK'
BY MasterTypes, SetupTypes, CodecTypes, LogType, Zenon DEF AudioTypeOK

LEMMA AudioStutter == ASSUME AInv, UNCHANGED audioVars PROVE AInv'
<1> USE DEF audioVars, masterVars, clockVars, latched, setupVars, codecVars
<1>1. AudioTypeOK'
  BY DEF AInv, AudioTypeOK
<1>2. Asking'
  BY DEF AInv, Asking
<1>3. Bus'
  BY DEF AInv, Bus, Free, Opening, InByte, ByteOver, Answering, AnswerSeen, Closing,
       Closed, Deaf, Hearing, Answered, Acknowledged, Heard, Shifted, WordAt, ByteOf
<1> QED
  BY <1>1, <1>2, <1>3 DEF AInv

LEMMA AudioInitially == AudioInit => AInv
<1> SUFFICES ASSUME AudioInit PROVE AInv
  OBVIOUS
<1> USE DEF AudioInit, MasterInit, SetupInit, CodecInit
<1>1. BITS \in Nat /\ DELAY \in Nat /\ Len(Table) \in Nat /\ Zero \in Byte
  BY BitsAssumption, TableAssumption, LenProperties, ByteSeq
<1>2. /\ bits \in Seq({0, 1}) /\ Len(bits) = 0 /\ word \in Seq(Byte)
      /\ log \in Seq(Byte \X Byte)
  BY EmptySeq
<1>3. /\ en_scl \in BOOLEAN /\ due \in BOOLEAN /\ busy \in BOOLEAN /\ nack \in BOOLEAN
      /\ i2c_req \in BOOLEAN /\ i2c_error \in BOOLEAN /\ pull \in BOOLEAN
  BY Zenon
<1>4. AudioTypeOK
  BY <1>1, <1>2, <1>3 DEF AudioTypeOK
<1>5. Bus
  BY DEF Bus, Free, Deaf
<1>6. Asking
  BY DEF Asking
<1> QED
  BY <1>4, <1>5, <1>6 DEF AInv

(* Master, set-up and codec stay in step for ever.                           *)
THEOREM CodecInStep == AudioSpec => []AInv
<1>1. AInv /\ Clock => AInv'
  BY AudioTypesStep, PhaseStep, AskingGoes, AskingBegins DEF AInv
<1>2. AInv /\ [Clock]_audioVars => AInv'
  BY <1>1, AudioStutter
<1> QED
  BY AudioInitially, <1>2, PTL DEF AudioSpec

(* Every register of the set-up, the master and the codec keeps its type.     *)
THEOREM CodecTypeCorrect == AudioSpec => []AudioTypeOK
BY CodecInStep, PTL DEF AInv

-----------------------------------------------------------------------------
(* What the abstract set-up makes of a clock *)

Dealt   == init_idx + (IF Decided THEN 1 ELSE 0)
Refused == i2c_error \/ nack

(* Between transactions nothing is dealt with: that an entry is through was      *)
(* seen when its transaction ended.                                         *)
LEMMA RestDealsNothing ==
  ASSUME AInv, Clock, state = "IDLE"
  PROVE  Dealt' = Dealt
<1> USE DEF AInv, Asking, Dealt, Decided
<1>1. busy = FALSE /\ i2c_req \in BOOLEAN /\ init_idx \in Nat /\ delay_cnt \in 0..DELAY
  BY DEF AudioTypeOK
<1>2. CASE i2c_state = "ST_WAIT" /\ i2c_req
  <2>1. state' = "START" /\ UNCHANGED <<i2c_state, init_idx>>
    BY <1>1, <1>2, AskingBegins
    DEF Begin, Unasked, Clock, Setup, NextEntry, Ask, Wait, Digest, Done
  <2> QED
    BY <1>2, <2>1
<1>3. CASE i2c_state = "ST_WAIT" /\ ~i2c_req
  <2>1. i2c_state' = "ST_DELAY" /\ UNCHANGED init_idx
    BY <1>1, <1>3 DEF Clock, Setup, NextEntry, Ask, Wait, Digest, Done
  <2> QED
    BY <1>3, <2>1
<1>4. CASE i2c_state = "ST_DELAY"
  <2>1. \/ i2c_state' = "ST_DELAY" /\ UNCHANGED init_idx
        \/ i2c_state' = "ST_IDLE" /\ init_idx' = init_idx + 1
    BY <1>4 DEF Clock, Setup, NextEntry, Ask, Wait, Digest, Done
  <2> QED
    BY <1>1, <1>4, <2>1
<1>5. CASE i2c_state \notin {"ST_WAIT", "ST_DELAY"}
  <2>1. /\ UNCHANGED init_idx /\ i2c_state' # "ST_DELAY"
        /\ i2c_state' = "ST_WAIT" => i2c_req'
    BY <1>1, <1>5 DEF Clock, Setup, NextEntry, Ask, Wait, Digest, Done
  <2> QED
    BY <1>5, <2>1
<1> QED
  BY <1>2, <1>3, <1>4, <1>5

(* During one it is when the transaction comes to its end.                     *)
LEMMA EndDeals ==
  ASSUME AInv, Clock, state # "IDLE"
  PROVE  /\ i2c_req \in BOOLEAN /\ init_idx \in Nat /\ init_idx < Len(Table)
         /\ Dealt = init_idx + (IF state = "RELEASE_BUS" THEN 1 ELSE 0)
         /\ Dealt' = init_idx + (IF state' \in {"RELEASE_BUS", "IDLE"} THEN 1 ELSE 0)
<1>1. /\ i2c_state = "ST_WAIT" /\ i2c_state' = "ST_WAIT" /\ i2c_req' = FALSE
      /\ UNCHANGED init_idx
  BY Waiting
<1>2. /\ init_idx < Len(Table) /\ init_idx \in Nat /\ i2c_req \in BOOLEAN
      /\ state = "RELEASE_BUS" => ~i2c_req
  BY <1>1 DEF AInv, Asking, AudioTypeOK
<1>3. Decided <=> state = "RELEASE_BUS"
  BY <1>1, <1>2 DEF Decided
<1>4. Decided' <=> state' \in {"RELEASE_BUS", "IDLE"}
  BY <1>1 DEF Decided
<1> QED
  BY <1>1, <1>2, <1>3, <1>4 DEF Dealt

LEMMA RefusedStep == ASSUME AInv, Clock PROVE Refused' = (Refused \/ nack')
<1>1. i2c_error \in BOOLEAN /\ nack \in BOOLEAN /\ nack' \in BOOLEAN
  BY MasterTypes DEF AInv, AudioTypeOK
<1>2. i2c_error' = (i2c_error \/ nack)
  BY DEF Clock, Setup
<1> QED
  BY <1>1, <1>2, Zenon DEF Refused

(* A clock writes the next entry, or refuses it, or does neither.              *)
LEMMA SetupStep ==
  ASSUME AInv, Clock
  PROVE  \/ /\ Dealt < Len(Table) /\ Dealt' = Dealt + 1
            /\ log' = Append(log, Table[Dealt']) /\ UNCHANGED Refused
         \/ /\ Dealt < Len(Table) /\ Dealt' = Dealt + 1
            /\ Refused' = TRUE /\ UNCHANGED log
         \/ UNCHANGED <<Dealt, log, Refused>>
<1>1. (nack' => nack) => UNCHANGED Refused
  BY RefusedStep, Zenon DEF Refused
<1>2. nack' = TRUE => Refused' = TRUE
  BY RefusedStep, Zenon DEF Refused
<1>3. CASE state = "IDLE"
  BY <1>1, <1>3, RestDealsNothing, PhaseStep DEF Undecided
<1>4. CASE state # "IDLE"
  <2>1. CASE state = "RELEASE_BUS"
    <3>1. state' = "IDLE" /\ UNCHANGED <<log, nack>>
      BY <1>4, <2>1, PhaseStep
    <3>2. Dealt' = Dealt
      BY <1>4, <2>1, <3>1, EndDeals
    <3> QED
      BY <1>1, <3>1, <3>2
  <2>2. CASE state # "RELEASE_BUS"
    <3>1. Dealt = init_idx /\ init_idx \in Nat /\ init_idx < Len(Table)
      BY <1>4, <2>2, EndDeals
    <3>2. CASE Undecided
      <4>1. Dealt' = init_idx
        BY <1>4, <3>1, <3>2, EndDeals DEF Undecided
      <4> QED
        BY <1>1, <3>1, <3>2, <4>1 DEF Undecided
    <3>3. CASE state' = "IDLE" /\ nack' = TRUE /\ UNCHANGED log
      <4>1. Dealt' = init_idx + 1
        BY <1>4, <3>3, EndDeals
      <4> QED
        BY <1>2, <3>1, <3>3, <4>1
    <3>4. CASE /\ state' = "RELEASE_BUS" /\ UNCHANGED nack
               /\ log' = Append(log, Table[init_idx + 1])
      <4>1. Dealt' = init_idx + 1
        BY <1>4, <3>4, EndDeals
      <4> QED
        BY <1>1, <3>1, <3>4, <4>1
    <3> QED
      BY <1>4, <2>2, <3>2, <3>3, <3>4, PhaseStep
  <2> QED
    BY <2>1, <2>2
<1> QED
  BY <1>3, <1>4

(* Whatever bytes the codec refuses, wherever in a transaction: what it has taken *)
(* are entries of the table, in their order, each once and whole; every other     *)
(* entry dealt with was refused, and that is not forgotten.                     *)
THEOREM CodecRefinement == AudioSpec => ImplementsSetup
<1>1. AudioInit => Table_!Init
  BY DEF AudioInit, MasterInit, SetupInit, CodecInit, Decided, Table_!Init
<1>2. AInv /\ [Clock]_audioVars
        => [Table_!WriteNext \/ Table_!RefuseNext]_<<Dealt, log, Refused>>
  <2>1. ASSUME AInv, Clock
        PROVE  [Table_!WriteNext \/ Table_!RefuseNext]_<<Dealt, log, Refused>>
    BY <2>1, SetupStep, Zenon
    DEF Dealt, Refused, Table_!WriteNext, Table_!RefuseNext
  <2>2. ASSUME UNCHANGED audioVars
        PROVE  UNCHANGED <<Dealt, log, Refused>>
    BY <2>2
    DEF Dealt, Refused, Decided, audioVars, masterVars, setupVars, codecVars
  <2> QED
    BY <2>1, <2>2
<1> QED
  BY <1>1, <1>2, CodecInStep, PTL
  DEF AudioSpec, ImplementsSetup, Table_!Spec, Dealt, Refused

-----------------------------------------------------------------------------
(* The background music *)

USE WordsAssumption, HoldAssumption

(* The values that the steps compute. *)
LEMMA Ranges ==
  /\ 0 \in Song /\ Quiet \in Ctrl /\ Stop \in Ctrl
  /\ Play(0) \in Ctrl /\ \A s \in Song : Play(s) \in Ctrl
  /\ \A s \in Song, r \in {0, 1} : SongAfter(s, r) \in Song \ {0}
  /\ 0 \in 0..(SONG_WORDS - 1) /\ 0 \in 0..HOLD /\ HOLD \in 0..HOLD
  /\ \A a \in 0..(SONG_WORDS - 1) : (a + 1) % SONG_WORDS \in 0..(SONG_WORDS - 1)
BY DEF Quiet, Stop, Play, Ctrl, Song, SongAfter

LEMMA Orders ==
  /\ Quiet.play = FALSE /\ Quiet.stop = FALSE
  /\ Stop.play = FALSE /\ Stop.stop = TRUE
  /\ \A s : Play(s).play = TRUE /\ Play(s).stop = FALSE /\ Play(s).song_sel = s
BY DEF Quiet, Stop, Play

LEMMA Initially == Init => IInv
BY Ranges, Orders
DEF Init, PlayerInit, IInv, TypeOK, PlayerTypeOK, SongIsCurrent,
    OrderIsCurrent, PauseHasNoSong, StopObeyed,
    ScreenMoves, Song

(* One clock of the player, by whether it is told to stop.                   *)
LEMMA SampleStep == ASSUME IInv, Sample PROVE IInv'
<1> USE DEF IInv, TypeOK, PlayerTypeOK
<1>1. held' \in 0..HOLD /\ held' # 0
  BY DEF Sample
<1>2. UNCHANGED <<at, screen, seen, ctrl, bgm_ctrl, bgm_in_cooldown, current_game_song>>
  BY DEF Sample, loopVars
<1>3. ctrl.play \in BOOLEAN /\ ctrl.stop \in BOOLEAN /\ ctrl.song_sel \in Song
  BY DEF Ctrl
<1>4. CASE ctrl.stop
  <2>1. /\ player_state' = "ST_IDLE" /\ playing' = FALSE
        /\ song_sel_reg' = 0 /\ local_addr' = 0
    BY <1>4 DEF Sample, PlayerClk, Stopped
  <2> QED
    BY <1>1, <1>2, <2>1, Ranges
    DEF SongIsCurrent, OrderIsCurrent, PauseHasNoSong,
        StopObeyed, Song
<1>5. CASE ~ctrl.stop
  <2>1. PlayerTypeOK'
    BY <1>3, <1>5, Ranges
    DEF Sample, PlayerClk, Idle, MoveTo, SongEnds, NoteEnds, Song
  (* Only an order to play starts a song, and it starts that song. *)
  <2>2. \/ playing' = FALSE \/ song_sel_reg' = 0
        \/ ctrl.play /\ song_sel_reg' = ctrl.song_sel
        \/ playing /\ song_sel_reg' = song_sel_reg
    BY <1>3, <1>5
    DEF Sample, PlayerClk, Idle, MoveTo, SongEnds, NoteEnds
  <2>3. SongIsCurrent' /\ PauseHasNoSong'
    BY <1>2, <2>2 DEF SongIsCurrent, PauseHasNoSong, OrderIsCurrent
  <2> QED
    BY <1>1, <1>2, <1>5, <2>1, <2>3 DEF OrderIsCurrent, StopObeyed
<1> QED
  BY <1>3, <1>4, <1>5

(* What a round of the program does with the player left alone.              *)
LEMMA LoopStep == ASSUME IInv, Loop PROVE IInv'
<1> USE DEF IInv, TypeOK, PlayerTypeOK
<1>1. UNCHANGED <<player_state, playing, song_sel_reg, local_addr>>
  BY DEF Loop, Read, InMenus, CooldownStarts, CooldownRuns, NextSong,
       SongPlays, InStopped, Act, Update, playerVars
<1>2. PlayerTypeOK'
  BY <1>1
<1>3. CASE Read
  BY <1>1, <1>2, <1>3
  DEF Read, orderVars, SongIsCurrent, OrderIsCurrent, PauseHasNoSong, StopObeyed
<1>4. CASE InMenus
  BY <1>1, <1>2, <1>4, Ranges, Orders
  DEF InMenus, Act, Order, NoOrder, orderVars, Song, SongIsCurrent,
      OrderIsCurrent, PauseHasNoSong, StopObeyed
<1>5. CASE CooldownStarts
  BY <1>1, <1>2, <1>5, Ranges, Orders
  DEF CooldownStarts, Act, Order, SongIsCurrent, OrderIsCurrent,
      PauseHasNoSong, StopObeyed
<1>6. CASE CooldownRuns
  BY <1>1, <1>2, <1>6
  DEF CooldownRuns, Act, NoOrder, orderVars, SongIsCurrent, OrderIsCurrent,
      PauseHasNoSong, StopObeyed
<1>7. CASE NextSong
  <2>1. current_game_song' \in Song \ {0}
    BY <1>7, Ranges DEF NextSong
  <2>2. ctrl' \in Ctrl /\ ctrl' = Play(current_game_song')
    BY <1>7, <2>1, Ranges DEF NextSong, Order
  (* The pause had no song in the player. *)
  <2>3. playing => song_sel_reg = 0
    BY <1>7 DEF NextSong, Act, PauseHasNoSong
  <2> QED
    BY <1>1, <1>2, <1>7, <2>1, <2>2, <2>3, Ranges, Orders
    DEF NextSong, Act, Order, SongIsCurrent, OrderIsCurrent, PauseHasNoSong,
        StopObeyed
<1>8. CASE SongPlays
  BY <1>1, <1>2, <1>8, Ranges, Orders
  DEF SongPlays, Act, Order, NoOrder, orderVars, SongIsCurrent,
      OrderIsCurrent, PauseHasNoSong, StopObeyed
<1>9. CASE InStopped
  BY <1>1, <1>2, <1>9, Ranges, Orders
  DEF InStopped, Act, Order, NoOrder, orderVars, Song, SongIsCurrent,
      OrderIsCurrent, PauseHasNoSong, StopObeyed
<1>10. CASE Update
  <2>1. screen' \in DOMAIN ScreenMoves
    BY <1>10 DEF Update, ScreenMoves
  <2> QED
    BY <1>1, <1>2, <1>10, <2>1, Ranges, Orders
    DEF Update, NoOrder, orderVars, SongIsCurrent, OrderIsCurrent,
        PauseHasNoSong, StopObeyed
<1> QED
  BY <1>3, <1>4, <1>5, <1>6, <1>7, <1>8, <1>9, <1>10 DEF Loop

LEMMA StutterStep == ASSUME IInv, UNCHANGED vars PROVE IInv'
BY DEF IInv, TypeOK, PlayerTypeOK, SongIsCurrent,
     OrderIsCurrent, PauseHasNoSong, StopObeyed, vars, playerVars, orderVars,
     loopVars

(* The invariant that the properties rest on holds for ever.                 *)
THEOREM Invariance == Spec => []IInv
<1>1. IInv /\ [Next]_vars => IInv'
  BY SampleStep, LoopStep, StutterStep DEF Next
<1> QED
  BY Initially, <1>1, PTL DEF Spec

(* Every variable of the program's side and of the player keeps its type: the *)
(* counting round of the songs never leaves the four there are.             *)
THEOREM TypeCorrect == Spec => []TypeOK
BY Invariance, PTL DEF IInv

(* A song that sounds is the current one, or one given up and to be stopped,  *)
(* however late the player samples its orders.                              *)
THEOREM CurrentSong == Spec => []SongIsCurrent
BY Invariance, PTL DEF IInv

(* An order to stop is not taken back before the player has stopped.         *)
THEOREM StopIsHeard == Spec => StopHeard
<1>1. ASSUME IInv, [Next]_vars, ctrl.stop, ~ctrl'.stop PROVE ~playing
  <2>1. CASE InMenus \/ CooldownStarts \/ NextSong
    BY <1>1, <2>1, Orders
    DEF IInv, StopObeyed, InMenus, CooldownStarts, NextSong, Act, NoOrder,
        orderVars
  <2>2. CASE SongPlays \/ InStopped
    BY <1>1, <2>2, Orders
    DEF SongPlays, InStopped, Order, NoOrder, orderVars
  <2>3. CASE Update
    BY <1>1, <2>3
    DEF IInv, StopObeyed, Update, Elapsed, NoOrder, orderVars
  <2>4. CASE Read \/ CooldownRuns \/ Sample \/ UNCHANGED vars
    BY <1>1, <2>4
    DEF Read, CooldownRuns, NoOrder, Sample, vars, orderVars
  <2> QED
    BY <1>1, <2>1, <2>2, <2>3, <2>4 DEF Next, Loop
<1>2. IInv /\ [Next]_vars => [ctrl.stop /\ ~ctrl'.stop => ~playing]_vars
  BY <1>1
<1> QED
  BY Invariance, <1>2, PTL DEF Spec, StopHeard
=============================================================================
