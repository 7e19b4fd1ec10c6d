------------------------------ MODULE DiskProofs ------------------------------
(***************************************************************************)
(* Proofs about Disk, for cards and sectors of any size, any requests and    *)
(* any faults: what a call that reports success has done, and what is        *)
(* written at all.                                                         *)
(***************************************************************************)
EXTENDS Disk, SequenceTheorems, TLAPS

USE CardAssumption, RequestAssumption DEF statVars

-----------------------------------------------------------------------------
(* Addresses *)

LEMMA UnitType == Unit \in Nat \ {0}
BY DEF Unit

(* The address of a block is a number of units, and the next block is one on. *)
LEMMA NextAddress ==
  ASSUME NEW s \in Nat PROVE s * Unit \in Nat /\ s * Unit + Unit = (s + 1) * Unit
<1>1. Unit \in Nat
  BY UnitType
<1>2. \A u \in Nat : s * u \in Nat /\ s * u + u = (s + 1) * u
  OBVIOUS
<1> QED
  BY <1>1, <1>2

LEMMA Division ==
  ASSUME NEW s \in Nat, NEW n \in Nat \ {0} PROVE (s * n) \div n = s
BY SMTT(30)

(* The driver's units are the card's when the driver knows the card. *)
LEMMA WhereIs ==
  ASSUME NEW s \in Nat, ByBlocks <=> slot = "hc"
  PROVE  Where(s * Unit) = s
<1>1. CASE slot = "hc"
  BY <1>1 DEF Where, Unit
<1>2. CASE slot # "hc"
  <2>1. Where(s * Unit) = (s * SIZE) \div SIZE
    BY <1>2 DEF Where, Unit
  <2> QED
    BY <2>1, Division
<1> QED
  BY <1>1, <1>2

-----------------------------------------------------------------------------
LEMMA Initially == Init => IInv
<1> SUFFICES ASSUME Init PROVE IInv
  OBVIOUS
<1> USE DEF Init, CardInit
<1>1. TypeOK
  <2>1. buff \in Seq(Data) /\ asked.data \in Seq(Data)
    OBVIOUS
  <2>2. asked \in [op : {"none", "init", "read", "write", "sync"}, sector : Nat,
                  data : Seq(Data), count : Nat]
    BY <2>1
  <2> QED
    BY <2>1, <2>2 DEF TypeOK, NoWrite
<1>2. Placed
  BY DEF Placed, done, ReadSteps, WriteSteps, InitSteps
<1>3. CardKnown /\ BusyWith /\ BlocksDone /\ OkMeansDone
  BY DEF CardKnown, BusyWith, BlocksDone, OkMeansDone, ReadSteps, WriteSteps,
         InitSteps, Silent, Busy, NoWrite, done
<1> QED
  BY <1>1, <1>2, <1>3 DEF IInv

-----------------------------------------------------------------------------
(* The card by itself, and the hand that pulls it out or puts one in.        *)

LEMMA WarmStep == ASSUME IInv, Warm, UNCHANGED diskVars PROVE IInv'
<1> USE DEF IInv, Warm, diskVars, callVars
<1>1. TypeOK'
  BY DEF TypeOK
<1>2. Placed'
  BY DEF Placed, done, Unit, ByBlocks, Silent
<1>3. CardKnown'
  BY DEF CardKnown, Silent, Busy, ByBlocks
<1>4. BusyWith' /\ BlocksDone' /\ OkMeansDone'
  BY DEF BusyWith, BlocksDone, OkMeansDone, Busy, done, Of, ByBlocks
<1> QED
  BY <1>1, <1>2, <1>3, <1>4

(* Whatever the driver knew, a card that was just put in is silent.          *)
LEMMA HandStep == ASSUME IInv, Hand PROVE IInv'
<1> USE DEF IInv
<1>1. /\ pending' = NoWrite /\ mode' = "sd" /\ moved'
      /\ slot' \in Kinds \cup {"none"} /\ content' \in Contents /\ missed' = missed
      /\ may' = {} /\ known' = "new"
      /\ UNCHANGED <<STA_NOINIT, CardType, pc, ty, sector, count, buff, asked, res>>
  BY DEF Hand, Pull, Insert, CardKnown, Busy, TypeOK
<1>2. TypeOK'
  BY <1>1 DEF TypeOK
<1>3. Silent' /\ ~Busy' /\ done' = done
  BY <1>1 DEF Silent, Busy, done
<1>4. Placed'
  BY <1>1, <1>3 DEF Placed, Unit, ByBlocks
<1>5. CardKnown' /\ BusyWith' /\ BlocksDone' /\ OkMeansDone'
  BY <1>1, <1>3 DEF CardKnown, BusyWith, BlocksDone, OkMeansDone
<1> QED
  BY <1>2, <1>4, <1>5

(* The block that is stored is the one being written, or is from before.     *)
LEMMA StoreStep == ASSUME IInv, Store, UNCHANGED diskVars PROVE IInv'
<1> USE DEF IInv, Store, diskVars, callVars
<1>1. TypeOK'
  BY DEF TypeOK, Busy, Contents
<1>2. Placed'
  BY DEF Placed, done, Unit, ByBlocks, Silent
<1>3. CardKnown' /\ BusyWith'
  BY DEF CardKnown, BusyWith, Silent, Busy, NoWrite, done, ByBlocks
<1>4. pending \in Sector \X Data
  BY DEF TypeOK, Busy
<1>5. BlocksDone'
  <2> SUFFICES ASSUME ~moved PROVE
        /\ pc \in ReadSteps  => \A i \in 1 .. done : buff[i] = Of(i)'
        /\ pc \in WriteSteps => \A i \in 1 .. done : asked.data[i] = Of(i)'
        /\ pc = "store" => asked.data[done + 1] = Of(done + 1)'
    BY DEF BlocksDone, done
  <2>1. done \in Int /\ asked.sector \in Nat
    BY DEF TypeOK, done
  <2>2. pc \in ReadSteps \cup {"cmd24", "send"} => done <= 0
    <3>1. pc \in {"token", "data", "send"} => FALSE
      BY DEF BusyWith
    <3>2. pc \in {"cmd17", "cmd24"} => ~(done > 0)
      BY DEF BusyWith
    <3> QED
      BY <2>1, <3>1, <3>2 DEF ReadSteps
  <2>3. pc = "store" => /\ pending = <<asked.sector + done, asked.data[done + 1]>>
                        /\ done \in Nat
    BY DEF BusyWith, Placed, WriteSteps, TypeOK, done
  <2>4. ASSUME pc = "store"
        PROVE  /\ asked.data[done + 1] = Of(done + 1)'
               /\ \A i \in 1 .. done : Of(i)' = Of(i)
    <3>1. /\ pending[1] = asked.sector + done /\ pending[2] = asked.data[done + 1]
          /\ pending[1] \in Sector
      BY <1>4, <2>3, <2>4
    <3>2. \A n \in Sector : content'[n] = IF n = pending[1] THEN pending[2] ELSE content[n]
      BY DEF TypeOK, Contents
    <3>3. \A i \in 1 .. done : /\ asked.sector + i - 1 \in Sector
                              /\ asked.sector + i - 1 # pending[1]
      BY <2>1, <2>3, <2>4, <3>1 DEF Sector
    <3>4. asked.sector + (done + 1) - 1 = pending[1]
      BY <2>1, <3>1
    <3>5. done' = done
      BY DEF done
    <3> QED
      BY <3>1, <3>2, <3>3, <3>4, <3>5 DEF Of
  <2> QED
    BY <2>1, <2>2, <2>4 DEF BlocksDone, WriteSteps, ReadSteps
<1>6. OkMeansDone'
  BY DEF OkMeansDone, BusyWith, Busy, NoWrite, ByBlocks
<1> QED
  BY <1>1, <1>2, <1>3, <1>5, <1>6

-----------------------------------------------------------------------------
(* Calls: a request within the card, and what may be written is what it asks *)
(* for and what the card is still busy with.                               *)

LEMMA BeginsKeeps ==
  ASSUME IInv, NEW op \in {"init", "read", "write", "sync"},
         NEW s \in Nat, NEW data \in Seq(Data), NEW n \in Nat, s + n <= SECTORS,
         Begins(op, s, data, n),
         op # "write" => may' = may
  PROVE  /\ asked' \in [op : {"none", "init", "read", "write", "sync"}, sector : Nat,
                         data : Seq(Data), count : Nat]
         /\ sector' \in Nat /\ count' \in Nat /\ buff' \in Seq(Data)
         /\ done' = 0 /\ asked'.sector + asked'.count <= SECTORS
         /\ sector' = (asked'.sector + done') * Unit' /\ Len(buff') = done'
         /\ slot = "none" => mode = "sd" /\ ~Busy
         /\ known = "new" <=> Silent
         /\ ~STA_NOINIT /\ ~Silent => (ByBlocks <=> slot = "hc") /\ known = "initialised"
         /\ Busy => known = "initialised"
         /\ known' = known /\ known \in {"new", "greeted", "initialised"}
         /\ op # "write" => (Busy' => pending' \in may')
<1> USE DEF IInv, Begins
<1>1. sector' \in Nat
  BY NextAddress
<1>2. buff' \in Seq(Data) /\ Len(buff') = 0
  OBVIOUS
<1>3. done' = 0 /\ asked'.sector + asked'.count <= SECTORS
  BY DEF done
<1>4. Unit' = Unit
  BY DEF Unit, ByBlocks
<1>5. /\ slot = "none" => mode = "sd" /\ ~Busy
      /\ known = "new" <=> Silent
      /\ ~STA_NOINIT /\ ~Silent => (ByBlocks <=> slot = "hc") /\ known = "initialised"
      /\ Busy => known = "initialised"
      /\ known' = known /\ known \in {"new", "greeted", "initialised"}
  BY DEF CardKnown, BusyWith, TypeOK, InitSteps
<1>6. op # "write" => (Busy' => pending' \in may')
  BY DEF BusyWith, Busy
<1> QED
  BY <1>1, <1>2, <1>3, <1>4, <1>5, <1>6

LEMMA CallInitStep == ASSUME IInv, CallInit PROVE IInv'
<1> USE DEF CallInit
<1>0. <<>> \in Seq(Data) /\ 0 \in Nat /\ 0 + 0 <= SECTORS
  OBVIOUS
<1>1. /\ asked' \in [op : {"none", "init", "read", "write", "sync"}, sector : Nat,
                      data : Seq(Data), count : Nat]
      /\ sector' \in Nat /\ count' \in Nat /\ buff' \in Seq(Data)
      /\ asked'.sector + asked'.count <= SECTORS
      /\ slot = "none" => mode = "sd" /\ ~Busy
      /\ known = "new" <=> Silent
      /\ ~STA_NOINIT /\ ~Silent => (ByBlocks <=> slot = "hc") /\ known = "initialised"
      /\ Busy => known = "initialised"
      /\ known' = known /\ known \in {"new", "greeted", "initialised"}
      /\ Busy' => pending' \in may'
  BY <1>0, BeginsKeeps
<1>2. TypeOK'
  BY <1>1 DEF IInv, TypeOK, Begins, InitSteps
<1>3. Placed'
  BY <1>1 DEF Placed, Begins, InitSteps, ReadSteps, WriteSteps
<1>4. CardKnown' /\ BusyWith' /\ BlocksDone' /\ OkMeansDone'
  BY <1>1 DEF CardKnown, BusyWith, BlocksDone, OkMeansDone, Begins, Busy, Silent,
              InitSteps, ReadSteps, WriteSteps
<1> QED
  BY <1>2, <1>3, <1>4 DEF IInv

LEMMA CallReadStep ==
  ASSUME IInv, NEW q \in Reads, CallRead(q[1], q[2]) PROVE IInv'
<1> USE DEF CallRead, Transfer
<1>0. /\ <<>> \in Seq(Data) /\ q[1] \in Nat /\ q[2] \in Nat
      /\ q[1] + q[2] <= SECTORS
  OBVIOUS
<1>1. /\ asked' \in [op : {"none", "init", "read", "write", "sync"}, sector : Nat,
                      data : Seq(Data), count : Nat]
      /\ sector' \in Nat /\ count' \in Nat /\ buff' \in Seq(Data)
      /\ done' = 0 /\ asked'.sector + asked'.count <= SECTORS
      /\ sector' = (asked'.sector + done') * Unit' /\ Len(buff') = done'
      /\ slot = "none" => mode = "sd" /\ ~Busy
      /\ known = "new" <=> Silent
      /\ ~STA_NOINIT /\ ~Silent => (ByBlocks <=> slot = "hc") /\ known = "initialised"
      /\ Busy => known = "initialised"
      /\ known' = known /\ known \in {"new", "greeted", "initialised"}
      /\ Busy' => pending' \in may'
  BY <1>0, BeginsKeeps
<1>2. TypeOK'
  BY <1>1 DEF IInv, TypeOK, Begins, ReadSteps
<1>3. Placed'
  BY <1>1 DEF Placed, Begins, InitSteps, ReadSteps, WriteSteps
<1>4. CardKnown'
  BY <1>1 DEF CardKnown, Begins, Busy, Silent, ByBlocks, InitSteps
<1>5. BusyWith' /\ BlocksDone' /\ OkMeansDone'
  BY <1>1 DEF BusyWith, BlocksDone, OkMeansDone, Begins, Busy, ReadSteps, WriteSteps
<1> QED
  BY <1>2, <1>3, <1>4, <1>5 DEF IInv

LEMMA CallWriteStep ==
  ASSUME IInv, NEW q \in Writes, CallWrite(q[1], q[2]) PROVE IInv'
<1> USE DEF CallWrite, Transfer
<1> DEFINE n == Len(q[2])
           Blocks == {<<q[1] + i - 1, q[2][i]>> : i \in 1 .. n}
<1>0. /\ q[1] \in Nat /\ q[2] \in Seq(Data) /\ n \in Nat \ {0}
      /\ q[1] + n <= SECTORS
  BY EmptySeq, LenProperties
<1>1. /\ asked' \in [op : {"none", "init", "read", "write", "sync"}, sector : Nat,
                      data : Seq(Data), count : Nat]
      /\ sector' \in Nat /\ count' \in Nat /\ buff' \in Seq(Data)
      /\ done' = 0 /\ asked'.sector + asked'.count <= SECTORS
      /\ sector' = (asked'.sector + done') * Unit' /\ Len(buff') = done'
      /\ slot = "none" => mode = "sd" /\ ~Busy
      /\ known = "new" <=> Silent
      /\ ~STA_NOINIT /\ ~Silent => (ByBlocks <=> slot = "hc") /\ known = "initialised"
      /\ Busy => known = "initialised"
      /\ known' = known /\ known \in {"new", "greeted", "initialised"}
  BY <1>0, BeginsKeeps
<1>2. Blocks \subseteq Sector \X Data
  BY <1>0 DEF Sector
<1>3. /\ may' \subseteq Sector \X Data
      /\ Busy' => pending' \in may'
      /\ ~STA_NOINIT => Blocks \subseteq may'
  BY <1>2 DEF IInv, TypeOK, BusyWith, Busy, Begins
<1>4. TypeOK'
  BY <1>1, <1>3 DEF IInv, TypeOK, Begins, WriteSteps
<1>5. Placed'
  BY <1>0, <1>1, <1>3 DEF Placed, Begins, Silent, InitSteps, ReadSteps, WriteSteps
<1>6. CardKnown'
  BY <1>1 DEF CardKnown, Begins, Busy, Silent, ByBlocks, InitSteps
<1>7. BusyWith' /\ BlocksDone' /\ OkMeansDone'
  BY <1>1, <1>3 DEF BusyWith, BlocksDone, OkMeansDone, Begins, Busy, ReadSteps, WriteSteps
<1> QED
  BY <1>4, <1>5, <1>6, <1>7 DEF IInv

LEMMA CallSyncStep == ASSUME IInv, CallSync PROVE IInv'
<1> USE DEF CallSync, Transfer
<1>0. <<>> \in Seq(Data) /\ 0 \in Nat /\ 0 + 0 <= SECTORS
  OBVIOUS
<1>1. /\ asked' \in [op : {"none", "init", "read", "write", "sync"}, sector : Nat,
                      data : Seq(Data), count : Nat]
      /\ sector' \in Nat /\ count' \in Nat /\ buff' \in Seq(Data)
      /\ done' = 0 /\ asked'.sector + asked'.count <= SECTORS
      /\ slot = "none" => mode = "sd" /\ ~Busy
      /\ known = "new" <=> Silent
      /\ ~STA_NOINIT /\ ~Silent => (ByBlocks <=> slot = "hc") /\ known = "initialised"
      /\ Busy => known = "initialised"
      /\ known' = known /\ known \in {"new", "greeted", "initialised"}
      /\ Busy' => pending' \in may'
  BY <1>0, BeginsKeeps
<1>2. TypeOK'
  BY <1>1 DEF IInv, TypeOK, Begins
<1>3. Placed'
  BY <1>1 DEF Placed, Begins, InitSteps, ReadSteps, WriteSteps
<1>4. CardKnown'
  BY <1>1 DEF CardKnown, Begins, Busy, Silent, ByBlocks, InitSteps
<1>5. BusyWith' /\ BlocksDone' /\ OkMeansDone'
  BY <1>1 DEF BusyWith, BlocksDone, OkMeansDone, Begins, Busy, ReadSteps, WriteSteps
<1> QED
  BY <1>2, <1>3, <1>4, <1>5 DEF IInv

-----------------------------------------------------------------------------
(* disk_initialize.  It transfers no block, so that of the invariant only    *)
(* what is known of the card can be disturbed.                              *)

LEMMA InitKeeps ==
  ASSUME IInv, pc \in InitSteps,
         UNCHANGED <<slot, content, pending, moved, callVars>>,
         mode' \in {"sd", "idle", "starting", "ready"}, missed' \in BOOLEAN,
         \/ /\ pc' \in InitSteps /\ ty' \in {0, 1, 2}
            /\ UNCHANGED <<STA_NOINIT, CardType, res>>
            /\ known' = known \/ (known' = "greeted" /\ ~Busy)
         \/ \E type \in {0, 1, 2, 4, 12} : Finish(type)
  PROVE  TypeOK' /\ Placed' /\ BusyWith' /\ BlocksDone'
<1> USE DEF IInv, callVars
<1>1. TypeOK'
  <2>1. CASE \E type \in {0, 1, 2, 4, 12} : Finish(type)
    BY <2>1 DEF TypeOK, Finish, Learns
  <2>2. CASE /\ pc' \in InitSteps /\ ty' \in {0, 1, 2}
             /\ UNCHANGED <<STA_NOINIT, CardType, res>>
             /\ known' = known \/ (known' = "greeted" /\ ~Busy)
    BY <2>2 DEF TypeOK
  <2> QED
    BY <2>1, <2>2
<1>2. Placed'
  BY DEF Placed, Finish, done, InitSteps, ReadSteps, WriteSteps
<1>3. BusyWith'
  BY DEF BusyWith, Placed, Finish, Learns, done, Busy, InitSteps
<1>4. BlocksDone'
  BY DEF BlocksDone, Finish, InitSteps, ReadSteps, WriteSteps
<1> QED
  BY <1>1, <1>2, <1>3, <1>4

LEMMA ResetStep == ASSUME IInv, Reset PROVE IInv'
<1>1. PICK r \in {1, 255} :
        /\ Command("cmd0", "CMD0", 0, r)
        /\ IF r = 1 THEN /\ pc' = "cmd8" /\ ty' = 0 /\ known' = "greeted"
                         /\ UNCHANGED <<STA_NOINIT, CardType, res>>
                    ELSE Finish(0)
  BY DEF Reset
<1> USE <1>1 DEF Command
<1>2. /\ UNCHANGED <<slot, content, pending, moved>>
      /\ mode' \in {"sd", "idle", "starting", "ready"} /\ missed' \in BOOLEAN
      /\ (Heard("CMD0", 0, r) /\ ~Busy) \/ (r = 255 /\ mode' = mode)
  BY DEF IInv, TypeOK, Send, Heard, NotHeard, After
<1>3. TypeOK' /\ Placed' /\ BusyWith' /\ BlocksDone'
  BY <1>2, InitKeeps DEF InitSteps
<1>4. CASE r = 1
  <2>1. slot # "none" /\ mode' = "idle"
    BY <1>2, <1>4 DEF Heard, After
  <2> QED
    BY <1>2, <1>3, <1>4, <2>1 DEF IInv, CardKnown, OkMeansDone, Silent, Busy, InitSteps
<1>5. CASE r = 255
  <2>1. mode' = mode
    BY <1>2, <1>5 DEF Heard, Answer
  <2>2. Finish(0)
    BY <1>5
  <2>3. pc' = "idle" /\ STA_NOINIT'
    BY <2>2, Zenon DEF Finish
  <2>4. CardKnown'
    BY <1>2, <2>1, <2>2, <2>3 DEF IInv, CardKnown, Finish, Learns, Silent, Busy, InitSteps
  <2>5. OkMeansDone'
    BY <1>5 DEF OkMeansDone, Finish
  <2> QED
    BY <1>3, <2>4, <2>5 DEF IInv
<1> QED
  BY <1>4, <1>5

LEMMA VersionStep == ASSUME IInv, Version PROVE IInv'
<1>1. PICK r \in {1, 5, 255} :
        /\ Command("cmd8", "CMD8", 0, r)
        /\ IF r = 1 THEN Goto("echo", 0) ELSE Goto("probe", 0)
  BY DEF Version
<1> USE <1>1 DEF Command, Goto
<1>2. /\ UNCHANGED <<slot, content, pending, moved>>
      /\ mode' \in {"sd", "idle", "starting", "ready"} /\ missed' \in BOOLEAN
      /\ Heard("CMD8", 0, r) \/ (r = 255 /\ mode' = mode)
  BY DEF IInv, TypeOK, Send, Heard, NotHeard, After
<1>3. TypeOK' /\ Placed' /\ BusyWith' /\ BlocksDone'
  BY <1>2, InitKeeps DEF InitSteps
<1>4. mode' = mode
  BY <1>2 DEF Heard, After, Starts
<1>5. CardKnown'
  BY <1>2, <1>4 DEF IInv, CardKnown, Silent, Busy, InitSteps
<1>6. OkMeansDone'
  BY DEF OkMeansDone
<1> QED
  BY <1>3, <1>5, <1>6 DEF IInv

LEMMA EchoStep == ASSUME IInv, Echo PROVE IInv'
<1> USE DEF Echo, Phase, Goto, cardVars
<1>1. TypeOK' /\ Placed' /\ BusyWith' /\ BlocksDone'
  BY InitKeeps DEF InitSteps, IInv, TypeOK
<1>2. CardKnown' /\ OkMeansDone'
  BY DEF IInv, CardKnown, OkMeansDone, Finish, Learns, Silent, Busy, InitSteps
<1> QED
  BY <1>1, <1>2 DEF IInv

LEMMA AwaitStep == ASSUME IInv, Await PROVE IInv'
<1>1. PICK r \in {0, 1, 5, 255} :
        /\ Command("acmd41", "ACMD41", HCS, r)
        /\ IF r = 0 THEN Goto("cmd58", 0) ELSE Goto("acmd41", 0)
  BY DEF Await
<1> USE <1>1 DEF Command, Goto
<1>2. /\ UNCHANGED <<slot, content, pending, moved>>
      /\ mode' \in {"sd", "idle", "starting", "ready"} /\ missed' \in BOOLEAN
      /\ \/ Heard("ACMD41", HCS, r) /\ mode' # "sd"
         \/ r = 255 /\ mode' = mode
  BY DEF IInv, TypeOK, Send, Heard, NotHeard, After
<1>3. TypeOK' /\ Placed' /\ BusyWith' /\ BlocksDone'
  BY <1>2, InitKeeps DEF InitSteps
<1>4. CardKnown'
  BY <1>2 DEF IInv, CardKnown, Silent, Busy, InitSteps, Heard
<1>5. OkMeansDone'
  BY DEF OkMeansDone
<1> QED
  BY <1>3, <1>4, <1>5 DEF IInv

LEMMA CapacityStep == ASSUME IInv, Capacity PROVE IInv'
<1>1. PICK r \in {0, 1, 255} :
        /\ Command("cmd58", "CMD58", 0, r)
        /\ IF r = 0 THEN Goto("ocr", 0) ELSE Finish(0)
  BY DEF Capacity
<1> USE <1>1 DEF Command, Goto
<1>2. /\ UNCHANGED <<slot, content, pending, moved>>
      /\ mode' \in {"sd", "idle", "starting", "ready"} /\ missed' \in BOOLEAN
      /\ Heard("CMD58", 0, r) \/ (r = 255 /\ mode' = mode)
  BY DEF IInv, TypeOK, Send, Heard, NotHeard, After
<1>3. TypeOK' /\ Placed' /\ BusyWith' /\ BlocksDone'
  BY <1>2, InitKeeps DEF InitSteps
<1>4. mode' = mode /\ (r = 0 => mode = "ready")
  BY <1>2 DEF Heard, Answer, After, Starts
<1>5. CardKnown'
  BY <1>2, <1>4 DEF IInv, CardKnown, Finish, Learns, Silent, Busy, InitSteps
<1>6. OkMeansDone'
  BY DEF OkMeansDone, Finish
<1> QED
  BY <1>3, <1>5, <1>6 DEF IInv

LEMMA OcrStep == ASSUME IInv, Ocr PROVE IInv'
<1> USE DEF Ocr, Phase, cardVars
<1>1. TypeOK' /\ Placed' /\ BusyWith' /\ BlocksDone'
  BY InitKeeps DEF InitSteps, IInv, TypeOK
<1>2. ~Silent => (ByBlocks' <=> slot = "hc")
  BY DEF Finish, ByBlocks
<1>3. CardKnown'
  BY <1>2 DEF IInv, TypeOK, CardKnown, Finish, Learns, Silent, Busy, InitSteps
<1>4. OkMeansDone'
  BY <1>2 DEF IInv, CardKnown, Placed, OkMeansDone, Finish, InitSteps, callVars
<1> QED
  BY <1>1, <1>3, <1>4 DEF IInv

LEMMA ProbeStep == ASSUME IInv, Probe PROVE IInv'
<1>1. PICK r \in {0, 1, 5, 255} :
        /\ Command("probe", "ACMD41", 0, r)
        /\ Goto("start", IF r <= 1 THEN 2 ELSE 1)
  BY DEF Probe
<1> USE <1>1 DEF Command, Goto
<1>2. /\ UNCHANGED <<slot, content, pending, moved>>
      /\ mode' \in {"sd", "idle", "starting", "ready"} /\ missed' \in BOOLEAN
      /\ \/ Heard("ACMD41", 0, r) /\ mode' # "sd"
         \/ r = 255 /\ mode' = mode
  <2>1. CASE Heard("ACMD41", 0, r)
    BY <2>1 DEF IInv, TypeOK, Send, Heard, After
  <2>2. CASE NotHeard("ACMD41", r)
    BY <2>2 DEF IInv, TypeOK, Send, NotHeard
  <2> QED
    BY <2>1, <2>2 DEF Send
<1>3. TypeOK' /\ Placed' /\ BusyWith' /\ BlocksDone'
  BY <1>2, InitKeeps DEF InitSteps
<1>4. slot = "hc" => mode' = mode
  BY <1>2 DEF Heard, After, Starts, HCS
<1>5. CardKnown'
  BY <1>2, <1>4 DEF IInv, CardKnown, Silent, Busy, InitSteps, Heard
<1>6. OkMeansDone'
  BY DEF OkMeansDone
<1> QED
  BY <1>3, <1>5, <1>6 DEF IInv

LEMMA StartOldStep == ASSUME IInv, StartOld PROVE IInv'
<1> DEFINE cmd == IF ty = 2 THEN "ACMD41" ELSE "CMD1"
<1>1. PICK r \in {0, 1, 5, 255} :
        /\ Command("start", cmd, 0, r)
        /\ IF r = 0 THEN Finish(ty) ELSE Goto("start", ty)
  BY DEF StartOld
<1> USE <1>1 DEF Command, Goto
<1>2. /\ UNCHANGED <<slot, content, pending, moved>>
      /\ mode' \in {"sd", "idle", "starting", "ready"} /\ missed' \in BOOLEAN
      /\ \/ Heard(cmd, 0, r) /\ mode' # "sd"
         \/ r = 255 /\ mode' = mode
  <2>1. CASE Heard(cmd, 0, r)
    BY <2>1 DEF IInv, TypeOK, Send, Heard, After
  <2>2. CASE NotHeard(cmd, r)
    BY <2>2 DEF IInv, TypeOK, Send, NotHeard
  <2> QED
    BY <2>1, <2>2 DEF Send
<1>3. ty \in {1, 2}
  BY DEF IInv, CardKnown
<1>4. TypeOK' /\ Placed' /\ BusyWith' /\ BlocksDone'
  BY <1>2, <1>3, InitKeeps DEF InitSteps
<1>5. slot = "hc" => mode' = mode
  BY <1>2 DEF Heard, After, Starts, HCS
<1>6. r = 0 => mode = "ready" /\ mode' = mode /\ slot # "none"
  BY <1>2 DEF Heard, Answer, After, Starts
<1>7. r = 0 => slot # "hc" /\ ~ByBlocks'
  BY <1>3, <1>6 DEF IInv, CardKnown, Silent, Finish, ByBlocks
<1>8. CardKnown'
  BY <1>2, <1>3, <1>5, <1>6, <1>7
     DEF IInv, TypeOK, CardKnown, Silent, Busy, InitSteps, Heard, Finish, Learns
<1>9. OkMeansDone'
  BY <1>2, <1>3, <1>6, <1>7 DEF IInv, Placed, OkMeansDone, Finish, InitSteps, callVars
<1> QED
  BY <1>4, <1>8, <1>9 DEF IInv

-----------------------------------------------------------------------------
(* disk_read, disk_write and CTRL_SYNC.  Every step of theirs leaves the      *)
(* driver, the request and the contents of the card as they are.            *)

LEMMA TransferKeeps ==
  ASSUME IInv, UNCHANGED <<fixed, slot, mode, content, moved>>
  PROVE  /\ UNCHANGED <<ByBlocks, Unit>> /\ Silent' = Silent
         /\ \A i : Of(i)' = Of(i)
         /\ asked.sector + asked.count <= SECTORS
         /\ asked.sector \in Nat /\ asked.count \in Nat /\ asked.data \in Seq(Data)
         /\ done \in Int
<1> USE DEF fixed
<1>1. UNCHANGED <<ByBlocks, Unit>> /\ Silent' = Silent
  BY DEF ByBlocks, Unit, Silent
<1>2. \A i : Of(i)' = Of(i)
  BY DEF Of
<1> QED
  BY <1>1, <1>2 DEF IInv, TypeOK, Placed, done

(* A call that gives up, whatever the card did. *)
LEMMA Fails ==
  ASSUME IInv, pc \in ReadSteps \cup WriteSteps \cup {"sync"},
         UNCHANGED <<fixed, slot, mode, content, moved, pending, buff>>,
         missed' \in BOOLEAN, Return("RES_ERROR")
  PROVE  IInv'
<1> USE DEF Return, fixed
<1>1. UNCHANGED ByBlocks /\ Silent' = Silent /\ UNCHANGED Busy
  BY DEF ByBlocks, Silent, Busy
<1>2. TypeOK'
  BY DEF IInv, TypeOK
<1>3. Placed'
  BY DEF IInv, Placed, InitSteps, ReadSteps, WriteSteps
<1>4. CardKnown'
  BY <1>1 DEF IInv, CardKnown, InitSteps, ReadSteps, WriteSteps
<1>5. BusyWith' /\ BlocksDone' /\ OkMeansDone'
  BY <1>1 DEF IInv, BusyWith, BlocksDone, OkMeansDone, ReadSteps, WriteSteps
<1> QED
  BY <1>2, <1>3, <1>4, <1>5 DEF IInv

(* Reading and writing commands leave the mode of the card alone.           *)
LEMMA ReadCommandStep == ASSUME IInv, ReadCommand PROVE IInv'
<1>1. PICK r \in {0, 5, 64, 255} :
        /\ pc = "cmd17" /\ Send("CMD17", sector, r)
        /\ IF r = 0 THEN pc' = "token" /\ UNCHANGED <<sector, count, res>>
                    ELSE Return("RES_ERROR")
        /\ UNCHANGED <<fixed, buff>>
  BY DEF ReadCommand
<1> USE <1>1
<1>2. UNCHANGED <<slot, content, pending, moved>> /\ missed' \in BOOLEAN /\ mode' = mode
  BY DEF IInv, TypeOK, Send, Heard, NotHeard, After, Starts
<1>3. CASE r # 0
  BY <1>2, <1>3, Fails DEF ReadSteps
<1>4. CASE r = 0
  <2>1. ~Busy /\ ~Silent
    BY <1>4 DEF Send, Heard, NotHeard, Silent
  <2>2. /\ UNCHANGED <<ByBlocks, Unit>> /\ Silent' = Silent
        /\ \A i : Of(i)' = Of(i)
    BY <1>2, TransferKeeps
  <2>3. UNCHANGED Busy /\ done' = done
    BY <1>2, <1>4 DEF Busy, done, fixed
  <2>4. TypeOK'
    BY <1>2, <1>4 DEF IInv, TypeOK, fixed, ReadSteps
  <2>5. Placed'
    BY <1>4, <2>2, <2>3 DEF IInv, Placed, fixed, InitSteps, ReadSteps, WriteSteps
  <2>6. CardKnown'
    BY <1>2, <1>4, <2>1, <2>2, <2>3 DEF IInv, CardKnown, fixed, InitSteps
  <2>7. BusyWith'
    BY <1>2, <1>4, <2>1, <2>3 DEF BusyWith
  <2>8. BlocksDone' /\ OkMeansDone'
    BY <1>2, <1>4, <2>2, <2>3 DEF IInv, BlocksDone, OkMeansDone, ReadSteps, WriteSteps
  <2> QED
    BY <2>4, <2>5, <2>6, <2>7, <2>8 DEF IInv
<1> QED
  BY <1>3, <1>4

LEMMA TokenStep == ASSUME IInv, Token PROVE IInv'
<1> USE DEF Token
<1>1. CASE Return("RES_ERROR") /\ CardFails
  BY <1>1, Fails DEF CardFails, IInv, TypeOK, ReadSteps
<1>2. CASE ~Silent /\ pc' = "data" /\ UNCHANGED <<cardVars, sector, count, res>>
  <2> USE <1>2 DEF cardVars
  <2>1. /\ UNCHANGED <<ByBlocks, Unit>> /\ Silent' = Silent
        /\ \A i : Of(i)' = Of(i)
    BY TransferKeeps
  <2>2. UNCHANGED Busy /\ done' = done
    BY DEF Busy, done, fixed
  <2>3. TypeOK'
    BY DEF IInv, TypeOK, fixed, ReadSteps
  <2>4. Placed'
    BY <2>1, <2>2 DEF IInv, Placed, fixed, InitSteps, ReadSteps, WriteSteps
  <2>5. CardKnown'
    BY <2>1, <2>2 DEF IInv, CardKnown, fixed, InitSteps
  <2>6. BusyWith'
    BY <2>2 DEF IInv, BusyWith
  <2>7. BlocksDone' /\ OkMeansDone'
    BY <2>1, <2>2 DEF IInv, BlocksDone, OkMeansDone, ReadSteps, WriteSteps
  <2> QED
    BY <2>3, <2>4, <2>5, <2>6, <2>7 DEF IInv
<1> QED
  BY <1>1, <1>2

(* The next block's turn, or the end: one more is done, and its address is   *)
(* the next one.                                                           *)
LEMMA NextBlockKeeps ==
  ASSUME IInv, pc \in ReadSteps \cup WriteSteps, NEW first, NextBlock(first),
         UNCHANGED fixed
  PROVE  /\ done \in Nat /\ done' = done + 1 /\ count \in 1 .. asked.count
         /\ sector' = (asked.sector + done') * Unit /\ sector' \in Nat
         /\ count' \in Nat
         /\ \/ count' \in 1 .. asked.count /\ pc' = first /\ res' = res
            \/ done' = asked.count /\ pc' = "idle" /\ res' = "RES_OK"
<1> USE DEF NextBlock, fixed
<1>1. /\ count \in 1 .. asked.count /\ sector = (asked.sector + done) * Unit
      /\ asked.sector \in Nat /\ asked.count \in Nat
  BY DEF IInv, Placed, TypeOK
<1>2. done \in Nat /\ done' = done + 1
  BY <1>1 DEF done
<1>3. sector' = (asked.sector + done') * Unit /\ sector' \in Nat
  <2>1. asked.sector + done \in Nat
    BY <1>1, <1>2
  <2>2. /\ sector + Unit = ((asked.sector + done) + 1) * Unit
        /\ sector \in Nat
    BY <1>1, <2>1, NextAddress
  <2>3. (asked.sector + done) + 1 = asked.sector + done'
    BY <1>1, <1>2
  <2> QED
    BY <2>2, <2>3, UnitType
<1>4. count = 1 => done' = asked.count
  BY <1>1 DEF done
<1> QED
  BY <1>1, <1>2, <1>3, <1>4

LEMMA ReadBlockStep == ASSUME IInv, ReadBlock PROVE IInv'
<1> USE DEF ReadBlock, cardVars
<1>1. /\ UNCHANGED <<ByBlocks, Unit>> /\ Silent' = Silent
      /\ \A i : Of(i)' = Of(i)
      /\ asked.sector + asked.count <= SECTORS
      /\ asked.sector \in Nat /\ asked.count \in Nat
  BY TransferKeeps
<1>2. /\ done \in Nat /\ done' = done + 1 /\ count \in 1 .. asked.count
      /\ sector' = (asked.sector + done') * Unit /\ sector' \in Nat
      /\ count' \in Nat
      /\ \/ count' \in 1 .. asked.count /\ pc' = "cmd17" /\ res' = res
         \/ done' = asked.count /\ pc' = "idle" /\ res' = "RES_OK"
  BY NextBlockKeeps DEF ReadSteps
<1>3. /\ ~Busy /\ ~Busy' /\ ~STA_NOINIT /\ asked.op = "read" /\ Len(buff) = done
      /\ buff \in Seq(Data) /\ content \in Contents
      /\ sector = (asked.sector + done) * Unit
  BY DEF IInv, TypeOK, Placed, BusyWith, Busy, ReadSteps
<1>4. done < asked.count
  BY <1>1, <1>2 DEF done
<1>5. ~Silent => Where(sector) = asked.sector + done /\ Where(sector) \in Sector
  <2>1. ~Silent => (ByBlocks <=> slot = "hc")
    BY <1>3 DEF IInv, CardKnown, InitSteps
  <2>2. asked.sector + done \in Nat
    BY <1>1, <1>2
  <2>3. ~Silent => Where(sector) = asked.sector + done
    BY <1>3, <2>1, <2>2, WhereIs
  <2>4. \A n, f, a, d \in Int : f >= 0 /\ d >= 0 /\ f + a <= n /\ d < a => f + d \in 0 .. n - 1
    OBVIOUS
  <2>5. SECTORS \in Int /\ asked.sector + done \in Sector
    BY <1>1, <1>2, <1>4, <2>4 DEF Sector
  <2> QED
    BY <2>3, <2>5
<1> DEFINE block == IF Silent THEN FF ELSE content[Where(sector)]
<1>6. block \in Data
  BY <1>3, <1>5 DEF Contents
<1>7. /\ buff' \in Seq(Data) /\ Len(buff') = done'
      /\ \A i \in 1 .. done : buff'[i] = buff[i]
      /\ buff'[done + 1] = block
  BY <1>2, <1>3, <1>6, AppendProperties
<1>8. ~Silent => block = Of(done + 1)
  BY <1>1, <1>2, <1>5 DEF Of
<1>9. ~moved => ~Silent /\ \A i \in 1 .. done : buff[i] = Of(i)
  BY DEF IInv, CardKnown, BlocksDone, ReadSteps
<1>10. ~moved => \A i \in 1 .. done' : buff'[i] = Of(i)
  BY <1>2, <1>7, <1>8, <1>9
<1>11. TypeOK'
  BY <1>2, <1>7 DEF IInv, TypeOK, fixed, ReadSteps
<1>12. Placed'
  BY <1>1, <1>2, <1>3, <1>7 DEF IInv, Placed, fixed, InitSteps, ReadSteps, WriteSteps
<1>13. CardKnown'
  BY <1>1, <1>2, <1>3 DEF IInv, CardKnown, fixed, InitSteps
<1>14. BusyWith'
  BY <1>2, <1>3 DEF BusyWith
<1>15. BlocksDone'
  BY <1>1, <1>2, <1>10 DEF BlocksDone, ReadSteps, WriteSteps
<1>16. OkMeansDone'
  <2> SUFFICES ASSUME pc' = "idle", res' = "RES_OK", ~moved
               PROVE  buff' = [i \in 1 .. asked.count |-> Of(i)]
    BY <1>1, <1>3 DEF OkMeansDone, fixed
  <2>1. done' = asked.count
    BY <1>2
  <2>2. buff' = [i \in 1 .. done' |-> buff'[i]]
    BY <1>7
  <2> QED
    BY <1>10, <2>1, <2>2
<1> QED
  BY <1>11, <1>12, <1>13, <1>14, <1>15, <1>16 DEF IInv

LEMMA WriteCommandStep == ASSUME IInv, WriteCommand PROVE IInv'
<1>1. PICK r \in {0, 5, 64, 255} :
        /\ pc = "cmd24" /\ Send("CMD24", sector, r)
        /\ IF r = 0 THEN pc' = "send" /\ UNCHANGED <<sector, count, res>>
                    ELSE Return("RES_ERROR")
        /\ UNCHANGED <<fixed, buff>>
  BY DEF WriteCommand
<1> USE <1>1
<1>2. UNCHANGED <<slot, content, pending, moved>> /\ missed' \in BOOLEAN /\ mode' = mode
  BY DEF IInv, TypeOK, Send, Heard, NotHeard, After, Starts
<1>3. CASE r # 0
  BY <1>2, <1>3, Fails DEF WriteSteps
<1>4. CASE r = 0
  <2>1. ~Busy /\ ~Silent
    BY <1>4 DEF Send, Heard, NotHeard, Silent
  <2>2. /\ UNCHANGED <<ByBlocks, Unit>> /\ Silent' = Silent
        /\ \A i : Of(i)' = Of(i)
    BY <1>2, TransferKeeps
  <2>3. UNCHANGED Busy /\ done' = done
    BY <1>2, <1>4 DEF Busy, done, fixed
  <2>4. TypeOK'
    BY <1>2, <1>4 DEF IInv, TypeOK, fixed, WriteSteps
  <2>5. Placed'
    BY <1>4, <2>2, <2>3 DEF IInv, Placed, fixed, InitSteps, ReadSteps, WriteSteps
  <2>6. CardKnown'
    BY <1>2, <1>4, <2>1, <2>2, <2>3 DEF IInv, CardKnown, fixed, InitSteps
  <2>7. BusyWith'
    BY <1>2, <1>4, <2>1, <2>3 DEF BusyWith
  <2>8. BlocksDone' /\ OkMeansDone'
    BY <1>2, <1>4, <2>2, <2>3
       DEF IInv, BlocksDone, OkMeansDone, fixed, ReadSteps, WriteSteps
  <2> QED
    BY <2>4, <2>5, <2>6, <2>7, <2>8 DEF IInv
<1> QED
  BY <1>3, <1>4

(* The block goes where the request says, and is one the request names.      *)
LEMMA SendBlockStep == ASSUME IInv, SendBlock PROVE IInv'
<1> USE DEF SendBlock
<1>1. CASE Return("RES_ERROR") /\ CardFails
  BY <1>1, Fails DEF CardFails, IInv, TypeOK, WriteSteps
<1>2. CASE /\ ~Silent
           /\ pending' = <<Where(sector), Current>>
           /\ pc' = "store"
           /\ UNCHANGED <<slot, mode, content, moved, missed, sector, count, res>>
  <2> USE <1>2
  <2>1. /\ UNCHANGED <<ByBlocks, Unit>> /\ Silent' = Silent
        /\ \A i : Of(i)' = Of(i)
        /\ asked.sector + asked.count <= SECTORS
        /\ asked.sector \in Nat /\ asked.count \in Nat /\ asked.data \in Seq(Data)
    BY TransferKeeps
  <2>2. done' = done
    BY DEF done, fixed
  <2>3. /\ count \in 1 .. asked.count /\ asked.count = Len(asked.data)
        /\ sector = (asked.sector + done) * Unit /\ ~STA_NOINIT
        /\ \A i \in 1 .. asked.count : <<asked.sector + i - 1, asked.data[i]>> \in may
        /\ slot # "none" /\ known = "initialised"
    BY DEF IInv, Placed, CardKnown, InitSteps, WriteSteps, Silent
  <2>4. done \in Nat /\ done + 1 \in 1 .. asked.count /\ asked.sector + done \in Nat
    <3>1. \A a, n \in Nat : \A c \in 1 .. n :
            n - c \in Nat /\ (n - c) + 1 \in 1 .. n /\ a + (n - c) \in Nat
      OBVIOUS
    <3>2. asked.sector \in Nat /\ asked.count \in Nat /\ count \in 1 .. asked.count
      BY <2>1, <2>3
    <3> QED
      BY <3>1, <3>2 DEF done
  <2>5. Where(sector) = asked.sector + done
    BY <2>3, <2>4, WhereIs DEF IInv, CardKnown, InitSteps
  <2>6. Current = asked.data[done + 1]
    BY DEF Current, done
  <2>7. pending' = <<asked.sector + done, asked.data[done + 1]>>
    BY <2>5, <2>6
  <2>8. asked.sector + (done + 1) - 1 = asked.sector + done
    BY <2>1, <2>4
  <2>9. pending' \in may
    BY <2>3, <2>4, <2>7, <2>8
  <2>10. pending' \in Sector \X Data
    BY <2>9 DEF IInv, TypeOK
  <2>11. TypeOK'
    BY <2>10 DEF IInv, TypeOK, fixed, WriteSteps
  <2>12. Placed'
    BY <2>1, <2>2 DEF IInv, Placed, fixed, InitSteps, ReadSteps, WriteSteps
  <2>13. CardKnown'
    BY <2>1, <2>3 DEF IInv, CardKnown, fixed, InitSteps
  <2>14. BusyWith'
    BY <2>2, <2>3, <2>7, <2>9 DEF BusyWith, fixed
  <2>15. Busy'
    BY <2>7 DEF Busy, NoWrite
  <2>16. BlocksDone' /\ OkMeansDone'
    BY <2>1, <2>2, <2>15
       DEF IInv, BlocksDone, OkMeansDone, fixed, ReadSteps, WriteSteps
  <2> QED
    BY <2>11, <2>12, <2>13, <2>14, <2>16 DEF IInv
<1> QED
  BY <1>1, <1>2

LEMMA WaitStoredStep == ASSUME IInv, WaitStored PROVE IInv'
<1> USE DEF WaitStored
<1>1. CASE TooSlow
  BY <1>1, Fails DEF TooSlow, CardFails, IInv, TypeOK, WriteSteps
<1>2. CASE ~Busy /\ NextBlock("cmd24") /\ UNCHANGED cardVars
  <2> USE <1>2 DEF cardVars
  <2>1. /\ UNCHANGED <<ByBlocks, Unit>> /\ Silent' = Silent
        /\ \A i : Of(i)' = Of(i)
        /\ asked.sector + asked.count <= SECTORS
        /\ asked.sector \in Nat /\ asked.count \in Nat
    BY TransferKeeps
  <2>2. /\ done \in Nat /\ done' = done + 1 /\ count \in 1 .. asked.count
        /\ sector' = (asked.sector + done') * Unit /\ sector' \in Nat
        /\ count' \in Nat
        /\ \/ count' \in 1 .. asked.count /\ pc' = "cmd24" /\ res' = res
           \/ done' = asked.count /\ pc' = "idle" /\ res' = "RES_OK"
    BY NextBlockKeeps DEF WriteSteps
  <2>3. ~Busy' /\ ~STA_NOINIT /\ asked.op = "write"
    BY DEF IInv, Placed, Busy, WriteSteps
  <2>4. ~moved => \A i \in 1 .. done' : asked.data[i] = Of(i)
    BY <2>2 DEF IInv, BlocksDone, WriteSteps
  <2>5. TypeOK'
    BY <2>2 DEF IInv, TypeOK, fixed, WriteSteps
  <2>6. Placed'
    BY <2>1, <2>2, <2>3 DEF IInv, Placed, fixed, InitSteps, ReadSteps, WriteSteps
  <2>7. CardKnown'
    BY <2>1, <2>2, <2>3 DEF IInv, CardKnown, fixed, InitSteps
  <2>8. BusyWith'
    BY <2>2, <2>3 DEF BusyWith
  <2>9. BlocksDone'
    BY <2>1, <2>2, <2>4 DEF BlocksDone, fixed, ReadSteps, WriteSteps
  <2>10. OkMeansDone'
    BY <2>1, <2>2, <2>3, <2>4 DEF OkMeansDone, fixed
  <2> QED
    BY <2>5, <2>6, <2>7, <2>8, <2>9, <2>10 DEF IInv
<1> QED
  BY <1>1, <1>2

LEMMA SyncStep == ASSUME IInv, Sync PROVE IInv'
<1> USE DEF Sync
<1>1. CASE TooSlow
  BY <1>1, Fails DEF TooSlow, CardFails, IInv, TypeOK
<1>2. CASE ~Busy /\ Return("RES_OK") /\ UNCHANGED cardVars
  <2> USE <1>2 DEF cardVars, Return
  <2>1. /\ UNCHANGED <<ByBlocks, Unit>> /\ Silent' = Silent
    BY TransferKeeps
  <2>2. TypeOK'
    BY DEF IInv, TypeOK, fixed
  <2>3. Placed' /\ asked.op = "sync" /\ ~Busy'
    BY DEF IInv, Placed, Busy, fixed, InitSteps, ReadSteps, WriteSteps
  <2>4. CardKnown'
    BY <2>1, <2>3 DEF IInv, CardKnown, fixed, InitSteps
  <2>5. BusyWith' /\ BlocksDone' /\ OkMeansDone'
    BY <2>3 DEF BusyWith, BlocksDone, OkMeansDone, fixed, ReadSteps, WriteSteps
  <2> QED
    BY <2>2, <2>3, <2>4, <2>5 DEF IInv
<1> QED
  BY <1>1, <1>2

-----------------------------------------------------------------------------
LEMMA Inductive == IInv /\ [Next]_vars => IInv'
<1> SUFFICES ASSUME IInv, [Next]_vars PROVE IInv'
  OBVIOUS
<1>1. CASE InitStep
  BY <1>1, ResetStep, VersionStep, EchoStep, AwaitStep, CapacityStep, OcrStep,
     ProbeStep, StartOldStep DEF InitStep
<1>2. CASE TransferStep
  BY <1>2, ReadCommandStep, TokenStep, ReadBlockStep, WriteCommandStep,
     SendBlockStep, WaitStoredStep, SyncStep DEF TransferStep
<1>3. CASE Call
  BY <1>3, CallInitStep, CallReadStep, CallWriteStep, CallSyncStep DEF Call
<1>4. CASE CardAlone /\ UNCHANGED diskVars
  BY <1>4, WarmStep, StoreStep DEF CardAlone
<1>5. CASE Hand
  BY <1>5, HandStep
<1>6. CASE UNCHANGED vars
  <2> USE <1>6 DEF vars, cardVars, diskVars, callVars
  <2>1. TypeOK'
    BY DEF IInv, TypeOK
  <2>2. Placed' /\ CardKnown'
    BY DEF IInv, Placed, CardKnown, Silent, Busy, ByBlocks, Unit, done
  <2>3. BusyWith' /\ BlocksDone' /\ OkMeansDone'
    BY DEF IInv, BusyWith, BlocksDone, OkMeansDone, Busy, Of, ByBlocks, done
  <2> QED
    BY <2>1, <2>2, <2>3 DEF IInv
<1> QED
  BY <1>1, <1>2, <1>3, <1>4, <1>5, <1>6 DEF Next, Driver

(* The driver knows the card and where in the request it is, always.         *)
THEOREM DiskInvariant == Spec => []IInv
<1>1. Init => IInv
  BY Initially
<1>2. IInv /\ [Next]_vars => IInv'
  BY Inductive
<1> QED
  BY <1>1, <1>2, PTL DEF Spec

(* The types of the driver's and the card's state.                          *)
THEOREM DiskTypes == Spec => []TypeOK
<1>1. IInv => TypeOK
  BY DEF IInv
<1> QED
  BY <1>1, DiskInvariant, PTL

(* Success of a call means that it did what it was asked for, for cards of    *)
(* any kind, number and size of sectors, and for requests of any length.    *)
THEOREM DiskOkMeansDone == Spec => []OkMeansDone
<1>1. IInv => OkMeansDone
  BY DEF IInv
<1> QED
  BY <1>1, DiskInvariant, PTL

LEMMA OnlyStoreWrites ==
  ASSUME IInv, [Next]_vars, content' # content, slot' = slot
  PROVE  /\ known = "initialised"
         /\ \E p \in may : content' = [content EXCEPT ![p[1]] = p[2]]
<1>1. CASE InitStep
  BY <1>1 DEF InitStep, Reset, Version, Echo, Await, Capacity, Ocr, Probe,
              StartOld, Command, Phase, Send, cardVars
<1>2. CASE TransferStep
  BY <1>2 DEF TransferStep, ReadCommand, Token, ReadBlock, WriteCommand, SendBlock,
              WaitStored, Sync, TooSlow, CardFails, Send, cardVars
<1>3. CASE Call
  BY <1>3 DEF Call, CallInit, CallRead, CallWrite, CallSync, Begins
<1>4. CASE CardAlone
  BY <1>4 DEF CardAlone, Warm, Store, IInv, BusyWith
<1>5. CASE Hand
  BY <1>5 DEF Hand, Pull, Insert
<1>6. CASE UNCHANGED vars
  BY <1>6 DEF vars, cardVars
<1> QED
  BY <1>1, <1>2, <1>3, <1>4, <1>5, <1>6 DEF Next, Driver

(* Nothing is ever stored but what the last write asked for of the very card  *)
(* in the slot, and nothing on a card that disk_initialize has not found     *)
(* since it was put in, whatever cards are exchanged and whatever fails.     *)
THEOREM DiskOnlyAsked == Spec => OnlyAsked
<1>1. IInv /\ [Next]_vars =>
        [content' # content /\ slot' = slot =>
           /\ known = "initialised"
           /\ \E p \in may : content' = [content EXCEPT ![p[1]] = p[2]]]_vars
  BY OnlyStoreWrites
<1> QED
  BY <1>1, DiskInvariant, PTL DEF Spec, OnlyAsked

=============================================================================
