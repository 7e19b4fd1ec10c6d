--------------------------------- MODULE Disk ---------------------------------
(***************************************************************************)
(* The driver of the SD card, software/ff16/source/diskio.c, over a card     *)
(* that may be slow, silent, pulled out or exchanged at any time.  A step    *)
(* is one command with its answer, or one phase of a block's transfer.      *)
(*                                                                         *)
(* ACMD41 is one step with the CMD55 before it: a card lost between the two  *)
(* answers the pair with 0xFF as one lost before does.                      *)
(***************************************************************************)
EXTENDS SDCard

CONSTANTS
  Reads,        (* requests <<sector, count>> and <<sector, data>> that      *)
  Writes        (* FatFs makes; data is a sequence                          *)

ASSUME RequestAssumption ==
  /\ \A q \in Reads : /\ q[1] \in Nat /\ q[2] \in Nat \ {0}
                      /\ q[1] + q[2] <= SECTORS
  /\ \A q \in Writes : /\ q[1] \in Nat /\ q[2] \in Seq(Data) \ {<<>>}
                       /\ q[1] + Len(q[2]) <= SECTORS

VARIABLES
  STA_NOINIT,   (* the flag of Stat; STA_NODISK is never set                *)
  CardType,     (* 0 none, 1 MMC, 2 SD version 1, 4 SD, 12 SD by sectors     *)
  pc,           (* "idle" between calls, or the step the call has come to   *)
  ty,
  sector,       (* address of the next block                               *)
  count,        (* blocks still to transfer                                *)
  buff,         (* blocks read so far                                      *)
  asked,        (* the request: kind of call, first sector, data or number  *)
  res,          (* result of the last call                                 *)
  may,          (* history: the <<sector, data>> that the last write asked  *)
                (* for of the card in the slot, and the one that the card   *)
                (* was busy with then                                      *)
  known         (* history: how far disk_initialize has come with the card  *)
                (* in the slot: "new" before CMD0, "greeted" since then,    *)
                (* "initialised" since it returned a card type             *)

callVars  == <<sector, count, buff, asked, may>>
statVars  == <<STA_NOINIT, CardType, known>>
diskVars  == <<statVars, pc, ty, callVars, res>>
vars      == <<cardVars, diskVars>>

InitSteps == {"cmd0", "cmd8", "echo", "acmd41", "cmd58", "ocr", "probe", "start"}
ReadSteps  == {"cmd17", "token", "data"}
WriteSteps == {"cmd24", "send", "store"}

ByBlocks == CardType = 12
Unit     == IF ByBlocks THEN 1 ELSE SIZE

Init == /\ CardInit
        /\ STA_NOINIT = TRUE /\ CardType = 0 /\ ty = 0
        /\ pc = "idle" /\ sector = 0 /\ count = 0 /\ buff = <<>>
        /\ asked = [op |-> "none", sector |-> 0, data |-> <<>>, count |-> 0]
        /\ res = "none" /\ may = {} /\ known = "new"

-----------------------------------------------------------------------------
(* Calls *)

Begins(op, s, data, n) ==
  /\ pc = "idle" /\ moved' = FALSE /\ missed' = FALSE
  /\ asked' = [op |-> op, sector |-> s, data |-> data, count |-> n]
  /\ sector' = s * Unit /\ count' = n /\ buff' = <<>>
  /\ UNCHANGED <<slot, mode, content, pending, statVars>>

CallInit == /\ Begins("init", 0, <<>>, 0)
            /\ pc' = "cmd0" /\ ty' = 0
            /\ UNCHANGED <<may, res>>

(* A call to a card that is not initialised returns at once. *)
Transfer(first) ==
  /\ UNCHANGED ty
  /\ IF STA_NOINIT THEN res' = "RES_NOTRDY" /\ UNCHANGED pc
                   ELSE pc' = first /\ UNCHANGED res

CallRead(s, n) ==
  Begins("read", s, <<>>, n) /\ Transfer("cmd17") /\ UNCHANGED may

CallWrite(s, data) ==
  /\ Begins("write", s, data, Len(data)) /\ Transfer("cmd24")
  /\ may' = IF STA_NOINIT THEN may
            ELSE {<<s + i - 1, data[i]>> : i \in 1 .. Len(data)}
                 \cup (IF Busy THEN {pending} ELSE {})

(* CTRL_SYNC *)
CallSync == Begins("sync", 0, <<>>, 0) /\ Transfer("sync") /\ UNCHANGED may

-----------------------------------------------------------------------------
(* disk_initialize *)

Learns(type) ==
  known' = IF type # 0 /\ known = "greeted" THEN "initialised" ELSE known

(* Mutant of Finish: a flag once cleared stays clear when the next card fails. *)
FinishStaysReady(type) ==
  /\ pc' = "idle" /\ CardType' = type
  /\ STA_NOINIT' = (type = 0 /\ STA_NOINIT)
  /\ res' = IF type = 0 THEN "STA_NOINIT" ELSE "RES_OK"
  /\ Learns(type)
  /\ UNCHANGED ty

Finish(type) ==
  /\ pc' = "idle" /\ CardType' = type
  /\ STA_NOINIT' = (type = 0)
  /\ res' = IF type = 0 THEN "STA_NOINIT" ELSE "RES_OK"
  /\ Learns(type)
  /\ UNCHANGED ty

Goto(step, type) == pc' = step /\ ty' = type /\ UNCHANGED <<statVars, res>>

Command(step, cmd, arg, r) == pc = step /\ Send(cmd, arg, r) /\ UNCHANGED callVars
Phase(step) == pc = step /\ UNCHANGED <<cardVars, callVars>>

Reset == \E r \in {1, 255} :
  /\ Command("cmd0", "CMD0", 0, r)
  /\ IF r = 1 THEN /\ pc' = "cmd8" /\ ty' = 0 /\ known' = "greeted"
                   /\ UNCHANGED <<STA_NOINIT, CardType, res>>
              ELSE Finish(0)

Version == \E r \in {1, 5, 255} :
  /\ Command("cmd8", "CMD8", 0, r)
  /\ IF r = 1 THEN Goto("echo", 0) ELSE Goto("probe", 0)

(* The pattern 0x1AA comes back, or bytes 0xFF from a slot gone silent.     *)
Echo == Phase("echo") /\ IF Silent THEN Finish(0) ELSE Goto("acmd41", 0)

(* Mutant of Await: the host does not say that it can address by sectors.   *)
AwaitPlain == \E r \in {0, 1, 5, 255} :
  /\ Command("acmd41", "ACMD41", 0, r)
  /\ IF r = 0 THEN Goto("cmd58", 0) ELSE Goto("acmd41", 0)

Await == \E r \in {0, 1, 5, 255} :
  /\ Command("acmd41", "ACMD41", HCS, r)
  /\ IF r = 0 THEN Goto("cmd58", 0) ELSE Goto("acmd41", 0)

Capacity == \E r \in {0, 1, 255} :
  /\ Command("cmd58", "CMD58", 0, r)
  /\ IF r = 0 THEN Goto("ocr", 0) ELSE Finish(0)

(* Of a silent slot's 0xFF the capacity bit is set, too. *)
Ocr == Phase("ocr") /\ Finish(IF Silent \/ slot = "hc" THEN 12 ELSE 4)

Probe == \E r \in {0, 1, 5, 255} :
  /\ Command("probe", "ACMD41", 0, r)
  /\ Goto("start", IF r <= 1 THEN 2 ELSE 1)

StartOld == \E r \in {0, 1, 5, 255} :
  /\ Command("start", IF ty = 2 THEN "ACMD41" ELSE "CMD1", 0, r)
  /\ IF r = 0 THEN Finish(ty) ELSE Goto("start", ty)

InitStep == \/ Reset \/ Version \/ Echo \/ Await \/ Capacity \/ Ocr
            \/ Probe \/ StartOld

-----------------------------------------------------------------------------
(* disk_read, disk_write and disk_ioctl *)

Return(r) == pc' = "idle" /\ res' = r /\ UNCHANGED <<sector, count>>

NextBlock(first) ==
  /\ sector' = sector + Unit /\ count' = count - 1
  /\ IF count = 1 THEN pc' = "idle" /\ res' = "RES_OK"
                  ELSE pc' = first /\ UNCHANGED res

(* The card does not do its part: of a silent one nothing is expected.      *)
CardFails == /\ missed' = (missed \/ ~Silent)
             /\ UNCHANGED <<slot, mode, content, pending, moved>>

fixed == <<statVars, ty, asked, may>>

ReadCommand == \E r \in {0, 5, 64, 255} :
  /\ pc = "cmd17" /\ Send("CMD17", sector, r)
  /\ IF r = 0 THEN pc' = "token" /\ UNCHANGED <<sector, count, res>>
              ELSE Return("RES_ERROR")
  /\ UNCHANGED <<fixed, buff>>

(* The token comes, or the wait for it runs out. *)
Token ==
  /\ pc = "token"
  /\ \/ ~Silent /\ pc' = "data" /\ UNCHANGED <<cardVars, sector, count, res>>
     \/ /\ Return("RES_ERROR")
        /\ CardFails
  /\ UNCHANGED <<fixed, buff>>

(* 512 bytes, the check sum thrown away. *)
ReadBlock ==
  /\ pc = "data"
  /\ buff' = Append(buff, IF Silent THEN FF ELSE content[Where(sector)])
  /\ NextBlock("cmd17")
  /\ UNCHANGED <<fixed, cardVars>>

WriteCommand == \E r \in {0, 5, 64, 255} :
  /\ pc = "cmd24" /\ Send("CMD24", sector, r)
  /\ IF r = 0 THEN pc' = "send" /\ UNCHANGED <<sector, count, res>>
              ELSE Return("RES_ERROR")
  /\ UNCHANGED <<fixed, buff>>

(* The block of the caller's data that is next. *)
Current == asked.data[asked.count - count + 1]

(* The block goes out, and the card accepts it, or it does not. *)
SendBlock ==
  /\ pc = "send"
  /\ \/ /\ ~Silent
        /\ pending' = <<Where(sector), Current>>
        /\ pc' = "store"
        /\ UNCHANGED <<slot, mode, content, moved, missed, sector, count, res>>
     \/ /\ Return("RES_ERROR")
        /\ CardFails
  /\ UNCHANGED <<fixed, buff>>

TooSlow == Busy /\ Return("RES_ERROR") /\ CardFails

(* Mutant of WaitStored: the block counts as written when it is accepted.   *)
WaitStoredNot ==
  pc = "store" /\ NextBlock("cmd24") /\ UNCHANGED <<cardVars, fixed, buff>>

(* An empty slot looks ready. *)
WaitStored ==
  /\ pc = "store"
  /\ TooSlow \/ (~Busy /\ NextBlock("cmd24") /\ UNCHANGED cardVars)
  /\ UNCHANGED <<fixed, buff>>

Sync ==
  /\ pc = "sync"
  /\ TooSlow \/ (~Busy /\ Return("RES_OK") /\ UNCHANGED cardVars)
  /\ UNCHANGED <<fixed, buff>>

TransferStep == ReadCommand \/ Token \/ ReadBlock
                \/ WriteCommand \/ SendBlock \/ WaitStored \/ Sync

-----------------------------------------------------------------------------
Driver == InitStep \/ TransferStep

Call == \/ CallInit \/ CallSync
        \/ \E q \in Reads : CallRead(q[1], q[2])
        \/ \E q \in Writes : CallWrite(q[1], q[2])

CardAlone == Warm \/ Store

(* The driver does not notice: there is no switch it asks (STA_NODISK).      *)
Hand == /\ Pull \/ \E k \in Kinds : Insert(k)
        /\ may' = {} /\ known' = "new"
        /\ UNCHANGED <<STA_NOINIT, CardType, pc, ty, sector, count, buff, asked, res>>

Next == \/ Driver
        \/ Call
        \/ CardAlone /\ UNCHANGED diskVars
        \/ Hand

Spec == Init /\ [][Next]_vars

(* The processor runs; the card starts up and stores what it accepted.  A    *)
(* poll that changes nothing is no progress, and neither is a fault of the   *)
(* card: it may miss a command but is not bound to.                         *)
FairSpec == /\ Spec
            /\ WF_vars(Driver /\ UNCHANGED missed)
            /\ WF_vars(Warm /\ UNCHANGED diskVars)
            /\ WF_vars(Store /\ UNCHANGED diskVars)

-----------------------------------------------------------------------------
TypeOK ==
  /\ slot \in Kinds \cup {"none"} /\ mode \in {"sd", "idle", "starting", "ready"}
  /\ content \in Contents /\ pending \in (Sector \X Data) \cup {NoWrite}
  /\ moved \in BOOLEAN /\ missed \in BOOLEAN
  /\ STA_NOINIT \in BOOLEAN /\ CardType \in {0, 1, 2, 4, 12} /\ ty \in {0, 1, 2}
  /\ pc \in {"idle", "sync"} \cup InitSteps \cup ReadSteps \cup WriteSteps
  /\ sector \in Nat /\ count \in Nat /\ buff \in Seq(Data)
  /\ asked \in [op : {"none", "init", "read", "write", "sync"}, sector : Nat,
                 data : Seq(Data), count : Nat]
  /\ res \in {"none", "RES_OK", "RES_ERROR", "RES_NOTRDY", "STA_NOINIT"}
  /\ may \subseteq Sector \X Data
  /\ known \in {"new", "greeted", "initialised"}

(* A call that reports success did all it was asked for, whatever card was   *)
(* initialised by whatever way through disk_initialize, as long as nobody    *)
(* touched the card during the call: a read has delivered the sectors it      *)
(* names in their order, a write has them stored and not only accepted, and  *)
(* nothing is under way after a sync.  It hangs on the addressing: the card  *)
(* found by CMD8 and the OCR must be the one that CardType & 8 stands for.   *)
Of(i) == content[asked.sector + i - 1]
OkMeansDone ==
  pc = "idle" /\ res = "RES_OK" /\ ~moved =>
    /\ asked.op = "read"  => buff = [i \in 1 .. asked.count |-> Of(i)]
    /\ asked.op = "write" => ~Busy /\ \A i \in 1 .. asked.count : Of(i) = asked.data[i]
    /\ asked.op = "sync"  => ~Busy
    /\ asked.op = "init"  => mode = "ready" /\ (ByBlocks <=> slot = "hc")

(* A write, also one that fails half way, and one that the card goes on with *)
(* after the driver has given up, changes no sector but those it was asked   *)
(* for of the card that is in the slot, and puts nothing there but what it   *)
(* was asked for; and a card that disk_initialize has not found since it was *)
(* put in is not written at all, although Stat and CardType may still be     *)
(* those of the card before it, and CMD0 may have woken it up in a call of   *)
(* disk_initialize that failed further on.                                 *)
OnlyAsked ==
  [][content' # content /\ slot' = slot =>
       /\ known = "initialised"
       /\ \E p \in may : content' = [content EXCEPT ![p[1]] = p[2]]]_vars

(* Reads, writes and syncs return whatever becomes of the card.  The waits   *)
(* of disk_initialize for the end of the start-up have no bound: it returns  *)
(* if the card stays in and misses no command.  (A card of high capacity     *)
(* that misses CMD8 is taken for an old one and asked to start without HCS,  *)
(* which it never does; a slot emptied during the wait never answers.)      *)
CallsReturn ==
  /\ pc \in ReadSteps \cup WriteSteps \cup {"sync"} ~> pc = "idle"
  /\ pc \in InitSteps ~> (pc = "idle" \/ moved \/ missed)

-----------------------------------------------------------------------------
(* Why that is so.  The driver is where the request says ...                *)
done == asked.count - count

Placed ==
  /\ asked.sector + asked.count <= SECTORS
  /\ pc \in ReadSteps  => asked.op = "read" /\ Len(buff) = done
  /\ pc \in WriteSteps =>
       /\ asked.op = "write" /\ asked.count = Len(asked.data)
       /\ ~Silent => \A i \in 1 .. asked.count :
                       <<asked.sector + i - 1, asked.data[i]>> \in may
  /\ pc \in ReadSteps \cup WriteSteps =>
       /\ ~STA_NOINIT /\ count \in 1 .. asked.count
       /\ sector = (asked.sector + done) * Unit
  /\ pc = "sync" => asked.op = "sync"
  /\ pc \in InitSteps => asked.op = "init"

(* ... the card that answers is the one that was initialised: a card of high *)
(* capacity has not started before it was told to ...                       *)
CardKnown ==
  /\ slot = "none" => mode = "sd" /\ ~Busy
  /\ known = "new" <=> Silent
  /\ pc \notin InitSteps /\ ~STA_NOINIT /\ ~Silent =>
       (ByBlocks <=> slot = "hc") /\ known = "initialised"
  /\ pc \in {"cmd8", "probe", "start"} /\ slot = "hc" /\ ~Silent => mode = "idle"
  /\ pc = "start" => ty \in {1, 2}
  /\ ~moved => /\ pc \in InitSteps \ {"cmd0"} => ~Silent
               /\ pc = "ocr" => mode = "ready"
               /\ pc \in {"token", "data", "send", "store"} => ~Silent

(* ... what it is busy with was asked for, and nothing is when the next      *)
(* block's turn comes ...                                                   *)
BusyWith ==
  /\ Busy => pending \in may /\ known = "initialised"
  /\ pc \in {"token", "data", "send"} => ~Busy
  /\ pc \in {"cmd17", "cmd24"} /\ done > 0 => ~Busy
  /\ pc = "store" /\ Busy => pending = <<asked.sector + done, asked.data[done + 1]>>
  /\ pc = "idle" /\ res = "RES_OK" /\ asked.op = "read" => ~Busy

(* ... and the blocks done so far are done.                                *)
BlocksDone ==
  ~moved =>
    /\ pc \in ReadSteps  => \A i \in 1 .. done : buff[i] = Of(i)
    /\ pc \in WriteSteps => \A i \in 1 .. done : asked.data[i] = Of(i)
    /\ pc = "store" /\ ~Busy => asked.data[done + 1] = Of(done + 1)

IInv == TypeOK /\ Placed /\ CardKnown /\ BusyWith /\ BlocksDone /\ OkMeansDone
=============================================================================
