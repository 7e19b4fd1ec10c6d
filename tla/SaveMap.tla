-------------------------------- MODULE SaveMap --------------------------------
(***************************************************************************)
(* SaveMapToSD and LoadMapFromSD (software/main.c): the world is written to *)
(* a file of the SD card as the player record followed by a run-length      *)
(* code of its blocks, through a buffer, and read back the same way.        *)
(*                                                                         *)
(* A byte of the code is a block (most significant bit 0) or the flag       *)
(* 0x80|n, followed by the block that is repeated n times.  The bytes are   *)
(* natural numbers; RunFlag(n) is MAX_RUN + 1 + n, which is 0x80|n for the  *)
(* code's MAX_RUN of 127.                                                  *)
(*                                                                         *)
(* The FAT library and the card are external.  A write may be cut short     *)
(* (card full or pulled out), after which nothing more is written to that   *)
(* file; a read may be cut short in the same way; the directory entry is    *)
(* truncated when the file is opened for writing and updated by a           *)
(* successful f_close only; the power may go off at any moment.            *)
(***************************************************************************)
EXTENDS Integers, Sequences

CONSTANTS
  MAP_SIZE,      (* blocks in the world: 2 MB in the code       *)
  MAX_RUN,       (* longest run: 127 in the code                *)
  SD_BUF_SIZE,   (* bytes buffered between card accesses: 512   *)
  Block,         (* block types                                 *)
  Player         (* values of the player record                 *)

ASSUME SizeAssumption  == /\ MAP_SIZE \in Nat \ {0}
                          /\ MAX_RUN \in Nat /\ MAX_RUN >= 3
                          /\ SD_BUF_SIZE \in Nat /\ SD_BUF_SIZE >= 2
(* Block types never reach the flag bit: they are 0..15 in the code.       *)
ASSUME BlockAssumption == Block \subseteq 0..MAX_RUN /\ Block # {}
ASSUME PlayerAssumption == Player # {}

VARIABLES
  world, player,         (* sram_8_ptr and the player record               *)
  card,                  (* the slot's file as its directory entry has it  *)
  pc, success,
  file,                  (* what the open file holds, sync'd or not        *)
  io_error,              (* the file takes or gives no more bytes          *)
  buffer,                (* save: bytes not yet written; load: not yet used *)
  i, current_block, run_count,          (* save *)
  file_ptr, sram_ptr_idx, count,        (* load *)
  saved,                 (* history: world and player when the last save    *)
                         (* opened the file                                *)
  complete               (* history: that save succeeded and was closed     *)

history  == <<saved, complete>>
fileVars == <<file, buffer>>
saveVars == <<i, current_block, run_count>>
loadVars == <<file_ptr, sram_ptr_idx, count>>
gameVars == <<world, player>>
vars == <<gameVars, card, pc, success, io_error, fileVars, saveVars,
          loadVars, history>>

Index == 0..MAP_SIZE - 1
World == [Index -> Block]

RunFlag(n)   == MAX_RUN + 1 + n
IsFlag(b)    == b > MAX_RUN
RunLength(b) == b - (MAX_RUN + 1)

NoFile    == [exists |-> FALSE, header |-> <<>>, bytes |-> <<>>]
EmptyFile == [exists |-> TRUE,  header |-> <<>>, bytes |-> <<>>]

(* pc: "idle" between calls; otherwise where the call has got to.  A call    *)
(* ends in "saved" or "loaded", with its return value in success.          *)
Resting == {"idle", "saved", "loaded"}
Stages  == Resting \cup {"scan", "tail", "save_close", "tag", "id", "load_close"}

AnyBlock == CHOOSE b \in Block : TRUE

(* The locals of a call are gone when it returns. *)
LocalsGone ==
  /\ file' = NoFile /\ buffer' = <<>>
  /\ i' = 0 /\ current_block' = AnyBlock /\ run_count' = 0
  /\ file_ptr' = 0 /\ sram_ptr_idx' = 0 /\ count' = 0

Init ==
  /\ world \in World /\ player \in Player
  /\ card = NoFile
  /\ pc = "idle" /\ success = 1 /\ io_error = FALSE
  /\ file = NoFile /\ buffer = <<>>
  /\ i = 0 /\ current_block = AnyBlock /\ run_count = 0
  /\ file_ptr = 0 /\ sram_ptr_idx = 0 /\ count = 0
  /\ saved = [world |-> world, player |-> player] /\ complete = FALSE

(* The game goes on between calls. *)
Play ==
  /\ pc \in Resting
  /\ world' \in World /\ player' \in Player
  /\ pc' = "idle"
  /\ UNCHANGED <<card, success, io_error, fileVars, saveVars, loadVars,
                 history>>

-----------------------------------------------------------------------------
(* SaveMapToSD *)

(* The card is not mounted or f_open fails: the call returns 0.  A failing    *)
(* f_open may have truncated the file already.                             *)
SaveCannotOpen ==
  /\ pc \in Resting
  /\ success' = 0 /\ pc' = "saved"
  /\ \/ UNCHANGED <<card, complete>>
     \/ card' = EmptyFile /\ complete' = FALSE
  /\ UNCHANGED <<gameVars, io_error, fileVars, saveVars, loadVars, saved>>

(* f_open with FA_CREATE_ALWAYS, then the player record.  If the record is   *)
(* cut short the file is closed at once and the call returns 0.            *)
SaveOpen ==
  /\ pc \in Resting
  /\ card' = EmptyFile
  /\ saved' = [world |-> world, player |-> player] /\ complete' = FALSE
  /\ buffer' = <<>>
  /\ \/ /\ file' = [EmptyFile EXCEPT !.header = <<player>>]
        /\ success' = 1 /\ io_error' = FALSE /\ pc' = "scan"
     \/ /\ file' = EmptyFile
        /\ success' = 0 /\ io_error' = TRUE /\ pc' = "save_close"
  /\ i' = 1 /\ current_block' = world[0] /\ run_count' = 1
  /\ UNCHANGED <<gameVars, loadVars>>

(* The bytes that code the run counted so far. *)
RunCode ==
  IF run_count >= 3
    THEN <<RunFlag(run_count), current_block>>
    ELSE [k \in 1..run_count |-> current_block]

(* Mutant of Write: the count f_write reports is not looked at. *)
WriteUnchecked(data) ==
  \E bw \in 0..Len(data) :
    /\ io_error => bw = 0
    /\ file' = [file EXCEPT !.bytes = @ \o SubSeq(data, 1, bw)]
    /\ io_error' = (bw < Len(data))
    /\ UNCHANGED success

(* f_write: all of data reaches the file, or a prefix of it and then no more. *)
Write(data) ==
  \E bw \in 0..Len(data) :
    /\ io_error => bw = 0
    /\ file' = [file EXCEPT !.bytes = @ \o SubSeq(data, 1, bw)]
    /\ io_error' = (bw < Len(data))
    /\ success' = IF bw < Len(data) THEN 0 ELSE success

(* PUSH_BYTE for one or two bytes: at most one buffer is filled, and it is    *)
(* emptied whether or not the card takes it.                               *)
PushBytes(bytes) ==
  LET all == buffer \o bytes IN
  IF Len(all) < SD_BUF_SIZE
    THEN buffer' = all /\ UNCHANGED <<file, io_error, success>>
    ELSE /\ Write(SubSeq(all, 1, SD_BUF_SIZE))
         /\ buffer' = SubSeq(all, SD_BUF_SIZE + 1, Len(all))

(* The scan goes on after a failed write. *)
ExtendRun ==
  /\ pc = "scan" /\ i < MAP_SIZE
  /\ world[i] = current_block /\ run_count < MAX_RUN
  /\ run_count' = run_count + 1
  /\ i' = i + 1
  /\ UNCHANGED <<gameVars, card, pc, success, file, io_error, buffer,
                 current_block, loadVars, history>>

EndRun ==
  /\ pc = "scan" /\ i < MAP_SIZE
  /\ ~(world[i] = current_block /\ run_count < MAX_RUN)
  /\ PushBytes(RunCode)
  /\ current_block' = world[i]
  /\ run_count' = 1
  /\ i' = i + 1
  /\ UNCHANGED <<gameVars, card, pc, loadVars, history>>

LastRun ==
  /\ pc = "scan" /\ i = MAP_SIZE
  /\ PushBytes(RunCode)
  /\ pc' = "tail"
  /\ UNCHANGED <<gameVars, card, saveVars, loadVars, history>>

(* What is left in the buffer is written unless a write has failed before. *)
FlushTail ==
  /\ pc = "tail"
  /\ IF buffer # <<>> /\ success = 1
       THEN Write(buffer)
       ELSE UNCHANGED <<file, io_error, success>>
  /\ pc' = "save_close"
  /\ UNCHANGED <<gameVars, card, buffer, saveVars, loadVars, history>>

(* The result of f_close is not looked at.  If it fails, the directory entry *)
(* keeps the length it was given when the file was opened: zero.           *)
SaveClose ==
  /\ pc = "save_close"
  /\ \/ card' = file /\ complete' = (success = 1)
     \/ UNCHANGED <<card, complete>>
  /\ pc' = "saved" /\ LocalsGone
  /\ UNCHANGED <<gameVars, success, io_error, saved>>

-----------------------------------------------------------------------------
(* LoadMapFromSD *)

LoadCannotOpen ==
  /\ pc \in Resting
  /\ success' = 0 /\ pc' = "loaded" /\ io_error' = card.exists
  /\ UNCHANGED <<gameVars, card, fileVars, saveVars, loadVars, history>>

(* The player record is read straight into place; a record cut short has     *)
(* overwritten a part of it, so its value is then anyone's.                *)
LoadOpen ==
  /\ pc \in Resting /\ card.exists
  /\ buffer' = <<>> /\ file_ptr' = 0 /\ sram_ptr_idx' = 0 /\ count' = 0
  /\ \/ /\ card.header # <<>>
        /\ player' = card.header[1] /\ file' = card
        /\ success' = 1 /\ io_error' = FALSE /\ pc' = "tag"
     \/ /\ player' \in Player /\ file' = NoFile
        /\ success' = 0 /\ io_error' = (card.header # <<>>)
        /\ pc' = "loaded"
  /\ UNCHANGED <<world, card, saveVars, history>>

(* FETCH_BYTE as far as the card is concerned: the bytes at hand, refilled    *)
(* by f_read when there are none.  An empty refill is the end of the file   *)
(* or an error.                                                            *)
Refill ==
  IF buffer # <<>>
    THEN {[bytes |-> buffer, ptr |-> file_ptr, err |-> io_error]}
    ELSE LET left == Len(file.bytes) - file_ptr
             most == IF left < SD_BUF_SIZE THEN left ELSE SD_BUF_SIZE
         IN {[bytes |-> SubSeq(file.bytes, file_ptr + 1, file_ptr + br),
              ptr   |-> file_ptr + br,
              err   |-> io_error \/ br < most] :
                br \in IF io_error THEN {0} ELSE 0..most}

(* Mutant of FetchFails: the end of the file ends the loop like a full world. *)
FetchFailsQuietly(r) ==
  /\ r.bytes = <<>>
  /\ pc' = "load_close"
  /\ buffer' = <<>> /\ file_ptr' = r.ptr /\ io_error' = r.err
  /\ UNCHANGED <<world, success, sram_ptr_idx, count>>

(* Mutant of FetchFails: the loop is not left at the end of the file. *)
FetchFailsAgain(r) ==
  /\ r.bytes = <<>>
  /\ success' = 0
  /\ buffer' = <<>> /\ file_ptr' = r.ptr /\ io_error' = r.err
  /\ UNCHANGED <<world, pc, sram_ptr_idx, count>>

FetchFails(r) ==
  /\ r.bytes = <<>>
  /\ success' = 0 /\ pc' = "load_close"
  /\ buffer' = <<>> /\ file_ptr' = r.ptr /\ io_error' = r.err
  /\ UNCHANGED <<world, sram_ptr_idx, count>>

Fetched(r) ==
  /\ r.bytes # <<>>
  /\ buffer' = Tail(r.bytes) /\ file_ptr' = r.ptr /\ io_error' = r.err
  /\ UNCHANGED success

Smaller(a, b) == IF a < b THEN a ELSE b

(* n times block b from sram_ptr_idx on, never past the end of the world. *)
StoreRun(b, n) ==
  LET last == Smaller(sram_ptr_idx + n, MAP_SIZE) IN
  /\ world' = [k \in Index |-> IF k >= sram_ptr_idx /\ k < last
                                 THEN b ELSE world[k]]
  /\ sram_ptr_idx' = last

LoadTag ==
  /\ pc = "tag" /\ sram_ptr_idx < MAP_SIZE
  /\ \E r \in Refill :
       \/ FetchFails(r)
       \/ /\ Fetched(r)
          /\ IF IsFlag(Head(r.bytes))
               THEN /\ count' = RunLength(Head(r.bytes))
                    /\ pc' = "id"
                    /\ UNCHANGED <<world, sram_ptr_idx>>
               ELSE /\ StoreRun(Head(r.bytes), 1)
                    /\ UNCHANGED <<pc, count>>
  /\ UNCHANGED <<player, card, file, saveVars, history>>

LoadRun ==
  /\ pc = "id"
  /\ \E r \in Refill :
       \/ FetchFails(r)
       \/ /\ Fetched(r)
          /\ StoreRun(Head(r.bytes), count)
          /\ pc' = "tag"
          /\ UNCHANGED count
  /\ UNCHANGED <<player, card, file, saveVars, history>>

LoadFull ==
  /\ pc = "tag" /\ sram_ptr_idx = MAP_SIZE
  /\ pc' = "load_close"
  /\ UNCHANGED <<gameVars, card, success, io_error, fileVars, saveVars,
                 loadVars, history>>

LoadClose ==
  /\ pc = "load_close"
  /\ pc' = "loaded" /\ LocalsGone
  /\ UNCHANGED <<gameVars, card, success, io_error, history>>

-----------------------------------------------------------------------------
(* Only the card survives. *)
PowerOff ==
  /\ pc \notin Resting
  /\ world' \in World /\ player' \in Player
  /\ pc' = "idle" /\ LocalsGone
  /\ UNCHANGED <<card, success, io_error, history>>

SaveStep == ExtendRun \/ EndRun \/ LastRun \/ FlushTail \/ SaveClose
LoadStep == LoadTag \/ LoadRun \/ LoadFull \/ LoadClose

Next ==
  \/ Play
  \/ SaveCannotOpen \/ SaveOpen
  \/ SaveStep
  \/ LoadCannotOpen \/ LoadOpen
  \/ LoadStep
  \/ PowerOff

Spec == Init /\ [][Next]_vars

FairSpec == Spec /\ WF_vars(SaveStep) /\ WF_vars(LoadStep)

-----------------------------------------------------------------------------
File == [exists : BOOLEAN, header : {<<>>} \cup {<<p>> : p \in Player},
         bytes : Seq(0..2 * MAX_RUN + 1)]

TypeOK ==
  /\ world \in World /\ player \in Player
  /\ card \in File /\ file \in File
  /\ pc \in Stages /\ success \in {0, 1} /\ io_error \in BOOLEAN
  /\ buffer \in Seq(0..2 * MAX_RUN + 1) /\ Len(buffer) < SD_BUF_SIZE
  /\ i \in 0..MAP_SIZE /\ current_block \in Block /\ run_count \in 0..MAX_RUN
  /\ file_ptr \in 0..Len(file.bytes)
  /\ sram_ptr_idx \in 0..MAP_SIZE /\ count \in 0..MAX_RUN
  /\ saved \in [world : World, player : Player] /\ complete \in BOOLEAN

(* A load that returns 1 has restored exactly the world and the player of    *)
(* the save that last created the file, whatever was cut short in between:  *)
(* no prefix of a save, and no save that failed, passes for a whole one.    *)
LoadRestoresSave ==
  pc = "loaded" /\ success = 1 =>
    world = saved.world /\ player = saved.player

(* A save that returned 1 and was closed can always be loaded: a load of it  *)
(* fails only for an error of the card while reading.                      *)
CompleteSaveLoads == pc = "loaded" /\ success = 0 /\ complete => io_error

(* Each call returns, also at a premature end of the file. *)
CallReturns == pc \notin Resting ~> pc \in Resting

(* "Save Complete!" (main.c, SaveMapToSD): a save that returns 1 is on the   *)
(* card.                                                                   *)
ReportedSaveIsOnCard == pc = "saved" /\ success = 1 => complete
=============================================================================
