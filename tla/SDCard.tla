-------------------------------- MODULE SDCard --------------------------------
(***************************************************************************)
(* The SD card that software/ff16/source/diskio.c talks to over SPI, as     *)
(* far as the driver can tell: an external component.  A card that is put   *)
(* in has not been told to use SPI and stays silent until CMD0; an empty     *)
(* slot reads as bytes 0xFF, which look like "ready" and like no answer.    *)
(***************************************************************************)
EXTENDS Integers, Sequences

CONSTANTS
  SECTORS,      (* number of sectors of a card                             *)
  SIZE,         (* bytes of a sector: 512                                  *)
  Kinds,        (* "mmc"; "v1", an SD card of version 1; "sc" and "hc",     *)
                (* cards of version 2, standard and high capacity          *)
  Data,         (* what a sector can hold                                  *)
  FF,           (* the data a silent slot gives: all bytes 0xFF             *)
  Fresh         (* what a card holds that is put in                        *)

Sector   == 0 .. SECTORS - 1
Contents == [Sector -> Data]

ASSUME CardAssumption ==
  /\ SECTORS \in Nat \ {0} /\ SIZE \in Nat \ {0, 1}
  /\ Kinds \subseteq {"mmc", "v1", "sc", "hc"}
  /\ FF \in Data /\ Fresh \in Contents

NoWrite == <<>>
HCS == 1                (* bit 30 of the argument of ACMD41                 *)

VARIABLES
  slot,         (* the kind of the card in the slot, or "none"             *)
  mode,         (* "sd", "idle", "starting" or "ready"                     *)
  content,
  pending,      (* the write the card is busy with, or NoWrite             *)
  moved,        (* history: a card was pulled out or put in since the call  *)
                (* began                                                   *)
  missed        (* history: the card did not do its part since then         *)

cardVars == <<slot, mode, content, pending, moved, missed>>

Silent == slot = "none" \/ mode = "sd"
Busy   == pending # NoWrite

(* High capacity cards are addressed by sectors, all others by bytes.       *)
Valid(a) == IF slot = "hc" THEN a \in Sector
            ELSE a % SIZE = 0 /\ a \div SIZE \in Sector
Where(a) == IF slot = "hc" THEN a ELSE a \div SIZE

(* What a card answers to a command: 0, 1 while it is idle or starting, 5    *)
(* for a command it does not know, 64 for an address it does not have.  A    *)
(* card of high capacity does not start unless it is told, by the argument   *)
(* of ACMD41, that the host can address it.                                *)
Answer(cmd, arg) ==
  CASE cmd = "CMD0"                    -> 1
    [] cmd = "CMD8"                    -> IF slot \in {"sc", "hc"} THEN 1 ELSE 5
    [] cmd = "ACMD41" /\ slot = "mmc" -> 5
    [] cmd \in {"ACMD41", "CMD1", "CMD58"} /\ ~(cmd = "ACMD41" /\ slot = "mmc")
                                       -> IF mode = "ready" THEN 0 ELSE 1
    [] cmd \in {"CMD17", "CMD24"}      -> IF mode # "ready" THEN 5
                                          ELSE IF Valid(arg) THEN 0 ELSE 64

Starts(cmd, arg) ==
  /\ mode = "idle" /\ (slot = "hc" => arg = HCS)
  /\ \/ cmd = "ACMD41" /\ slot # "mmc"
     \/ cmd = "CMD1"

After(cmd, arg) == CASE cmd = "CMD0"                          -> "idle"
                     [] cmd # "CMD0" /\ Starts(cmd, arg)  -> "starting"
                     [] cmd # "CMD0" /\ ~Starts(cmd, arg) -> mode

(* A command and the byte 0xFF if there is no answer.  A busy card is waited *)
(* for; one that is not ready in time, or does not answer, misses the        *)
(* command.                                                                *)
Heard(cmd, arg, r) ==
  /\ slot # "none" /\ (mode = "sd" => cmd = "CMD0") /\ ~Busy
  /\ r = Answer(cmd, arg) /\ mode' = After(cmd, arg)
  /\ UNCHANGED missed

NotHeard(cmd, r) ==
  /\ r = 255
  /\ UNCHANGED mode
  /\ IF slot = "none" \/ (mode = "sd" /\ cmd # "CMD0")
     THEN UNCHANGED missed ELSE missed' = TRUE

Send(cmd, arg, r) == /\ Heard(cmd, arg, r) \/ NotHeard(cmd, r)
                     /\ UNCHANGED <<slot, content, pending, moved>>

-----------------------------------------------------------------------------
CardInit == /\ slot \in Kinds \cup {"none"} /\ mode = "sd"
            /\ content = Fresh /\ pending = NoWrite
            /\ moved = FALSE /\ missed = FALSE

Warm == /\ mode = "starting" /\ mode' = "ready"
        /\ UNCHANGED <<slot, content, pending, moved, missed>>

(* A block once accepted gets stored.  (A card that fails to program it says  *)
(* so to CMD13, which the driver never sends: that fault is left out.)       *)
Store == /\ Busy
         /\ content' = [content EXCEPT ![pending[1]] = pending[2]]
         /\ pending' = NoWrite
         /\ UNCHANGED <<slot, mode, moved, missed>>

Pull == /\ slot # "none" /\ slot' = "none"
        /\ mode' = "sd" /\ pending' = NoWrite
        /\ moved' = TRUE /\ UNCHANGED <<content, missed>>

Insert(k) == /\ slot = "none" /\ slot' = k
             /\ content' = Fresh /\ moved' = TRUE
             /\ UNCHANGED <<mode, pending, missed>>
=============================================================================
