------------------------------- MODULE GameLoop -------------------------------
(***************************************************************************)
(* The main loop of the program (software/main.c, main): the card is mounted *)
(* when somebody asked for it, then one of the states of the menus and of    *)
(* the game runs.  Two interrupts set a flag each at any moment: the game    *)
(* tick and the stop key.  The third, mount_sd_isr, never comes: Final.v     *)
(* ties its pin high, and the edge of power-up is cleared by main before     *)
(* the handler is registered.                                              *)
(*                                                                         *)
(* An iteration takes two or three steps: the mount ("top"), the state's     *)
(* code up to the poll of the keys ("switch"), and what ENTER asks for       *)
(* ("act"), which may take seconds: loading, saving or generating a world.   *)
(* Interrupts come between the steps.  An interrupt in the middle of a step  *)
(* is one at its end, or one that was lost because the step clears its flag. *)
(*                                                                         *)
(* Of the screen, what the properties compare is kept: the mode and clear    *)
(* registers, the slot line, the label and the cursor.  The card is external: *)
(* it holds the files of some slots and can be read and written or not.      *)
(***************************************************************************)
EXTENDS Integers

CONSTANTS
  SLOTS,      (* save slots: 8 in the code                   *)
  KeySets     (* sets of keys that can be held down together *)

Keys == {"up", "down", "left", "right", "enter"}

ASSUME SlotAssumption == SLOTS \in Nat \ {0}
ASSUME KeyAssumption  == KeySets \subseteq SUBSET Keys /\ {} \in KeySets

VARIABLES
  pc,                      (* "top", "switch" or "act"                     *)
  state, select, temp, use_slot,
  stop_game, game_tick, mount_sd,       (* what the loop is asked to do    *)
  SD_inited,
  g_input,                 (* the keys held at the last poll               *)
  keys,                    (* the keys held now                            *)
  accessible, files,       (* the card: can be used; slots that have a file *)
  world,                   (* "none", "partial" or "whole"                 *)
  screen,
  origin,                  (* history: slot this world was loaded from     *)
  fresh                    (* history: ENTER was up since it last acted    *)

flagVars == <<stop_game, game_tick, mount_sd>>
cardVars == <<accessible, files>>
worldVars == <<world, use_slot, origin>>
keyVars  == <<g_input, keys, fresh>>
vars == <<pc, state, select, temp, flagVars, SD_inited, keyVars, cardVars,
          worldVars, screen>>

Slot   == 0..SLOTS - 1
NoSlot == SLOTS            (* the 8 that temp and use_slot hold for "none" *)

(* slot & SAVE_SLOT_NUM *)
FileOf(s) == s % SLOTS

States == {"IDLE", "MENU", "MENU_LOOP", "MAP_GEN", "MAP_GEN_LOOP", "LOAD",
           "LOAD_LOOP", "SAVE", "SAVE_LOOP", "GAME", "STOP", "STOP_LOOP"}

MenuClear == 258           (* 0x0102: text screen *)
GameClear == 0

NoDigit == -1
Blank == [word |-> "blank", digit |-> NoDigit, label |-> "blank"]
Word  == {"blank", "world", "empty"}    (* " ", " WORLD_", "  EMPTY!"  *)
Tag   == {"blank", "new", "used"}       (* " ", "[NEW] ", "[USED]"     *)
Screen == [mode : 0..6, clear : {MenuClear, GameClear}, cursor : 0..2,
           word : Word, digit : Slot \cup {NoSlot, NoDigit}, label : Tag]

(* The screen with its text replaced by text. *)
Text(text) == [screen EXCEPT !.word = text.word, !.digit = text.digit,
                             !.label = text.label]
TextMode(text, m) == [Text(text) EXCEPT !.mode = m]

Init ==
  /\ pc = "top" /\ state = "IDLE" /\ select = 0 /\ temp = 0 /\ use_slot = NoSlot
  /\ stop_game = FALSE /\ game_tick = FALSE /\ mount_sd = TRUE
  /\ SD_inited = FALSE
  /\ g_input = {} /\ keys = {}
  /\ accessible \in BOOLEAN /\ files \in SUBSET Slot
  /\ world = "none" /\ origin = NoSlot /\ fresh = TRUE
  /\ screen = [mode |-> 0, clear |-> GameClear, cursor |-> 0, word |-> "blank",
               digit |-> NoDigit, label |-> "blank"]

-----------------------------------------------------------------------------
(* Interrupts, keyboard and card *)

TickIsr ==
  /\ game_tick' = TRUE
  /\ UNCHANGED <<pc, state, select, temp, stop_game, mount_sd, SD_inited,
                 keyVars, cardVars, worldVars, screen>>

StateKeyIsr ==
  /\ stop_game' = TRUE
  /\ UNCHANGED <<pc, state, select, temp, game_tick, mount_sd, SD_inited,
                 keyVars, cardVars, worldVars, screen>>

MoveKeys ==
  /\ keys' \in KeySets
  /\ fresh' = (fresh \/ "enter" \notin keys')
  /\ UNCHANGED <<pc, state, select, temp, flagVars, SD_inited, g_input,
                 cardVars, worldVars, screen>>

(* The card is pulled out or put back. *)
MoveCard ==
  /\ accessible' = ~accessible
  /\ UNCHANGED <<pc, state, select, temp, flagVars, SD_inited, keyVars, files,
                 worldVars, screen>>

-----------------------------------------------------------------------------
(* Mounting.  SD_inited is never taken back. *)
Mount ==
  /\ pc = "top" /\ pc' = "switch"
  /\ mount_sd' = FALSE
  /\ SD_inited' \in {SD_inited, SD_inited \/ (mount_sd /\ accessible)}
  /\ UNCHANGED <<state, select, temp, stop_game, game_tick, keyVars, cardVars,
                 worldVars, screen>>

SaveMapExist(s, there) == SD_inited /\ accessible /\ FileOf(s) \in there

(* for(temp=0;temp<8;temp++) if(...) break; leaves temp at the first slot in   *)
(* S, or at NoSlot, which is greater than all.                             *)
FirstSlot(S) == {s \in S \cup {NoSlot} : \A t \in S : s <= t}

Existing(there) == {s \in Slot : SaveMapExist(s, there)}

(* The k-th slot to the right (d = 1) or left (d = -1) of temp. *)
Around(k, d) == (temp + d * k + 2 * SLOTS) % SLOTS

(* The next slot on that side that has a file; none if no slot has one. *)
NextSlot(d) ==
  LET found == {k \in 1..SLOTS : SaveMapExist(Around(k, d), files)}
  IN {Around(k, d) : k \in {n \in found : \A m \in found : n <= m}}

-----------------------------------------------------------------------------
(* The keys: what update_inputs finds newly pressed. *)
Pressed == keys \ g_input

(* The cursor, drawn at the poll, and the choice among n lines after it. *)
Chosen(n) ==
  CASE "up" \in Pressed   -> (select + n - 1) % n
    [] "up" \notin Pressed /\ "down" \in Pressed -> (select + 1) % n
    [] OTHER -> select

(* Mutant of Poll: the keys held are not remembered. *)
PollForgets ==
  /\ g_input' = {}
  /\ UNCHANGED keys

(* update_inputs. *)
Poll ==
  /\ g_input' = keys
  /\ UNCHANGED keys

EnterActs == pc' = "act" /\ fresh' = FALSE
NoAct     == pc' = "top" /\ UNCHANGED fresh

(* Mutant of MenuPoll: no else before the test for ENTER. *)
MenuPollNoElse(n) ==
  /\ Poll
  /\ select' = Chosen(n)
  /\ IF "enter" \in Pressed THEN EnterActs ELSE NoAct

(* MENU_LOOP, MAP_GEN_LOOP, STOP_LOOP: ENTER counts when neither UP nor DOWN  *)
(* does.                                                                   *)
MenuPoll(n) ==
  /\ Poll
  /\ select' = Chosen(n)
  /\ IF "enter" \in Pressed /\ {"up", "down"} \cap Pressed = {}
       THEN EnterActs ELSE NoAct

IdleStep ==
  /\ pc = "switch" /\ state = "IDLE" /\ pc' = "top"
  /\ state' = "MENU"
  /\ screen' = Text(Blank)
  /\ UNCHANGED <<select, temp, flagVars, SD_inited, keyVars, cardVars,
                 worldVars>>

Menu ==
  /\ pc = "switch" /\ state = "MENU" /\ pc' = "top"
  /\ state' = "MENU_LOOP" /\ select' = 0 /\ stop_game' = FALSE
  /\ screen' = [TextMode(Blank, 1) EXCEPT !.clear = MenuClear]
  /\ UNCHANGED <<temp, game_tick, mount_sd, SD_inited, keyVars, cardVars,
                 worldVars>>

MenuLoop ==
  /\ pc = "switch" /\ state = "MENU_LOOP"
  /\ MenuPoll(2)
  /\ screen' = [screen EXCEPT !.cursor = select]
  /\ UNCHANGED <<state, temp, flagVars, SD_inited, cardVars, worldVars>>

MenuAct ==
  /\ pc = "act" /\ state = "MENU_LOOP" /\ pc' = "top"
  /\ state' = IF select = 0 THEN "MAP_GEN" ELSE "LOAD"
  /\ UNCHANGED <<select, temp, flagVars, SD_inited, keyVars, cardVars,
                 worldVars, screen>>

-----------------------------------------------------------------------------
(* LOAD, LOAD_LOOP *)

SlotLine(s) ==
  IF s = NoSlot THEN [Blank EXCEPT !.word = "empty"]
                ELSE [Blank EXCEPT !.word = "world", !.digit = s]

Load ==
  /\ pc = "switch" /\ state = "LOAD" /\ pc' = "top"
  /\ temp' \in FirstSlot(Existing(files))
  /\ screen' = TextMode(SlotLine(temp'), 3)
  /\ mount_sd' = (mount_sd \/ ~SD_inited)
  /\ select' = 0 /\ stop_game' = FALSE /\ state' = "LOAD_LOOP"
  /\ UNCHANGED <<game_tick, SD_inited, keyVars, cardVars, worldVars>>

(* The stop key leads back to the menu, which clears the flag. *)
LoadStop ==
  /\ pc = "switch" /\ state = "LOAD_LOOP" /\ stop_game /\ pc' = "top"
  /\ state' = "MENU" /\ select' = 0 /\ screen' = Text(Blank)
  /\ UNCHANGED <<temp, flagVars, SD_inited, keyVars, cardVars, worldVars>>

(* Mutant of Turn: the digit is not drawn again. *)
TurnUndrawn(d) ==
  \/ /\ NextSlot(d) = {} /\ UNCHANGED temp
     /\ screen' = [Text(SlotLine(NoSlot)) EXCEPT !.cursor = select]
  \/ \E s \in NextSlot(d) :
         /\ temp' = s
         /\ screen' = [screen EXCEPT !.cursor = select]

(* RIGHT and LEFT go round the slots that have a file; only the digit is      *)
(* drawn again, over whatever word is there.                               *)
Turn(d) ==
  \/ /\ NextSlot(d) = {} /\ UNCHANGED temp
     /\ screen' = [Text(SlotLine(NoSlot)) EXCEPT !.cursor = select]
  \/ \E s \in NextSlot(d) :
         /\ temp' = s
         /\ screen' = [screen EXCEPT !.digit = s, !.cursor = select]

(* ENTER counts even when UP or DOWN has moved the choice in the same poll. *)
LoadLoop ==
  /\ pc = "switch" /\ state = "LOAD_LOOP" /\ ~stop_game
  /\ Poll /\ select' = Chosen(3)
  /\ CASE "right" \in Pressed -> NoAct /\ Turn(1)
       [] "right" \notin Pressed /\ "left" \in Pressed -> NoAct /\ Turn(-1)
       [] OTHER -> /\ IF "enter" \in Pressed THEN EnterActs ELSE NoAct
                   /\ screen' = [screen EXCEPT !.cursor = select]
                   /\ UNCHANGED temp
  /\ UNCHANGED <<state, flagVars, SD_inited, cardVars, worldVars>>

(* The game screen is switched on. *)
StartGame ==
  /\ state' = "GAME"
  /\ screen' = [TextMode(Blank, 5) EXCEPT !.clear = GameClear]

(* Every choice of LOAD_LOOP ends with stop_game=0; select=0. *)
LoadActEnds ==
  /\ pc = "act" /\ state = "LOAD_LOOP" /\ pc' = "top"
  /\ stop_game' = FALSE /\ select' = 0
  /\ UNCHANGED <<game_tick, mount_sd, SD_inited, keyVars, accessible>>

LoadMissing ==
  /\ LoadActEnds /\ select = 0 /\ ~SaveMapExist(temp, files)
  /\ state' = "LOAD" /\ screen' = Text(Blank)
  /\ UNCHANGED <<temp, files, worldVars>>

LoadSucceeds ==
  /\ LoadActEnds /\ select = 0 /\ SaveMapExist(temp, files)
  /\ world' = "whole" /\ origin' = FileOf(temp) /\ use_slot' = temp
  /\ StartGame
  /\ UNCHANGED <<temp, files>>

(* Mutant of LoadFails: the game starts all the same. *)
LoadFailsStarts ==
  /\ LoadActEnds /\ select = 0 /\ SaveMapExist(temp, files)
  /\ world' \in {world, "partial"}
  /\ StartGame
  /\ UNCHANGED <<temp, files, use_slot, origin>>

(* A load that fails may have overwritten a part of the world. *)
LoadFails ==
  /\ LoadActEnds /\ select = 0 /\ SaveMapExist(temp, files)
  /\ world' \in {world, "partial"}
  /\ state' = "LOAD" /\ screen' = Text(Blank)
  /\ UNCHANGED <<temp, files, use_slot, origin>>

(* f_unlink does not ask for SD_inited: the library mounts a card it can use. *)
RemoveSave ==
  /\ LoadActEnds /\ select = 1
  /\ files' \in {files, IF accessible THEN files \ {FileOf(temp)} ELSE files}
  /\ temp' \in FirstSlot(Existing(files'))
  /\ screen' = Text(SlotLine(temp'))
  /\ UNCHANGED <<state, worldVars>>

LoadExit ==
  /\ LoadActEnds /\ select = 2
  /\ state' = "MENU" /\ screen' = Text(Blank)
  /\ UNCHANGED <<temp, files, worldVars>>

-----------------------------------------------------------------------------
(* MAP_GEN, MAP_GEN_LOOP *)

MapGen ==
  /\ pc = "switch" /\ state = "MAP_GEN" /\ pc' = "top"
  /\ screen' = TextMode(Blank, 4)
  /\ select' = 1 /\ temp' = 0 /\ stop_game' = FALSE
  /\ state' = "MAP_GEN_LOOP"
  /\ UNCHANGED <<game_tick, mount_sd, SD_inited, keyVars, cardVars, worldVars>>

MapGenStop ==
  /\ pc = "switch" /\ state = "MAP_GEN_LOOP" /\ stop_game /\ pc' = "top"
  /\ state' = "MENU" /\ select' = 0 /\ screen' = Text(Blank)
  /\ UNCHANGED <<temp, flagVars, SD_inited, keyVars, cardVars, worldVars>>

MapGenLoop ==
  /\ pc = "switch" /\ state = "MAP_GEN_LOOP" /\ ~stop_game
  /\ MenuPoll(2)
  /\ screen' = [screen EXCEPT !.cursor = select]
  /\ UNCHANGED <<state, temp, flagVars, SD_inited, cardVars, worldVars>>

(* Flat or not. *)
MapGenFlat ==
  /\ pc = "act" /\ state = "MAP_GEN_LOOP" /\ select = 0 /\ pc' = "top"
  /\ temp' = (IF temp = 0 THEN 1 ELSE 0)
  /\ UNCHANGED <<state, select, flagVars, SD_inited, keyVars, cardVars,
                 worldVars, screen>>

(* Mutant of MapGenStart: use_slot is not reset. *)
MapGenStartSlotKept ==
  /\ pc = "act" /\ state = "MAP_GEN_LOOP" /\ select = 1 /\ pc' = "top"
  /\ world' = "whole" /\ origin' = NoSlot
  /\ stop_game' = FALSE
  /\ StartGame
  /\ UNCHANGED <<select, temp, use_slot, game_tick, mount_sd, SD_inited,
                 keyVars, cardVars>>

(* Mutant of MapGenStart: stop_game is not reset. *)
MapGenStartFlagKept ==
  /\ pc = "act" /\ state = "MAP_GEN_LOOP" /\ select = 1 /\ pc' = "top"
  /\ world' = "whole" /\ origin' = NoSlot /\ use_slot' = NoSlot
  /\ StartGame
  /\ UNCHANGED <<select, temp, flagVars, SD_inited, keyVars, cardVars>>

MapGenStart ==
  /\ pc = "act" /\ state = "MAP_GEN_LOOP" /\ select = 1 /\ pc' = "top"
  /\ world' = "whole" /\ origin' = NoSlot /\ use_slot' = NoSlot
  /\ stop_game' = FALSE
  /\ StartGame
  /\ UNCHANGED <<select, temp, game_tick, mount_sd, SD_inited, keyVars,
                 cardVars>>

-----------------------------------------------------------------------------
(* GAME, STOP, STOP_LOOP.  The tick's work on the player and the world keeps  *)
(* a whole world whole.                                                    *)
(* Mutant of GameStop: straight to the menu. *)
GameStopToMenu ==
  /\ pc = "switch" /\ state = "GAME" /\ stop_game /\ pc' = "top"
  /\ stop_game' = FALSE /\ state' = "MENU"
  /\ UNCHANGED <<select, temp, game_tick, mount_sd, SD_inited, keyVars,
                 cardVars, worldVars, screen>>

(* Mutant of GameStop: the flag is cleared and the state kept. *)
GameStopLost ==
  /\ pc = "switch" /\ state = "GAME" /\ stop_game /\ pc' = "top"
  /\ stop_game' = FALSE
  /\ UNCHANGED <<state, select, temp, game_tick, mount_sd, SD_inited, keyVars,
                 cardVars, worldVars, screen>>

GameStop ==
  /\ pc = "switch" /\ state = "GAME" /\ stop_game /\ pc' = "top"
  /\ stop_game' = FALSE /\ state' = "STOP"
  /\ UNCHANGED <<select, temp, game_tick, mount_sd, SD_inited, keyVars,
                 cardVars, worldVars, screen>>

GameTick ==
  /\ pc = "switch" /\ state = "GAME" /\ ~stop_game /\ pc' = "top"
  /\ game_tick' = FALSE
  /\ UNCHANGED <<state, select, temp, stop_game, mount_sd, SD_inited, keyVars,
                 cardVars, worldVars, screen>>

Stop ==
  /\ pc = "switch" /\ state = "STOP" /\ pc' = "top"
  /\ screen' = [TextMode(Blank, 6) EXCEPT !.clear = MenuClear]
  /\ select' = 0 /\ stop_game' = FALSE /\ state' = "STOP_LOOP"
  /\ UNCHANGED <<temp, game_tick, mount_sd, SD_inited, keyVars, cardVars,
                 worldVars>>

StopStop ==
  /\ pc = "switch" /\ state = "STOP_LOOP" /\ stop_game /\ pc' = "top"
  /\ stop_game' = FALSE
  /\ StartGame
  /\ UNCHANGED <<select, temp, game_tick, mount_sd, SD_inited, keyVars,
                 cardVars, worldVars>>

StopLoop ==
  /\ pc = "switch" /\ state = "STOP_LOOP" /\ ~stop_game
  /\ MenuPoll(3)
  /\ screen' = [screen EXCEPT !.cursor = select]
  /\ UNCHANGED <<state, temp, flagVars, SD_inited, cardVars, worldVars>>

StopAct ==
  /\ pc = "act" /\ state = "STOP_LOOP" /\ pc' = "top"
  /\ stop_game' = FALSE
  /\ \/ select = 0 /\ StartGame
     \/ select = 1 /\ state' = "SAVE" /\ screen' = Text(Blank)
     \/ select = 2 /\ state' = "MENU" /\ screen' = Text(Blank)
  /\ UNCHANGED <<select, temp, game_tick, mount_sd, SD_inited, keyVars,
                 cardVars, worldVars>>

-----------------------------------------------------------------------------
(* SAVE, SAVE_LOOP *)

Label(s) ==
  CASE ~SaveMapExist(s, files) -> "new"
    [] SaveMapExist(s, files) /\ s = use_slot -> "used"
    [] OTHER -> "blank"

SaveLine(s) == [word |-> "world", digit |-> s, label |-> Label(s)]

(* The mount is asked for and the slot chosen and labelled before it happens. *)
Save ==
  /\ pc = "switch" /\ state = "SAVE" /\ pc' = "top"
  /\ mount_sd' = (mount_sd \/ ~SD_inited)
  /\ IF use_slot # NoSlot THEN temp' = use_slot
                          ELSE temp' \in FirstSlot(Slot \ Existing(files))
  /\ screen' = TextMode(SaveLine(temp'), 2)
  /\ select' = 0 /\ state' = "SAVE_LOOP"
  /\ UNCHANGED <<stop_game, game_tick, SD_inited, keyVars, cardVars, worldVars>>

SaveStop ==
  /\ pc = "switch" /\ state = "SAVE_LOOP" /\ stop_game /\ pc' = "top"
  /\ stop_game' = FALSE /\ state' = "STOP" /\ screen' = Text(Blank)
  /\ UNCHANGED <<select, temp, game_tick, mount_sd, SD_inited, keyVars,
                 cardVars, worldVars>>

(* RIGHT and LEFT go round all slots. *)
SaveTurn(s) ==
  /\ temp' = s
  /\ screen' = [Text(SaveLine(s)) EXCEPT !.cursor = select]

SaveLoop ==
  /\ pc = "switch" /\ state = "SAVE_LOOP" /\ ~stop_game
  /\ Poll /\ select' = Chosen(2)
  /\ CASE "right" \in Pressed -> NoAct /\ SaveTurn((temp + 1) % SLOTS)
       [] "right" \notin Pressed /\ "left" \in Pressed ->
            NoAct /\ SaveTurn((temp + SLOTS - 1) % SLOTS)
       [] OTHER -> /\ IF "enter" \in Pressed THEN EnterActs ELSE NoAct
                   /\ screen' = [screen EXCEPT !.cursor = select]
                   /\ UNCHANGED temp
  /\ UNCHANGED <<state, flagVars, SD_inited, cardVars, worldVars>>

(* SaveMapToSD: a save that fails may have created the file. *)
SaveAct ==
  /\ pc = "act" /\ state = "SAVE_LOOP" /\ pc' = "top"
  /\ \/ /\ select = 0
        /\ files' \in {files, IF SD_inited /\ accessible
                                THEN files \cup {FileOf(temp)} ELSE files}
     \/ select = 1 /\ UNCHANGED files
  /\ state' = "STOP" /\ screen' = Text(Blank)
  /\ stop_game' = FALSE /\ select' = 0
  /\ UNCHANGED <<temp, game_tick, mount_sd, SD_inited, keyVars, accessible,
                 worldVars>>

-----------------------------------------------------------------------------
LoadAct == LoadMissing \/ LoadSucceeds \/ LoadFails \/ RemoveSave \/ LoadExit

Loop ==
  \/ Mount
  \/ IdleStep \/ Menu \/ MenuLoop \/ MenuAct
  \/ Load \/ LoadStop \/ LoadLoop \/ LoadAct
  \/ MapGen \/ MapGenStop \/ MapGenLoop \/ MapGenFlat \/ MapGenStart
  \/ GameStop \/ GameTick
  \/ Stop \/ StopStop \/ StopLoop \/ StopAct
  \/ Save \/ SaveStop \/ SaveLoop \/ SaveAct

Environment == TickIsr \/ StateKeyIsr \/ MoveKeys \/ MoveCard

Next == Loop \/ Environment

Spec == Init /\ [][Next]_vars

(* The processor keeps running and every call returns. *)
FairSpec == Spec /\ WF_vars(Loop)

-----------------------------------------------------------------------------
InGame == {"GAME", "STOP", "STOP_LOOP", "SAVE", "SAVE_LOOP"}

FlagsOK ==
  /\ stop_game \in BOOLEAN /\ game_tick \in BOOLEAN /\ mount_sd \in BOOLEAN
  /\ SD_inited \in BOOLEAN /\ accessible \in BOOLEAN /\ fresh \in BOOLEAN

DataOK ==
  /\ pc \in {"top", "switch", "act"} /\ state \in States
  /\ select \in 0..2 /\ temp \in Slot \cup {NoSlot}
  /\ use_slot \in Slot \cup {NoSlot} /\ origin \in Slot \cup {NoSlot}
  /\ g_input \in KeySets /\ keys \in KeySets
  /\ files \in SUBSET Slot
  /\ world \in {"none", "partial", "whole"}
  /\ screen \in Screen

TypeOK == FlagsOK /\ DataOK

(* A world is played, paused and saved only if it was generated or loaded to  *)
(* its end: what a failed load left in the memory is never entered.        *)
WorldWhole == state \in InGame => world = "whole"

(* Whatever way a state was reached, the mode and the clear register are its  *)
(* own: no path into the game leaves the text screen on.                   *)
ModeOf == [MENU_LOOP |-> 1, SAVE_LOOP |-> 2, LOAD_LOOP |-> 3,
           MAP_GEN_LOOP |-> 4, GAME |-> 5, STOP_LOOP |-> 6]
ScreenMatchesState ==
  state \in DOMAIN ModeOf =>
    /\ screen.mode = ModeOf[state]
    /\ screen.clear = (IF state = "GAME" THEN GameClear ELSE MenuClear)

(* While LOAD_LOOP shows WORLD_n, loading and removing are about slot n, also  *)
(* after turning round the slots and after removing one.                   *)
LoadShowsTarget ==
  state = "LOAD_LOOP" /\ screen.word = "world" =>
    temp = screen.digit /\ temp \in Slot

(* The label [USED] is on the slot this world was loaded from, whatever was   *)
(* loaded, removed, generated or saved since.                              *)
UsedLabelIsOrigin ==
  state = "SAVE_LOOP" /\ screen.label = "used" /\ screen.digit # NoSlot =>
    screen.digit = origin

(* In MENU_LOOP, MAP_GEN_LOOP and STOP_LOOP, ENTER does what the cursor was    *)
(* drawn at, whatever other keys came in the same poll.                    *)
MenuActsOnCursor ==
  pc = "act" /\ state \in {"MENU_LOOP", "MAP_GEN_LOOP", "STOP_LOOP"} =>
    select = screen.cursor

(* One press of ENTER acts once, however many screens go by while it is held. *)
OnePressOneAct == [][pc # "act" /\ pc' = "act" => fresh]_vars

(* A game never starts or goes on with the stop flag of an earlier screen up:  *)
(* stop keys pressed while a world loads or generates do not pause it.      *)
NoStaleStop == [][state # "GAME" /\ state' = "GAME" => ~stop_game']_vars

Phase == CASE state = "GAME" -> "playing"
           [] state \in InGame \ {"GAME"} -> "paused"
           [] OTHER -> "choosing"

(* What makes the above inductive.  The screens entered from a text screen    *)
(* rely on its clear register; use_slot is the world's origin or none; ENTER  *)
(* that has acted is still held and known to be.                           *)
ClearInherited ==
  state \in {"LOAD", "MAP_GEN", "SAVE"} => screen.clear = MenuClear
SlotOfOrigin == state \in InGame => use_slot \in {origin, NoSlot}
UsedLabelIsUsed ==
  state = "SAVE_LOOP" /\ screen.label = "used" => screen.digit = use_slot
ActsInLoops ==
  pc = "act" => state \in {"MENU_LOOP", "LOAD_LOOP", "MAP_GEN_LOOP",
                           "STOP_LOOP", "SAVE_LOOP"}
EnterRemembered == fresh \/ "enter" \in keys \cap g_input

IInv ==
  /\ TypeOK /\ WorldWhole
  /\ ScreenMatchesState /\ ClearInherited
  /\ LoadShowsTarget
  /\ SlotOfOrigin /\ UsedLabelIsUsed
  /\ ActsInLoops /\ MenuActsOnCursor
  /\ EnterRemembered

(* The loop implements what the screens promise (GameSession).              *)
Session == INSTANCE GameSession WITH phase <- Phase
ImplementsSession == Session!SessionSpec

(* The stop key pauses the game: its flag is not lost to ticks and mounts.   *)
StopKeyStops == (state = "GAME" /\ stop_game) ~> state = "STOP"

-----------------------------------------------------------------------------
(* What the screen says, in SAVE_LOOP and LOAD_LOOP.                        *)

(* The number shown (main.c, SAVE: printVGAChar(7, 3, temp+'0')) is the        *)
(* number of the file that is written.                                     *)
ShownSlotIsWritten ==
  pc = "act" /\ state = "SAVE_LOOP" /\ select = 0 => screen.digit = FileOf(temp)

(* What is labelled "[NEW] " (main.c, SAVE) has no file yet, and under          *)
(* "EMPTY!" (main.c, LOAD) there is nothing to remove.                       *)
AbsentIsAbsent ==
  pc = "act" =>
    /\ state = "SAVE_LOOP" /\ select = 0 /\ screen.label = "new" =>
         ~SaveMapExist(temp, files)
    /\ state = "LOAD_LOOP" /\ select = 1 /\ screen.word = "empty"
         /\ accessible => FileOf(temp) \notin files
=============================================================================
