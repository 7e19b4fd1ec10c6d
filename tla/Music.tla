-------------------------------- MODULE Music --------------------------------
(***************************************************************************)
(* The background music: the program's half (software/main.c, the first     *)
(* switch of main and the bgm_ functions) writes a control register that    *)
(* Audio_Player samples with its own clock, and reads back whether it plays. *)
(*                                                                         *)
(* A round of the loop takes three steps: the playing bit is read, the      *)
(* register is written for the screen, and bgm_update takes the order back  *)
(* when it has stood long enough.  The player's clock comes between them.   *)
(* The screens are free to change as those of GameLoop may, after each      *)
(* round.  The register is sampled as a whole: skew between its bits is     *)
(* left out.                                                               *)
(***************************************************************************)
EXTENDS Audio_Player

CONSTANT HOLD    (* player clocks in the time of bgm_update: 480 in the code *)

ASSUME HoldAssumption == HOLD \in Nat \ {0}

VARIABLES
  at,                  (* "read", "act" or "update"                        *)
  screen,              (* the group of states                              *)
  seen,                (* what bgm_playing() returned                      *)
  ctrl,                (* the register, BGM_CTRL                           *)
  bgm_ctrl,            (* an order is to be taken back                     *)
  held,                (* player clocks since it was written, up to HOLD   *)
  bgm_in_cooldown,
  current_game_song

orderVars == <<ctrl, bgm_ctrl, held>>
loopVars  == <<at, screen, seen, bgm_in_cooldown, current_game_song>>
vars      == <<playerVars, orderVars, loopVars>>

(* IDLE, then the menus, the game, and stopped with the saving from there.  *)
ScreenMoves ==
  [IDLE |-> {"menus"}, menus |-> {"menus", "game"},
   game |-> {"game", "stopped"}, stopped |-> {"stopped", "game", "menus"}]

Quiet   == [play |-> FALSE, stop |-> FALSE, song_sel |-> 0]
Play(s) == [play |-> TRUE,  stop |-> FALSE, song_sel |-> s]
Stop    == [play |-> FALSE, stop |-> TRUE,  song_sel |-> 0]

(* bgm_play(s), bgm_set(0) and bgm_stop(). *)
Order(c) == ctrl' = c /\ bgm_ctrl' = TRUE /\ held' = 0
NoOrder  == UNCHANGED orderVars

Init ==
  /\ PlayerInit
  /\ at = "read" /\ screen = "IDLE" /\ seen = FALSE
  /\ ctrl = Quiet /\ bgm_ctrl = FALSE /\ held = HOLD
  /\ bgm_in_cooldown = FALSE /\ current_game_song = 0

Read ==
  /\ at = "read" /\ at' = "act"
  /\ seen' = playing
  /\ UNCHANGED <<playerVars, orderVars, screen, bgm_in_cooldown,
                 current_game_song>>

Act == at = "act" /\ at' = "update" /\ UNCHANGED <<playerVars, screen, seen>>

(* Mutant: bgm_set(0) for bgm_play(0). *)
InMenusSet ==
  /\ Act /\ screen = "menus"
  /\ IF seen THEN NoOrder /\ UNCHANGED current_game_song
             ELSE Order(Quiet) /\ current_game_song' = 0
  /\ UNCHANGED bgm_in_cooldown

InMenus ==
  /\ Act /\ screen = "menus"
  /\ IF seen THEN NoOrder /\ UNCHANGED current_game_song
             ELSE Order(Play(0)) /\ current_game_song' = 0
  /\ UNCHANGED bgm_in_cooldown

(* The pause between two songs of the game: 3 to 19 seconds. *)
CooldownStarts ==
  /\ Act /\ screen = "game" /\ ~seen /\ ~bgm_in_cooldown
  /\ bgm_in_cooldown' = TRUE
  /\ Order(Quiet)
  /\ UNCHANGED current_game_song

CooldownRuns ==
  /\ Act /\ screen = "game" /\ ~seen /\ bgm_in_cooldown
  /\ NoOrder /\ UNCHANGED <<bgm_in_cooldown, current_game_song>>

(* The next song or the one after it; r is a bit of rand32(). *)
SongAfter(s, r) == IF s + 1 + r > 3 THEN s + 1 + r - 3 ELSE s + 1 + r

(* Mutant: the song is asked for before it is chosen. *)
NextSongOld ==
  /\ Act /\ screen = "game" /\ ~seen /\ bgm_in_cooldown
  /\ bgm_in_cooldown' = FALSE
  /\ \E r \in {0, 1} : current_game_song' = SongAfter(current_game_song, r)
  /\ Order(Play(current_game_song))

NextSong ==
  /\ Act /\ screen = "game" /\ ~seen /\ bgm_in_cooldown
  /\ bgm_in_cooldown' = FALSE
  /\ \E r \in {0, 1} : current_game_song' = SongAfter(current_game_song, r)
  /\ Order(Play(current_game_song'))

(* Song 0 is the menus': in the game it is stopped. *)
SongPlays ==
  /\ Act /\ screen = "game" /\ seen
  /\ bgm_in_cooldown' = FALSE
  /\ IF current_game_song = 0 THEN Order(Stop) ELSE NoOrder
  /\ UNCHANGED current_game_song

(* Mutant: the stop order is taken for given once the song is 0. *)
InStoppedOnce ==
  /\ Act /\ screen \in {"IDLE", "stopped"}
  /\ IF seen /\ current_game_song # 0
       THEN Order(Stop) /\ current_game_song' = 0
       ELSE NoOrder /\ UNCHANGED current_game_song
  /\ UNCHANGED bgm_in_cooldown

InStopped ==
  /\ Act /\ screen \in {"IDLE", "stopped"}
  /\ IF seen THEN Order(Stop) /\ current_game_song' = 0
             ELSE NoOrder /\ UNCHANGED current_game_song
  /\ UNCHANGED bgm_in_cooldown

(* Mutant: the order is taken back at once. *)
ElapsedAtOnce == TRUE

(* bgm_update, and then the screen's own code. *)
Elapsed == held = HOLD

Update ==
  /\ at = "update" /\ at' = "read"
  /\ IF bgm_ctrl /\ Elapsed
       THEN ctrl' = Quiet /\ bgm_ctrl' = FALSE /\ UNCHANGED held
       ELSE NoOrder
  /\ screen' \in ScreenMoves[screen]
  /\ UNCHANGED <<playerVars, seen, bgm_in_cooldown, current_game_song>>

Loop ==
  \/ Read
  \/ InMenus \/ CooldownStarts \/ CooldownRuns \/ NextSong \/ SongPlays
  \/ InStopped
  \/ Update

Sample ==
  /\ PlayerClk(ctrl)
  /\ held' = IF held < HOLD THEN held + 1 ELSE held
  /\ UNCHANGED <<ctrl, bgm_ctrl, loopVars>>

Next == Loop \/ Sample

Spec == Init /\ [][Next]_vars

(* The processor and the sample clock run. *)
FairSpec == Spec /\ WF_vars(Loop) /\ WF_vars(Sample)

-----------------------------------------------------------------------------
TypeOK ==
  /\ PlayerTypeOK
  /\ at \in {"read", "act", "update"} /\ screen \in DOMAIN ScreenMoves
  /\ seen \in BOOLEAN
  /\ ctrl \in Ctrl /\ bgm_ctrl \in BOOLEAN /\ held \in 0..HOLD
  /\ bgm_in_cooldown \in BOOLEAN /\ current_game_song \in Song

(* The song that sounds is the one the program believes to play, or one it  *)
(* has given up and will stop: a late sample never starts an old order.     *)
SongIsCurrent ==
  playing /\ song_sel_reg # 0 => current_game_song \in {song_sel_reg, 0}

(* A stop order stands until the player has obeyed it: neither bgm_update   *)
(* nor an order for the next screen takes it back before.                  *)
StopHeard == [][ctrl.stop /\ ~ctrl'.stop => ~playing]_vars

(* What makes the above inductive.  A play order is for the current song; a   *)
(* song of the game is neither asked for nor unheard of in its pause; a stop  *)
(* order sampled once is obeyed, and one not yet sampled is known to the round *)
(* that might replace it.                                                  *)
OrderIsCurrent == ctrl.play => ctrl.song_sel = current_game_song
PauseHasNoSong ==
  bgm_in_cooldown =>
    /\ ctrl.play => ctrl.song_sel = 0
    /\ at = "act" /\ ~seen /\ playing => song_sel_reg = 0
StopObeyed ==
  ctrl.stop /\ playing => held = 0 /\ (at = "act" => seen)

IInv ==
  /\ TypeOK /\ SongIsCurrent
  /\ OrderIsCurrent /\ PauseHasNoSong /\ StopObeyed

(* Paused for good, the game falls silent for good. *)
PauseIsSilent == <>[](screen = "stopped") => <>[]~playing

(* The menus never stay silent. *)
MenusHaveMusic == <>[](screen = "menus") => []<>playing
=============================================================================
