----------------------------- MODULE Audio_Player -----------------------------
(***************************************************************************)
(* modules/Audio_Player.v: the automaton that plays one of four songs, note *)
(* by note.  One action is one rising edge of audio_sample_clk (48 kHz);    *)
(* the ports play, stop and song_sel are the fields of ctrl.               *)
(*                                                                         *)
(* The sound itself is left out.  The words of the song memory are free:    *)
(* the program may load other songs from the card at any time, so any word  *)
(* may be a note or the end of the song, and a note may last any number of  *)
(* clocks.                                                                 *)
(***************************************************************************)
EXTENDS Integers

CONSTANT SONG_WORDS    (* words of the memory per song: 512 in the code *)

ASSUME WordsAssumption == SONG_WORDS \in Nat \ {0}

VARIABLES player_state, playing, song_sel_reg, local_addr

playerVars == <<player_state, playing, song_sel_reg, local_addr>>

Song == 0..3
Ctrl == [play : BOOLEAN, stop : BOOLEAN, song_sel : Song]

PlayerTypeOK ==
  /\ player_state \in {"ST_IDLE", "ST_FETCH", "ST_WAIT", "ST_LOAD", "ST_PLAY"}
  /\ playing \in BOOLEAN
  /\ song_sel_reg \in Song
  /\ local_addr \in 0..(SONG_WORDS - 1)

PlayerInit ==
  /\ player_state = "ST_IDLE" /\ playing = FALSE
  /\ song_sel_reg = 0 /\ local_addr = 0

Stopped ==
  /\ player_state' = "ST_IDLE" /\ playing' = FALSE
  /\ song_sel_reg' = 0 /\ local_addr' = 0

(* playing lasts one clock longer than the song, or goes on if play is up.  *)
Idle(ctrl) ==
  /\ player_state = "ST_IDLE"
  /\ playing' = ctrl.play
  /\ player_state' = IF ctrl.play THEN "ST_FETCH" ELSE "ST_IDLE"
  /\ song_sel_reg' = IF ctrl.play THEN ctrl.song_sel ELSE song_sel_reg
  /\ UNCHANGED local_addr

MoveTo(from, to) ==
  /\ player_state = from /\ player_state' = to
  /\ UNCHANGED <<playing, song_sel_reg, local_addr>>

SongEnds ==
  /\ player_state = "ST_LOAD" /\ player_state' = "ST_IDLE"
  /\ local_addr' = 0 /\ song_sel_reg' = 0
  /\ UNCHANGED playing

NoteEnds ==
  /\ player_state = "ST_PLAY" /\ player_state' = "ST_FETCH"
  /\ local_addr' = (local_addr + 1) % SONG_WORDS
  /\ UNCHANGED <<playing, song_sel_reg>>

PlayerClk(ctrl) ==
  IF ctrl.stop THEN Stopped
    ELSE \/ Idle(ctrl)
         \/ MoveTo("ST_FETCH", "ST_WAIT")
         \/ MoveTo("ST_WAIT", "ST_LOAD")
         \/ MoveTo("ST_LOAD", "ST_PLAY")
         \/ MoveTo("ST_PLAY", "ST_PLAY")
         \/ SongEnds
         \/ NoteEnds
=============================================================================
