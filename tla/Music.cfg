SPECIFICATION FairSpec
CONSTANTS
  SONG_WORDS = 2
  HOLD = 2
INVARIANTS SongIsCurrent
PROPERTIES StopHeard PauseIsSilent MenusHaveMusic
