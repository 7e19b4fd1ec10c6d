SPECIFICATION FairSpec
CONSTANTS
  SLOTS = 2
  KeySets <- MCKeySets
INVARIANTS
  WorldWhole
  LoadShowsTarget
  UsedLabelIsOrigin
  MenuActsOnCursor
PROPERTIES
  OnePressOneAct
  NoStaleStop
  ImplementsSession
  StopKeyStops
