SPECIFICATION Spec
CONSTANTS
  SLOTS = 2
  KeySets <- MCKeySets
INVARIANTS
  ShownSlotIsWritten
