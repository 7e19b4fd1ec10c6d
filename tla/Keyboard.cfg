SPECIFICATION Spec
CONSTANTS
  DATA_BITS = 3
  EXT <- MCEXT
  BRK <- MCBRK
  KeyTable <- MCKeyTable
  Keys <- MCKeys
INVARIANTS StaysInStep KeysAgree
PROPERTIES OnlySent
