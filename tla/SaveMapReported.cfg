SPECIFICATION Spec
CONSTANTS
  MAP_SIZE = 5
  MAX_RUN = 3
  SD_BUF_SIZE = 2
  Block <- MCBlock
  Player = {p, q}
INVARIANTS
  ReportedSaveIsOnCard
