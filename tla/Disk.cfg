SPECIFICATION FairSpec
CONSTANTS
  SECTORS = 3
  SIZE = 2
  Kinds = {"mmc", "v1", "sc", "hc"}
  Data = {0, 1, 2, 3, 4, 255}
  FF = 255
  Fresh <- MCFresh
  Reads <- MCReads
  Writes <- MCWrites
INVARIANTS OkMeansDone
PROPERTIES OnlyAsked CallsReturn
