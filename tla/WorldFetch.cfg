SPECIFICATION FairSpec
CONSTANTS
  Addr <- MCAddr
  Addr0 = 0
  Block <- MCBlock
  Air = 0
  MAX_STEP = 2
  Passable <- MCPassable
  CpuRequests <- MCRequests
INVARIANTS
  GrantedDataIsCurrent
  CpuWaitBounded
  InfoOfSameBlock
PROPERTIES
  StaleOnlyByWrite
  ImplementsAtomicMemory
  RayEnds
