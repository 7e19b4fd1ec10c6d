SPECIFICATION FairAudioSpec
CONSTANTS
  BITS = 8
  Table <- MCTable
  DEVICE <- MCDevice
  DELAY = 2
PROPERTIES ImplementsSetup SetupEnds
