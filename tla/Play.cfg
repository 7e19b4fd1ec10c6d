SPECIFICATION FairSpec
CONSTANTS
  WORLD_X = 5
  WORLD_Y = 3
  WORLD_Z = 1
  SCALE = 8
  w = 2
  h = 13
  GRAVITY = 2
  TERMINAL_VELOCITY = 24
  TERMINAL_VELOCITY_WATER = 2
  JUMP_VELOCITY = 7
  JUMP_VELOCITY_WATER = 4
  MAX_SIM_DIST = 2
  MAX_RAY_STEPS = 4
  WATER_TICKS = 2
  MAX_INPUTS = 3
  Steps <- MCSteps
  Selectable = {1, 6}
  Maps <- MCMaps
  Saves <- MCSaves
INVARIANTS NeverInside NoHeightFromAir SettledIsFlow
PROPERTIES DoubleFloorsHold Rests WaterSettles
CHECK_DEADLOCK FALSE
