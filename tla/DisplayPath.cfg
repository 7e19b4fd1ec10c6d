SPECIFICATION FairSpec
CONSTANTS
  VGA_W = 2
  VGA_H = 2
  SCALE = 1
  H_TOTAL = 3
  V_TOTAL = 3
  MaxPose = 1
  Camera <- MCCamera
  Color = {"menu"}
  BlackFill = "menu"
  MenuFill = "menu"
INVARIANTS FrameWhole VisibleInRow
PROPERTIES FramesMoveForward ImplementsScreen FramesKeepComing
