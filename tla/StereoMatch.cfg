SPECIFICATION Spec
CONSTANTS
  Height = 5
  Width = 7
  Scenes <- SomeScenes
  WindowSizes = {3, 5}
  Disparities = {0, 1, 2, 3}
  Mantissa = 6
  MaxByte = 3
INVARIANTS WindowCostIsSad BestMatch SubpixelNear
CHECK_DEADLOCK FALSE
