SPECIFICATION Spec
CONSTANTS
  Width = 3
  Height = 2
  Images <- const_Images
  Threshold = 1
  Window = 3
  Bright = 5
  MinRegions = {2, 7}
  Rounds = 3
INVARIANT EightConnected
CHECK_DEADLOCK FALSE
