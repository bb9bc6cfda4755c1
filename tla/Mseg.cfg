SPECIFICATION Spec
CONSTANTS
  Width = 3
  Height = 2
  Images <- const_Images
  ScaleC = 5
  MinSize = 3
INVARIANTS
  AsInThePaper
  NoSmallRegionLeft
  LabelsAreRegions
PROPERTIES
  MergesRegions
CHECK_DEADLOCK FALSE
