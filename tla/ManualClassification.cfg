SPECIFICATION ClassifierSpec
CONSTANTS
  NumImages = 4
  Unreadable = {2}
  Width = 2
  Sizes = {1, 10}
  NoImage = noImage
  NoFile = noFile
  None = none
INVARIANTS
  TitleTellsProgress
  OwnClassesOnly
PROPERTY NothingLost
