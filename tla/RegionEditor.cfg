SPECIFICATION EditorSpec
CONSTANTS
  Xs = {1, 2}
  Ys = {3}
  MaxPoints = 3
  MaxRegions = 2
INVARIANTS
  RegionsAgree
  FileShowsTheCanvas
