SPECIFICATION Spec
CONSTANTS
  Samples = {s1, s2, s3, s4}
  Classes = {forest, water}
  Unlabelled = unlabelled
  NoSample = noSample
SYMMETRY Symmetry
INVARIANTS
  RowsFitHeader
  LabelsKept
  OnlyTheLastIsLost
