SPECIFICATION Spec
CONSTANTS
  Samples = {s1, s2}
  Classes = {forest, water}
  Unlabelled = unlabelled
  NoSample = noSample
PROPERTY SparesIdAndClass
