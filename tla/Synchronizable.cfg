SPECIFICATION Spec
CONSTANTS
  Threads = {t1, t2, t3}
  NoThread = noThread
  Objects = {a, b, plain}
  Unsynchronized = {plain}
  IdLimit = 3
  NoId = noId
  NoOp = noOp
SYMMETRY Symmetry
INVARIANTS
  NoCircularWait
  HoldsWhatItAskedFor
