SPECIFICATION FairRunSpec
CONSTANTS
  top = top
  left = left
  right = right
  l1 = l1
  l2 = l2
  l3 = l3
  r1 = r1
  r2 = r2
  None = None
  Jobs <- const_Jobs
  Root = top
  Children <- const_Children
  Pairs <- const_Pairs
  Failures <- const_Failures
  Counts = {1, 2, 5, 9}
INVARIANTS
  ProcessorsShared
  FirstInOrder
  NothingLeftRunning
PROPERTIES
  Finishes
CHECK_DEADLOCK FALSE
