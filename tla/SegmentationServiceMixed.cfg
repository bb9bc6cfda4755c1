SPECIFICATION Spec
CONSTANTS
  ana = ana
  bia = bia
  page = page
  tab = tab
  Users = {bia}
  Sessions = {page}
  Logins <- OnePage
  Payloads <- MCPayloads
  Partial = {98}
  NoFile = {99}
  NumImages = 3
  MaxPerImage = 1
  MaxNumber = 4
  MaxInFlight = 2
  MaxAtUndo = 2
  MaxAtFault = 2
INVARIANT MixedOnlyWhenSettled
CHECK_DEADLOCK FALSE
