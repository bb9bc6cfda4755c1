SPECIFICATION CarefulSpec
CONSTANTS
  ana = ana
  bia = bia
  page = page
  tab = tab
  Users = {bia}
  Sessions = {page}
  Logins <- OnePage
  Payloads <- MCPayloads
  Partial = {98}
  NoFile = {99}
  NumImages = 2
  MaxPerImage = 1
  MaxNumber = 3
  MaxInFlight = 1
  MaxAtUndo = 0
  MaxAtFault = 2
PROPERTY NewImageGiven
CHECK_DEADLOCK FALSE
