SPECIFICATION CarefulSpec
CONSTANTS
  ana = ana
  bia = bia
  page = page
  tab = tab
  Users = {ana, bia}
  Sessions = {page, tab}
  Logins <- EachOneOnly
  Payloads <- MCPayloads
  Partial = {98}
  NoFile = {99}
  NumImages = 3
  MaxPerImage = 2
  MaxNumber = 4
  MaxInFlight = 2
  MaxAtUndo = 0
  MaxAtFault = 2
INVARIANT FiledUnderItsImage
PROPERTY NewImageGivenWhileAny
CHECK_DEADLOCK FALSE
