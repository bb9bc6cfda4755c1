SPECIFICATION Spec
CONSTANTS
  ana = ana
  bia = bia
  page = page
  tab = tab
  Users = {ana, bia}
  Sessions = {page, tab}
  Logins <- MCLogins
  Payloads <- MCPayloads
  Partial = {98}
  NoFile = {99}
  NumImages = 2
  MaxPerImage = 1
  MaxNumber = 3
  MaxInFlight = 2
  MaxAtUndo = 0
  MaxAtFault = 1
SYMMETRY Symmetry
INVARIANTS
  PageAgreesWithServer
  MisfiledOnlyWhenSettled
  MixedOnlyWhenSettled
  QuotaRespected
  NoneLeftBehind
PROPERTY AppendOnly
CHECK_DEADLOCK FALSE
