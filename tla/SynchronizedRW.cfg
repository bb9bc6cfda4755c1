SPECIFICATION FairSpec
CONSTANTS
  Threads = {t1, t2, t3, t4}
  NoThread = noThread
INVARIANTS
  Exclusion
PROPERTIES
  NoReaderPassesWriter
  GateLeadsToAccess
  ImplementsReadersWriters
