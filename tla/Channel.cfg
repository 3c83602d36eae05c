SPECIFICATION FairSpec
CONSTANTS
  Callers = {c1, c2}
  Capacity = 1
  MaxCalls = 2
  MaxSpawns = 2
INVARIANTS
  TypeOK
  ReceiverConserved
  SerialExecution
  NoStaleExecution
  RejectedNeverRuns
PROPERTIES
  ServiceSpec
  EveryCallReturns
CHECK_DEADLOCK FALSE
