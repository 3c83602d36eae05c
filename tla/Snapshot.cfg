SPECIFICATION FairSpec
CONSTANTS
  Chunks <- Three
  Slots = {p}
  Contents = {air, stone}
  Air = air
  View = 1
  Scan = 1
  Floor = 1
  Cap = 1
  MaxChanges = 2
  MaxMoves = 1
  MaxSessions = 2
CHECK_DEADLOCK FALSE
INVARIANTS TypeOK Coherent Bounded
PROPERTIES OldOrTrue Converges
