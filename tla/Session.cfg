SPECIFICATION Spec
CONSTANTS
  Callers = {a, b}
  Containers = {chest, barrel}
  None = None
  Cap = 2
  MaxCalls = 3
  MaxSessions = 2
  MaxMessages = 3
SYMMETRY SessionSymmetry
CHECK_DEADLOCK FALSE
INVARIANTS RingIsTail HandleOfSession
PROPERTIES RejectionReported ServiceSpec
