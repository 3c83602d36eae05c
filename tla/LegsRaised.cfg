SPECIFICATION Spec
CONSTANTS
  Settings <- Raisable
  MaxTargets = 3
CHECK_DEADLOCK FALSE
INVARIANT RepliesBeforeEnvelope
