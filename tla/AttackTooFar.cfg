SPECIFICATION Spec
CONSTANTS
  Settings <- LongWalks
  MaxTargets = 3
CHECK_DEADLOCK FALSE
INVARIANT TooFarIsHonest
