SPECIFICATION Spec
CONSTANTS
  Settings <- SomeSettings
  MaxTargets = 3
CHECK_DEADLOCK FALSE
INVARIANTS RepliesInTime PlacedIsSeen TooFarIsRecent
PROPERTY WalksMeaningful
