SPECIFICATION FairSpec
CONSTANTS
  Blocks <- SomeBlocks
  Tools <- SomeTools
  Empty <- NoTool
  HotbarSize = 2
  InventorySize = 3
  CommandTimeout = 6
  FlyTimeout = 20
  Interval = 2
  Window = 12
  IdleInterval = 20
CHECK_DEADLOCK FALSE
INVARIANTS EnvelopeKept HarvestKept BrokenIsSeen FailsOnlyBySlowerTool
PROPERTY Ends
