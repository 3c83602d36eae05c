SPECIFICATION FairSpec
CONSTANTS
  Agents = {1, 2}
  Modes = {FALSE, TRUE}
  ConnectDuringTeardown = FALSE
  FirstRetries = 2
  MaxThreads = 2
  Budget <- BothBudget
CHECK_DEADLOCK FALSE
INVARIANTS SingleLoop ClaimHasOwner OnlineIsLowered LatchFresh
PROPERTIES DisconnectHonoured ShutdownTerminates HeadlessConnects RestartHonoured
