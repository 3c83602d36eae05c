SPECIFICATION Spec
CONSTANTS
  Agents = {1, 2}
  Modes = {FALSE}
  ConnectDuringTeardown = TRUE
  FirstRetries = 2
  MaxThreads = 3
  Budget <- DoubleBudget
CHECK_DEADLOCK FALSE
INVARIANT SingleLoop
