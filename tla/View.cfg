SPECIFICATION FairSpec
CONSTANTS
  Viewers = {v1, v2}
  Params = {near, wide}
  None = None
  MaxSeq = 1
  MaxCalls = 3
CHECK_DEADLOCK FALSE
INVARIANTS AnswerMatches PanelMatches
PROPERTY PanelCatchesUp
