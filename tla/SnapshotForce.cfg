SPECIFICATION FairSpec
CONSTANTS
  Callers = {a, b}
  None = None
  MaxVersion = 2
  MaxTasks = 2
  MaxFailures = 1
CHECK_DEADLOCK FALSE
INVARIANTS SenderConserved AnsweredFresh
PROPERTY RequestAnswered
