SPECIFICATION FairSpec
CONSTANTS
  c1 = c1
  c2 = c2
  c3 = c3
  None = None
  Abort = Abort
  Commands = {c1, c2}
  FollowUps = "native"
  QueueMax = 2
  AnswersFirst = TRUE
  PromptAfterHandshake = TRUE
  MaxFailures = 0
  MaxCancels = 1
PROPERTIES ClosingFinishes
CHECK_DEADLOCK FALSE
