SPECIFICATION Spec
CONSTANTS
  c1 = c1
  c2 = c2
  c3 = c3
  None = None
  Abort = Abort
  Commands = {c1, c2, c3}
  FollowUps = "hub-queued"
  QueueMax = 2
  AnswersFirst = TRUE
  PromptAfterHandshake = TRUE
  MaxFailures = 1
  MaxCancels = 1
INVARIANTS    StopProven RecordIsLast
SYMMETRY Symmetry
CHECK_DEADLOCK FALSE
