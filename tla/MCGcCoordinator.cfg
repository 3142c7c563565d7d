SPECIFICATION FairSpec
CONSTANTS
  s1 = s1
  s2 = s2
  None = None
  Sessions = {s1, s2}
  Windows = {1, 2}
  Retry = 1
  Revisions = 4
  MaxArms = 2
  MaxStarts = 1
  MaxBlocks = 1
  MaxFaults = 1
INVARIANTS ScheduleServed DeadlineKept
PROPERTIES DecidedCollected
CHECK_DEADLOCK FALSE
