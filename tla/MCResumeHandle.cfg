SPECIFICATION Spec
CONSTANTS
  l1 = l1
  l2 = l2
  None = None
  Absent = Absent
  Locators = {l1, l2}
  MaxLives = 3
INVARIANTS HandleReplayed
CHECK_DEADLOCK FALSE
