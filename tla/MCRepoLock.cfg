SPECIFICATION Spec
CONSTANTS
  c1 = c1
  c2 = c2
  c3 = c3
  c4 = c4
  None = None
  Claims = {c1, c2, c3, c4}
  MaxCrashes = 2
SYMMETRY Symmetry
INVARIANTS ExclusiveBarringRace 
CHECK_DEADLOCK FALSE
