SPECIFICATION Spec
CONSTANTS
  p1 = p1
  p2 = p2
  t0 = t0
  t1 = t1
  None = None
  Procs = {p1, p2}
  Trees = {t0, t1}
  BaseTree = t0
  MaxCommits = 3
  MaxSeq = 2
  MaxRevision = 3
  MaxCrashes = 2
SYMMETRY Symmetry
INVARIANTS CustodyInv CrashResolvable AckedResultsKept DeletionOrdered
PROPERTIES ImplementsResultLine
CHECK_DEADLOCK FALSE
