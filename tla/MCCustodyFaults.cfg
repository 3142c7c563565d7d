SPECIFICATION FaultsSpec
CONSTANTS
  p1 = p1
  p2 = p2
  t0 = t0
  t1 = t1
  None = None
  Procs = {p1, p2}
  Trees = {t0, t1}
  BaseTree = t0
  MaxCommits = 1
  MaxSeq = 1
  MaxRevision = 2
  MaxCrashes = 2
PROPERTIES AuditKept DeletionCompletes
CHECK_DEADLOCK FALSE
