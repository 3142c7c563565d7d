SPECIFICATION Spec
CONSTANTS
  a = a
  b = b
  s1 = s1
  s2 = s2
  c1 = c1
  c2 = c2
  h1 = h1
  h2 = h2
  h3 = h3
  None = None
  Repos = {a, b}
  Sessions = {s1, s2}
  RepoOf <- OneAndOne
  Callers = {c1, c2}
  Hubs = {h1, h2, h3}
  Quota = 1
  MaxEvents = 2
  MaxSeq = 4
  MaxLives = 3
INVARIANTS
  QuotaKept
  TimersOwned
  TailGapless
  
PROPERTIES
  AckedPublished
SYMMETRY Symmetry
CHECK_DEADLOCK FALSE
