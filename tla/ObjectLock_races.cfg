CONSTANTS
  Workers = {w1, w2}
  NKeys = 3
  PageLimit = 2
  Touched = {1}
  LockKeys <- Places
  LockKey <- SharedKey
  None = None
  MaxTime = 1
  MaxRev = 6
  MaxJobs = 3
  MaxFaults = 1
SPECIFICATION Spec
SYMMETRY Symmetry
INVARIANTS TypeOK AllCopied
PROPERTIES LockHonoured LockKept
CHECK_DEADLOCK FALSE
