CONSTANTS
  Workers = {w1, w2}
  NKeys = 1
  PageLimit = 1
  Touched = {1}
  LockKeys <- Places
  LockKey <- SharedKey
  None = None
  MaxTime = 1
  MaxRev = 3
  MaxJobs = 2
  MaxFaults = 0
SPECIFICATION Spec
SYMMETRY Symmetry
PROPERTIES LockAlwaysHonoured
CHECK_DEADLOCK FALSE
