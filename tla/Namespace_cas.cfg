CONSTANTS
  p1 = p1
  p2 = p2
  t1 = t1
  Paths = {p1}
  Order <- OnePath
  Limits = {}
  Targets = {t1}
  Workers = {w1, w2}
  None = None
  Requests <- Rivals
  MaxRev = 2
  MaxLate = 0
  MaxFaults = 0
SPECIFICATION ListingSpec
SYMMETRY Symmetry
INVARIANTS CasExclusive
CHECK_DEADLOCK FALSE
