CONSTANTS
  p1 = p1
  p2 = p2
  t1 = t1
  Paths = {p1, p2}
  Order <- PathOrder
  Limits = {1}
  Targets = {t1}
  Workers = {w1, w2}
  None = None
  Requests <- AllKinds
  MaxRev = 2
  MaxLate = 1
  MaxFaults = 1
SPECIFICATION ListingSpec
SYMMETRY Symmetry
INVARIANTS TypeOK JournalOrdered AckedVisible ListMatchesResolve ListComplete
PROPERTIES PagesAgree
CHECK_DEADLOCK FALSE
