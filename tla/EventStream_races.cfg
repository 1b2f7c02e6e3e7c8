CONSTANTS
  Writers = {w1, w2}
  Subs = {s1}
  Kinds = {k1, k2}
  Wanted = {k1}
  None = None
  Window = 2
  BatchMax = 2
  MaxIdle = 1
  MaxSeq = 3
  MaxFaults = 1
SPECIFICATION Spec
SYMMETRY Symmetry
INVARIANTS TypeOK AtLeastOnce InOrder
PROPERTY EventsKept
CHECK_DEADLOCK FALSE
