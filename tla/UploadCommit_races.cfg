CONSTANTS
  Objects = {o1}
  Chunks = {c1, c2}
  ChunksOf <- SharedChunks
  Paths = {p1}
  Workers = {w1, w2, w3}
  None = None
  BindModes = {FALSE}
  MaxFaults = 1
SPECIFICATION Spec
SYMMETRY Symmetry
INVARIANTS TypeOK VisibleComplete BoundDataStored CommittedNotStuck HiddenByFailedBind
CHECK_DEADLOCK FALSE
