CONSTANTS
  Objects = {o1, o2}
  Chunks = {c1, c2}
  ChunksOf <- SharedChunks
  Paths = {p1}
  Workers = {w1}
  None = None
  BindModes = {TRUE}
  MaxFaults = 0
SPECIFICATION Spec
SYMMETRY Symmetry
INVARIANT AckedReadable
CHECK_DEADLOCK FALSE
