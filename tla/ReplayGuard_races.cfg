CONSTANTS
  Requests = {r1, r2, r3}
  Instances = {i1, i2}
  Keys = {k1, c1}
  ChunkKeys = {c1}
  Idems = {m1, m2}
  NoIdem = NoIdem
  None = None
SPECIFICATION Spec
SYMMETRY Symmetry
INVARIANTS TypeOK FreshOnce AdmittedAgree
PROPERTIES Admits RetriesNotRerun
CHECK_DEADLOCK FALSE
