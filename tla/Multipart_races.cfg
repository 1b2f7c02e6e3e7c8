CONSTANTS
  Workers = {w1, w2}
  Uploads = {u1}
  NParts = 2
  Contents <- PartContents
  FixedChunkSize = 2
  None = None
  MaxRev = 4
  MaxJobs = 4
  MaxFaults = 1
SPECIFICATION Spec
SYMMETRY Symmetry
INVARIANTS TypeOK CompletedIsParts
PROPERTIES NotBroughtBack DeletedWasEmptied
CHECK_DEADLOCK FALSE
