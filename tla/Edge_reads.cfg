CONSTANTS
  Readers = {r1, r2}
  Content <- TwoVersions
  Ranges <- OneRange
  CidTtl = 0
  NamespaceTtl = 0
  Window = 2
  BatchMax = 1
  None = None
  MaxTime = 1
  MaxEvents = 3
  MaxReads = 2
  MaxFaults = 1
SPECIFICATION Spec
INVARIANTS AnswersAgree KeyFresh PurgeStillDue
SYMMETRY Symmetry
CHECK_DEADLOCK FALSE
