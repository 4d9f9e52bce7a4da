SPECIFICATION FairSpec
CONSTANTS
  Posters = {p1, p2}
  Readers = {}
  WithFile = {p2}
  Window = 2
  MaxFrom = 1
  Faults <- AllFaults
  NoDir = NoDir
  Absent = Absent
  Partial = Partial
CHECK_DEADLOCK FALSE
INVARIANT TypeOK
INVARIANT MidsContiguous
INVARIANT NoMixing
PROPERTY WrittenOnce
PROPERTY PostSettles
