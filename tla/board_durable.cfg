SPECIFICATION Spec
CONSTANTS
  Posters = {p1, p2}
  Readers = {r1}
  WithFile = {p2}
  Window = 2
  MaxFrom = 2
  Faults <- DurableFaults
  NoDir = NoDir
  Absent = Absent
  Partial = Partial
CHECK_DEADLOCK FALSE
INVARIANT AckedIntact
INVARIANT RetrieveSeesAcked
PROPERTY ImplementsLog
