SPECIFICATION Spec
CONSTANTS
  Posters = {p1, p2}
  Readers = {r1}
  WithFile = {}
  Window = 2
  MaxFrom = 1
  Faults = {}
  NoDir = NoDir
  Absent = Absent
  Partial = Partial
CHECK_DEADLOCK FALSE
INVARIANT EntryNamesItsAuthor
