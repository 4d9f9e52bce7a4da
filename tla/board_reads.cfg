SPECIFICATION FairSpec
CONSTANTS
  Posters = {p1, p2}
  Readers = {r1}
  WithFile = {p2}
  Window = 1
  MaxFrom = 2
  Faults = {"interrupt", "desert", "open"}
  NoDir = NoDir
  Absent = Absent
  Partial = Partial
CHECK_DEADLOCK FALSE
INVARIANT NoHoles
INVARIANT AnnouncedAreSent
PROPERTY RetrieveSettles
