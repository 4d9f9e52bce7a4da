SPECIFICATION FairSpec
CONSTANTS
  Uids = {u1}
  Passes = {a}
  GNames = {n1}
  Blank = Blank
  MaxGroups = 2
  Listers = {l1}
  Faults = {"create", "open", "remove", "hangup"}
  Absent = Absent
  Empty = Empty
  NoReq = NoReq
  NoResult = NoResult
  NoAccount = NoAccount
CHECK_DEADLOCK FALSE
INVARIANT UlistCrashesOnlyUnnamed
PROPERTY RequestsAnswered
