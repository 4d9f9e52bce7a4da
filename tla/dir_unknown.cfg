SPECIFICATION Spec
CONSTANTS
  Uids = {u1, u2}
  Passes = {a}
  GNames = {n1}
  Blank = Blank
  MaxGroups = 1
  Listers = {}
  Faults = {}
  Absent = Absent
  Empty = Empty
  NoReq = NoReq
  NoResult = NoResult
  NoAccount = NoAccount
INVARIANT UnknownGroupAnswered
