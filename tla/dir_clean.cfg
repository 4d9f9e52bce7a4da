SPECIFICATION Spec
CONSTANTS
  Uids = {u1, u2}
  Passes = {a, b}
  GNames = {n1, n2, Blank}
  Blank = Blank
  MaxGroups = 2
  Listers = {}
  Faults = {}
  Absent = Absent
  Empty = Empty
  NoReq = NoReq
  NoResult = NoResult
  NoAccount = NoAccount
INVARIANT SettledClean
INVARIANT CrashOnlyInGsr
PROPERTY ImplementsDirectory
