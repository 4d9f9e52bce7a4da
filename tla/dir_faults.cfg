SPECIFICATION Spec
CONSTANTS
  Uids = {u1, u2}
  Passes = {a, b}
  GNames = {n1, Blank}
  Blank = Blank
  MaxGroups = 2
  Listers = {}
  Faults <- AllFaults
  Absent = Absent
  Empty = Empty
  NoReq = NoReq
  NoResult = NoResult
  NoAccount = NoAccount
INVARIANT TypeOK
INVARIANT GidsContiguous
INVARIANT AnswersTrue
PROPERTY OnlyOwnerRemoves
