SPECIFICATION FairSpec
CONSTANTS
  c1 = c1
  c2 = c2
  u1 = u1
  u2 = u2
  a = a
  b = b
  n1 = n1
  Clients = {c1, c2}
  Uids = {u1}
  Passes = {a, b}
  GNames = {n1}
  Blank = Blank
  MaxGroups = 1
  Typed <- OneOwner
  Posters = {c1}
  Faults <- AllFaults
  MaxTrouble = 1
  NoUser = NoUser
  NoGroup = NoGroup
  NoCommand = NoCommand
  Nobody = Nobody
  NoAccount = NoAccount
  NoResult = NoResult
INVARIANT TypeOK
INVARIANT AnswerIsOurs
INVARIANT SessionInStep
PROPERTY NoInheritedGroup
PROPERTY WaitsEnd
