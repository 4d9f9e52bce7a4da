SPECIFICATION FairSpec
CONSTANTS
  c1 = c1
  c2 = c2
  u1 = u1
  u2 = u2
  a = a
  b = b
  n1 = n1
  Clients = {c1, c2}
  Uids = {u1, u2}
  Passes = {a, b}
  GNames = {n1}
  Blank = Blank
  MaxGroups = 1
  Typed <- TwoOwners
  Posters = {c2}
  Faults = {"stray"}
  MaxTrouble = 1
  NoUser = NoUser
  NoGroup = NoGroup
  NoCommand = NoCommand
  Nobody = Nobody
  NoAccount = NoAccount
  NoResult = NoResult
PROPERTY LoginAnsweredInKind
