SPECIFICATION FairSpec
CONSTANTS
  c1 = c1
  c2 = c2
  Conns = {c1, c2}
  UdpBuffer = 2
  Base = 5
  MaxFds = 10
  MaxForks = 3
  MaxGroups = 2
INVARIANT TypeOK
INVARIANT DatagramsFirst
PROPERTY LeavesOnlyExhausted
PROPERTY DiesOnlyExhausted
PROPERTY ConnectionServed
