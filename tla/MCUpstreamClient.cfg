CONSTANTS
  Failed = Failed
  ip1 = ip1
  ip2 = ip2
  Addresses = {ip1, ip2}
  MaxIPs = 2
  Attempts = 3
  ChanCap = 2
SPECIFICATION FairSpec
INVARIANTS
  AlwaysAnAddress
  BestOfBoth
  
PROPERTY NothingLeftBehind
CHECK_DEADLOCK FALSE
