CONSTANTS
  q1 = q1  q2 = q2  api = api  sub = sub  g1 = g1  g2 = g2  None = None
  Readers <- MCReaders
  Queries <- MCReaders
  Controllers = {api, sub}
  Groups = {g1, g2}
  ClientGroups <- MCClientGroups
  Subscriber = sub
  ChanCap = 1
  Stored = 1
SPECIFICATION FairRedisSpec
PROPERTY StatusIsAtomic
PROPERTY EverybodyGoesOn
CHECK_DEADLOCK FALSE
