CONSTANTS
  q1 = q1
  q2 = q2
  s1 = s1
  c1 = c1
  c2 = c2
  g1 = g1
  g2 = g2
  None = None
  Groups = {g1, g2}
  Controllers = {c1, c2}
  Readers = {q1, q2, s1}
  ClientGroups <- MCClientGroups
SPECIFICATION LockFairSpec
PROPERTY ReaderReturns
CHECK_DEADLOCK FALSE
