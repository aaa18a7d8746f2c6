CONSTANTS
  u1 = u1
  u2 = u2
  Upstreams <- MCUpstreams
  Bootstrap = boot
  Configs <- MCConfigs
  Queries = {q1, q2}
SPECIFICATION GroupFairSpec
INVARIANTS
  GroupTypeOK
  FailsForAReason
  SomethingToChoose
  
PROPERTY QueryEnds
CHECK_DEADLOCK FALSE
