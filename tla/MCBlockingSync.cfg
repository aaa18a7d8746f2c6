CONSTANTS
  a = a
  b = b
  ads = ads
  kids = kids
  default = default
  unknown = unknown
  DenylistGroups <- MCDenylistGroups
  DefaultGroup = default
  GroupArgs <- MCArgs
  Durations <- MCDurations
  Instances = {a, b}
  Controllers = {a, b}
  MayLose = TRUE
  MaxCalls = 3
  MaxRestarts = 1
SPECIFICATION FairSpec
INVARIANTS
  EveryStatusConsistent
  SynchronizedIfOrderly
PROPERTY ComesToRest
CHECK_DEADLOCK FALSE
