CONSTANTS
  ads = ads
  kids = kids
  default = default
  unknown = unknown
  DenylistGroups <- MCDenylistGroups
  DefaultGroup = default
  Durations <- MCDurations
  GroupArgs <- MCAllArgs
  MaxCalls = 4
  MaxCallbacks = 2
SPECIFICATION FairSpec
INVARIANTS
  StatusConsistent
  ArmedTimerIsCurrent
PROPERTIES
  DisableEndsUnlessRefused
  DisableLasts
CHECK_DEADLOCK FALSE
