CONSTANTS
  ads = ads
  kids = kids
  default = default
  laptop = laptop
  tablet = tablet
  anyone = anyone
  domain = domain
  address = address
  alias = alias
  DenylistGroups <- MCDenylistGroups
  DefaultGroup = default
  Durations <- MCDurations
  AllowlistGroups <- MCAllowlistGroups
  ClientGroupsBlock <- MCClientGroupsBlock
  DefaultClient = anyone
  Entries = {domain, address, alias}
  Answers <- MCAnswers
  GroupArgs <- MCArgs
  MaxChanges = 2
  Labels <- MCLabels
  RecordTypes <- MCRecordTypes
  Configs <- MCConfigs
  Requests <- MCRequests
  trusted = trusted
  network = network
  Address = address
  Workers = {1, 2}
  NameLists <- MCNameLists
  Failed = Failed
  Setups <- MCSetups
  ByAddress = {}
  ByName <- MCByName
  ByNetwork = {network}
  Default = default
  TTL = 2
  Interval = 1
  Timeout = 1
SPECIFICATION MCSpec
INVARIANTS
  TypeOK
  BlockedForAReason
  DeniedIsBlocked
  LoopIffCycle
  AnswersTheRequest
  RewritesStayInside
  
  PanicsOnlyAtATarget
  NamesAreRecent
CHECK_DEADLOCK FALSE
