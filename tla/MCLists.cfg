CONSTANTS
  ads = ads
  kids = kids
  x = x
  y = y
  s1 = s1
  s2 = s2
  api = api
  periodic = periodic
  h1 = h1
  h2 = h2
  Groups = {ads}
  Names = {x, y}
  Sources = {s1, s2}
  Contents <- MCContents
  Refreshers = {api, periodic}
  MaxImports = 3
  Labels <- MCLabels
  Domains <- MCDomains
  Length <- MCLength
  Rank <- MCRank
  Lower <- MCLower
  Entries <- MCEntries
  MaxAdded = 4
  HostNames = {h1, h2}
  HostsFiles <- MCHostsFiles
  MaxLoads = 3
SPECIFICATION MCSpec
INVARIANTS
  TypeOK
  LastListInForce
  LookupIsRight
  ContainsIsRight
  HostsLookupIsRight
  LastFileInForce
CHECK_DEADLOCK FALSE
