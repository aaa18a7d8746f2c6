CONSTANTS
  ads = ads
  kids = kids
  x = x
  y = y
  s1 = s1
  s2 = s2
  api = api
  periodic = periodic
  Groups = {ads}
  Names = {x, y}
  Sources = {s1}
  Contents <- MCContents
  Refreshers = {api, periodic}
  MaxImports = 3
SPECIFICATION Spec
INVARIANT NoMixture
CHECK_DEADLOCK FALSE
