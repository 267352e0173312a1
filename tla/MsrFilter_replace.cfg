SPECIFICATION FairSpec
CONSTANTS
  v1 = v1
  s1 = s1
  r1 = r1
  r2 = r2
  f1 = f1
  f2 = f2
  NoFilter = NoFilter
  Vcpus <- MCVcpus
  Late = {}
  Setters <- MCSetters
  Rights <- MCRights
  Always <- MCAlways
  Filters <- MCFilters
INVARIANTS NoUseAfterFree NoLeak BitmapFresh
PROPERTIES SetterReturns FilterTakesEffect
