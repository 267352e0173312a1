SPECIFICATION Spec
CONSTANTS
  v1 = v1
  s1 = s1
  r1 = r1
  r2 = r2
  f1 = f1
  f2 = f2
  NoFilter = NoFilter
  Vcpus <- MCVcpus
  Late <- MCVcpus
  Setters <- MCSetters
  Rights <- MCAlways
  Always <- MCAlways
  Filters <- MCFilters
INVARIANTS LateBitmapFresh
