SPECIFICATION LocalSpec
CONSTANTS
  a1 = a1  s1 = s1  s2 = s2  o1 = o1  o2 = o2  o3 = o3
  Release = {a1}
  Year = {1}
  ReleaseYear <- OneYear
  Source = {s1, s2}
  Object = {o1, o2, o3}
  SourceOf <- TwoSources
  RunOf <- TwoRuns
  Stamp = {1, 2}
  MaxChainLevel = 400
  Bootstrap = Bootstrap
  None = None
INVARIANTS PublishedComplete PublishedGatePassed LocalStoreAgrees
