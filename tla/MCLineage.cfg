SPECIFICATION Spec
CONSTANTS
  a1 = a1  a2 = a2  b1 = b1  s1 = s1  o1 = o1
  Release = {a1, a2, b1}
  Year = {1, 2}
  ReleaseYear <- LineageYear
  Source = {s1}
  Object = {o1}
  SourceOf <- OneSource
  RunOf <- OneSource
  Stamp = {1}
  MaxChainLevel = 400
  Bootstrap = Bootstrap
  None = None
SYMMETRY SameYear
INVARIANTS TypeOK PointerMatchesRegistry LineageIntact RollbackNeverRefused RollbackRestoresView
PROPERTIES PublishedFrozen NoResurrection PromotionLosesNothing ImplementsHistory
