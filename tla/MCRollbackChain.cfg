SPECIFICATION SqlSpec
CONSTANTS
  a1 = a1  a2 = a2  b1 = b1  b2 = b2  s1 = s1  o1 = o1
  Release = {a1, a2, b1, b2}
  Year = {1, 2}
  ReleaseYear <- LineageYear
  Source = {s1}
  Object = {o1}
  SourceOf <- OneSource
  RunOf <- OneSource
  Stamp = {1}
  MaxChainLevel = 2
  Bootstrap = Bootstrap
  None = None
INVARIANTS AssertsAreComplete
PROPERTIES SqlRollbackIsRollback
CHECK_DEADLOCK FALSE
