SPECIFICATION Spec
CONSTANTS
  a1 = a1  s1 = s1  o1 = o1  o2 = o2
  Release = {a1}
  Year = {1}
  ReleaseYear <- OneYear
  Source = {s1}
  Object = {o1, o2}
  SourceOf <- TwoObjects
  RunOf <- TwoRuns
  Stamp = {1}
  MaxChainLevel = 400
  Bootstrap = Bootstrap
  None = None
INVARIANTS GateJudgesPublishedFiles
