SPECIFICATION FairWorkflow
CONSTANTS
  s1 = s1  s2 = s2  o1 = o1  o2 = o2  o3 = o3  o4 = o4
  a1 = a1  b1 = b1
  Release = {a1, b1}
  Year = {1, 2}
  ReleaseYear <- TwoYears
  Source = {s1, s2}
  Object = {o1, o2, o3, o4}
  SourceOf <- Sources
  RunOf <- Runs
  Stamp = {1}
  MaxChainLevel = 400
  Catalog <- Loop
  Bootstrap = Bootstrap
  None = None
INVARIANTS WorkflowTypeOK WholeManifests OutcomeStands LoneGateJudgesItsFiles
PROPERTIES EveryExecutionEnds
CHECK_DEADLOCK FALSE
