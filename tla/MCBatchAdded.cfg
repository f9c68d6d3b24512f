SPECIFICATION Spec
CONSTANTS
  r1 = r1  r2 = r2  r3 = r3
  MaxAttempt = 1
  Row = {r1, r2, r3}
  Snapshot <- TwoContents
  Contract <- OneColumn
  Schema <- WithDate
  Digest <- SmallDigests
  Modulus = 5
  MaximumAttempts = 2
  Modes <- AnyOverlap
  None = None
INVARIANTS AddedColumnsAdmitted
CHECK_DEADLOCK FALSE
