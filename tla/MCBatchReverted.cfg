SPECIFICATION Spec
CONSTANTS
  r1 = r1  r2 = r2  r3 = r3
  MaxAttempt = 3
  Row = {r1, r2, r3}
  Snapshot <- TwoContents
  Contract <- OneColumn
  Schema <- AsPinned
  Digest <- SmallDigests
  Modulus = 5
  MaximumAttempts = 2
  Modes <- Reverting
  None = None
INVARIANTS CorrectionGetsSnapshot
CHECK_DEADLOCK FALSE
