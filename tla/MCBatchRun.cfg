SPECIFICATION FairSpec
CONSTANTS
  r1 = r1  r2 = r2  r3 = r3
  MaxAttempt = 2
  Row = {r1, r2, r3}
  Snapshot <- TwoContents
  Contract <- OneColumn
  Schema <- SomeSchemas
  Digest <- SmallDigests
  Modulus = 5
  MaximumAttempts = 2
  Modes <- AnyOverlap
  None = None
INVARIANTS TypeOK CheckpointBacked ConflictNeedsRival OneCheckpointPerContent ReturnsExported
PROPERTIES HistoryImmutable EveryAttemptEnds
CHECK_DEADLOCK FALSE
