SPECIFICATION MCSpec
CONSTANTS
    Run = {1, 2}
    Fixture <- ThreeRecords
    Sentinel = Sentinel
    None = None
    Modes <- ThreeModes
    Releases <- TwoReleases
    MaxRedelivery = 2
INVARIANTS
    TypeOK
    RoutedOnce
    AuditIsTheRest
    EvidenceHolds
    SuccessIsEvidence
    OrphanExplained
    LocalAgreesWithModels
PROPERTIES
    EveryDemoEnds
CHECK_DEADLOCK FALSE
