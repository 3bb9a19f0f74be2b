SPECIFICATION ProtocolSpec
CONSTANTS
    Sid = {"s1", "s2", "s3"}
    Tx = {"t1", "t2"}
    TxOf <- MCTxOf
    Queued <- MCQueued
    WithContents = {"t1"}
    MaxAssigned = 3
    MaxSyncs = 2
    Scenarios <- MCScenarios
    MaxSends = 2
INVARIANTS
    MissingOnlyPassedOver
    Throttled
    FieldsArrive
    InStep
    VersionAgreed
    CutThroughAgrees
    PreviewAgrees
PROPERTIES
    SyncEnds
CHECK_DEADLOCK FALSE
