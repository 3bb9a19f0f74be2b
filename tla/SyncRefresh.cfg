SPECIFICATION Spec
CONSTANTS
    Sid = {"s1", "s2", "s3"}
    Tx = {"t1", "t2"}
    TxOf <- MCTxOf
    Queued <- MCQueued
    WithContents = {"t1"}
    MaxAssigned = 3
    MaxSyncs = 2
INVARIANTS
    SyncTellsAll
CHECK_DEADLOCK FALSE
