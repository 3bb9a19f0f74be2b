CONSTANTS
    Tx = {t1, t2}
    Sid = {s1, s2}
    Block = {b1}
    NoTx = NoTx
    Sizes = {1}
    MaxList = 1
    Lists <- MCLists
    MemoryLimit = 2
    FinalConfirmations = 1
    Reassign = TRUE
SPECIFICATION Spec
INVARIANT AlarmPending
