CONSTANTS
    Tx = {t1, t2}
    Sid = {s1, s2, s3}
    Block = {b1, b2}
    NoTx = NoTx
    Sizes = {1, 2}
    MaxList = 1
    Lists <- MCLists
    MemoryLimit = 2
    FinalConfirmations = 2
    Reassign = FALSE
SPECIFICATION Spec
SYMMETRY Symmetry
INVARIANTS TypeOK MappingsAgree EverythingExpires AlarmPending MemoryBounded SizeIsSum
