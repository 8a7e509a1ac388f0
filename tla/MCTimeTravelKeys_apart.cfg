SPECIFICATION Spec
CONSTANTS
    v1 = v1
    v2 = v2
    Radix = 3
    Width = 2
    Names <- MCNames
    Values = {v1, v2}
    Batches <- MCBatches
    MaxBlock = 1
INVARIANTS TypeOK GetsAgree FirstsAgree  PartsAgree PostgresAgrees
