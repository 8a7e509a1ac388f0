\* v1 readers while the store is not ready.
SPECIFICATION FeedServingSpec
CONSTANTS
    c1 = c1
    c2 = c2
    k1 = k1
    k2 = k2
    v1 = v1
    v2 = v2
    Nil = Nil
    Keys <- MCKeys
    Values = {v1, v2}
    MaxUint64 = 1
    Clients = {c1, c2}
    Setters <- One
    Controllers <- Other
    Batches <- MCBatches
    MaxRestarts = 1
    Readers = {r1}
    Requests <- MCRequests
    Workers = 1
INVARIANT LegacyReadinessAnswered
