CONSTANTS
    MaxPages = 4
    k1 = k1
    k2 = k2
    k3 = k3
    Keys <- MCKeys
    RecordIDs = {r1, r2}
    BucketOf <- MCBucketOf
    Capacity = 1
    AnyRid = AnyRid
SPECIFICATION IndexSpec
INVARIANTS ChainsSound NoDuplicateEntries NoOrphanBuckets
PROPERTIES CallReturns ImplementsIndexSet
