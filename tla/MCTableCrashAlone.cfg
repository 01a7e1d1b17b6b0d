\* The table restarted after a crash with nothing but its own watermark.
CONSTANTS
    Keys <- MCKeys
    BucketCount <- MCBucketCount
    MaxRecords <- MCMaxRecords
    Writers <- MCWriters
    MaxHolds <- MCMaxHolds
    w1 = w1
    w2 = w2
    w3 = w3
    NotFound = NotFound
    Unset = Unset

SYMMETRY WriterSymmetry

SPECIFICATION TableSpec

INVARIANT SyncedStoresDurable
