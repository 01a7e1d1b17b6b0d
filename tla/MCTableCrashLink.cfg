\* Violation expected: with a two-bit link the fourth record is allocated at
\* the all-ones index, which every walk reads as not_found.
CONSTANTS
    Keys <- MCKeys
    BucketCount <- MCBucketCount
    MaxRecords <- MCLinkRecords
    Writers <- MCOneWriter
    MaxHolds <- MCMaxHolds
    w1 = w1
    w2 = w2
    w3 = w3
    NotFound <- MCAllOnes
    Unset = Unset

SPECIFICATION StoreSpec

INVARIANT SyncedStoresDurable

CHECK_DEADLOCK FALSE
