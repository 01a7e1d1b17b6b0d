\* Progress of the lock-free walks of the record hash table under weak fairness
\* of readers and maintainers; one value, since values do not affect progress.
CONSTANTS
    Keys <- MCKeys
    BucketCount <- MCBucketCount
    MaxRecords <- MCMaxRecords
    PrefixSize <- MCPrefixSize
    Values = {v1}
    Writers = {w1, w2}
    Readers = {r1}
    Maintainers = {m1}
    NotFound = NotFound
    Unset = Unset

SPECIFICATION FairSpec

PROPERTY WalksComplete
