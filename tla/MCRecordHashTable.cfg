\* Safety of the concurrent record hash table: two writers, a reader and
\* a maintainer over two keys that share one bucket, three records.
CONSTANTS
    Keys <- MCKeys
    BucketCount <- MCBucketCount
    MaxRecords <- MCMaxRecords
    PrefixSize <- MCPrefixSize
    Values = {v1, v2}
    Writers = {w1, w2}
    Readers = {r1}
    Maintainers = {m1}
    NotFound = NotFound
    Unset = Unset

SPECIFICATION Spec

INVARIANT TypeOK
INVARIANT ChainsWellFormed
PROPERTY AbstractSpec
PROPERTY FindLinearizable
PROPERTY UnlinkFalseOnlyIfAbsent
