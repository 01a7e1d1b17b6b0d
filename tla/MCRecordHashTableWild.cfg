\* Violation expected: unlink of a key whose bucket is empty must not read outside the records.
CONSTANTS
    Keys <- MCKeys
    BucketCount <- MCBucketCount
    MaxRecords <- MCMaxRecords
    PrefixSize <- MCPrefixSize
    Values = {v1}
    Writers = {w1}
    Readers = {r1}
    Maintainers = {m1}
    NotFound = NotFound
    Unset = Unset

SPECIFICATION Spec

INVARIANT NoWildRead
