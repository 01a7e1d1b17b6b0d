\* Violation expected: offset(key) of a stored key must name that key's cell.
CONSTANTS
    Keys <- MCKeys
    BucketCount <- MCBucketCount
    MaxRecords <- MCMaxRecords
    PrefixSize <- MCPrefixSize
    Values = {v1}
    Writers = {w1}
    Readers = {r1}
    Maintainers = {m1}
    NotFound = NotFound
    Unset = Unset

SPECIFICATION Spec

PROPERTY OffsetLocatesRecord
