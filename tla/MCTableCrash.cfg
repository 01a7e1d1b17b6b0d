\* The table inside the store's flush-lock bracket, across crashes.
\* A crash in deferred mode, or inside a flushed write, leaves the flush
\* lock marker and open() refuses the store for good: the system stops.
CONSTANTS
    Keys <- MCKeys
    BucketCount <- MCBucketCount
    MaxRecords <- MCMaxRecords
    Writers <- MCWriters
    MaxHolds <- MCMaxHolds
    w1 = w1
    w2 = w2
    w3 = w3
    NotFound = NotFound
    Unset = Unset

SYMMETRY WriterSymmetry

SPECIFICATION StoreSpec

INVARIANT TypeOK
INVARIANT SyncedStoresDurable
INVARIANT CleanStoreCommitted

CHECK_DEADLOCK FALSE
