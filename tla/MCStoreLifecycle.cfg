\* Safety of the store lifecycle across crashes and restarts.
CONSTANTS
    Procs = {"p1", "p2"}
    FlushEachWrite <- MCFlushEachWrite
    UseIndexes = FALSE

SPECIFICATION Spec

INVARIANT TypeOK
INVARIANT OneProcessOpen
INVARIANT DirtyStoreNeverOpened
