\* Violation expected: a failed open() leaves the exclusive lock held.
CONSTANTS
    Procs = {"p1", "p2"}
    FlushEachWrite <- MCFlushEachWrite
    UseIndexes = TRUE

SPECIFICATION Spec

INVARIANT ClosedHoldsNoLock
