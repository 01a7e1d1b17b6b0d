\* Violation expected: create() over a partly present directory adds some files.
CONSTANTS
    Procs = {"p1", "p2"}
    FlushEachWrite <- MCFlushEachWrite
    UseIndexes = TRUE

SPECIFICATION Spec

PROPERTY CreateAllOrNothing
