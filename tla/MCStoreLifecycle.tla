-------------------------- MODULE MCStoreLifecycle --------------------------
(* Two processes on one directory: p1 flushes each write, p2 defers the    *)
(* flush to close, so both flush-lock protocols meet the other's crashes.  *)
EXTENDS StoreLifecycle

MCFlushEachWrite == [p \in Procs |-> p = "p1"]
=============================================================================
