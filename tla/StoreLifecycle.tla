--------------------------- MODULE StoreLifecycle ---------------------------
(***************************************************************************)
(* store (store.cpp): the files of a database directory, the exclusive   *)
(* lock and the flush lock, used by processes that create, open, write,   *)
(* close and crash.                                                       *)
(*                                                                         *)
(*  files      content files present in the directory                     *)
(*  exclusive  processes holding exclusive_lock (an OS advisory lock,      *)
(*             released when its process dies)                            *)
(*  flushLock  shared holds of flush_lock; they are on disk and survive a  *)
(*             crash, which is how open() detects a dirty shutdown        *)
(*  unflushed  processes whose mapped table pages hold unflushed writes   *)
(*  torn       the files on disk may hold a partly persisted write        *)
(*                                                                         *)
(* exclusive_lock, flush_lock and the tables' flush are not under src/;   *)
(* their semantics are taken from spec 4.5 and 7.  A write is the         *)
(* begin_write / table writes / end_write bracket data_base puts around   *)
(* every store, one at a time per process.                                *)
(***************************************************************************)
EXTENDS Naturals, Sequences, FiniteSets

CONSTANTS
    Procs,           \* processes using the same directory
    FlushEachWrite,  \* Procs -> BOOLEAN: the flush_each_write argument
    UseIndexes       \* the with_indexes argument

ASSUME FlushEachWrite \in [Procs -> BOOLEAN] /\ UseIndexes \in BOOLEAN

\* The files store::create makes, in its order.
ContentFiles == <<"header_index", "block_index", "block_table",
                  "transaction_index", "transaction_table">>
IndexFiles == <<"history_table", "history_rows">>
CreateOrder == IF UseIndexes THEN ContentFiles \o IndexFiles ELSE ContentFiles
AllFiles == {CreateOrder[i] : i \in 1 .. Len(CreateOrder)}

VARIABLES files, exclusive, flushLock, unflushed, torn,
          state  \* per process: "closed", "open", "writing", "ending"

vars == <<files, exclusive, flushLock, unflushed, torn, state>>

Active == {"open", "writing", "ending"}

\* create_file: "Disallow create with existing file."  (The other failure,
\* a bad ofstream, is an I/O error and is not modelled.)
CreateFileFails(f) == f \in files

-----------------------------------------------------------------------------
(* Mutant: create() without its "if (!use_indexes) return created".     *)
CreateAlwaysIndexes(p) ==
    LET order == ContentFiles \o IndexFiles
        stop == {i \in 1 .. Len(order) : CreateFileFails(order[i])}
        upto == IF stop = {} THEN Len(order)
                ELSE (CHOOSE i \in stop : \A j \in stop : i <= j) - 1
    IN /\ state[p] = "closed"
       /\ files' = files \cup {order[i] : i \in 1 .. upto}
       /\ UNCHANGED <<exclusive, flushLock, unflushed, torn, state>>

(* Mutant: open() ignores the result of exclusive_lock_.lock().            *)
OpenIgnoresExclusive(p) ==
    /\ state[p] = "closed"
    /\ exclusive' = exclusive \cup {p}
    /\ \/ /\ flushLock /= {}
          /\ UNCHANGED <<flushLock, state>>
       \/ /\ flushLock = {}
          /\ flushLock' = IF FlushEachWrite[p] THEN flushLock
                          ELSE flushLock \cup {p}
          /\ state' = [state EXCEPT ![p] = "open"]
    /\ UNCHANGED <<files, unflushed, torn>>

(* Mutant: end_write releases the flush lock before it flushes.            *)
EndWriteUnlockFirst(p) ==
    /\ state[p] = "writing"
    /\ \/ /\ ~FlushEachWrite[p]
          /\ state' = [state EXCEPT ![p] = "open"]
          /\ UNCHANGED flushLock
       \/ /\ FlushEachWrite[p]
          /\ flushLock' = flushLock \ {p}
          /\ state' = [state EXCEPT ![p] = "ending"]
    /\ UNCHANGED <<files, exclusive, unflushed, torn>>

(* store::create: create_file on each file in order, stopping at the first *)
(* that fails; create_file fails when the file already exists.  The files  *)
(* before the failing one stay created.                                    *)
Create(p) ==
    LET stop == {i \in 1 .. Len(CreateOrder) : CreateFileFails(CreateOrder[i])}
        upto == IF stop = {} THEN Len(CreateOrder)
                ELSE (CHOOSE i \in stop : \A j \in stop : i <= j) - 1
    IN /\ state[p] = "closed"
       /\ files' = files \cup {CreateOrder[i] : i \in 1 .. upto}
       /\ UNCHANGED <<exclusive, flushLock, unflushed, torn, state>>

(* store::open: exclusive_lock_.lock() && flush_lock_.try_lock() &&        *)
(* (flush_each_write() || flush_lock_.lock_shared()).  A false from        *)
(* try_lock returns at once: the exclusive lock stays taken.               *)
Open(p) ==
    /\ state[p] = "closed"
    /\ \/ /\ exclusive \ {p} /= {}
          /\ UNCHANGED vars
       \/ /\ exclusive \ {p} = {}
          /\ exclusive' = {p}
          /\ \/ /\ flushLock /= {}
                /\ UNCHANGED <<flushLock, state>>
             \/ /\ flushLock = {}
                /\ flushLock' = IF FlushEachWrite[p] THEN flushLock
                                ELSE flushLock \cup {p}
                /\ state' = [state EXCEPT ![p] = "open"]
          /\ UNCHANGED <<files, unflushed, torn>>

(* store::begin_write: !flush_each_write() || flush_lock_.lock_shared().   *)
BeginWrite(p) ==
    /\ state[p] = "open"
    /\ flushLock' = IF FlushEachWrite[p] THEN flushLock \cup {p} ELSE flushLock
    /\ state' = [state EXCEPT ![p] = "writing"]
    /\ UNCHANGED <<files, exclusive, unflushed, torn>>

\* The table writes between begin_write and end_write dirty mapped pages.
Write(p) ==
    /\ state[p] = "writing"
    /\ unflushed' = unflushed \cup {p}
    /\ UNCHANGED <<files, exclusive, flushLock, torn, state>>

(* store::end_write: !flush_each_write() || (flush() && unlock_shared()). *)
(* flush() may fail, and end_write then returns false holding the lock.    *)
EndWrite(p) ==
    /\ state[p] = "writing"
    /\ \/ /\ ~FlushEachWrite[p]
          /\ state' = [state EXCEPT ![p] = "open"]
          /\ UNCHANGED unflushed
       \/ /\ FlushEachWrite[p]
          /\ unflushed' = unflushed \ {p}
          /\ state' = [state EXCEPT ![p] = "ending"]
       \/ /\ FlushEachWrite[p]
          /\ state' = [state EXCEPT ![p] = "open"]
          /\ UNCHANGED unflushed
    /\ UNCHANGED <<files, exclusive, flushLock, torn>>

\* ... && flush_lock_.unlock_shared()
EndWriteUnlock(p) ==
    /\ state[p] = "ending"
    /\ flushLock' = flushLock \ {p}
    /\ state' = [state EXCEPT ![p] = "open"]
    /\ UNCHANGED <<files, exclusive, unflushed, torn>>

(* The tables flush as they close (spec 4.1), then store::close:           *)
(* (flush_each_write() || flush_lock_.unlock_shared()) &&                  *)
(* exclusive_lock_.unlock().                                               *)
Close(p) ==
    /\ state[p] = "open"
    /\ unflushed' = unflushed \ {p}
    /\ flushLock' = IF FlushEachWrite[p] THEN flushLock ELSE flushLock \ {p}
    /\ exclusive' = exclusive \ {p}
    /\ state' = [state EXCEPT ![p] = "closed"]
    /\ UNCHANGED <<files, torn>>

\* The process dies anywhere and is started again.  The OS drops its
\* exclusive lock; the flush lock's holds stay on disk; pages not flushed
\* may reach the disk in part.
Crash(p) ==
    /\ exclusive' = exclusive \ {p}
    /\ torn' = (torn \/ p \in unflushed)
    /\ unflushed' = unflushed \ {p}
    /\ state' = [state EXCEPT ![p] = "closed"]
    /\ UNCHANGED <<files, flushLock>>

-----------------------------------------------------------------------------
\* A directory as a process may find it: any content files, no locks held,
\* the last shutdown clean.
Init ==
    /\ files \in SUBSET AllFiles
    /\ exclusive = {}
    /\ flushLock = {}
    /\ unflushed = {}
    /\ torn = FALSE
    /\ state = [p \in Procs |-> "closed"]

Next ==
    \E p \in Procs :
        \/ Create(p) \/ Open(p) \/ BeginWrite(p) \/ Write(p)
        \/ EndWrite(p) \/ EndWriteUnlock(p) \/ Close(p) \/ Crash(p)

Spec == Init /\ [][Next]_vars

-----------------------------------------------------------------------------
TypeOK ==
    /\ files \subseteq AllFiles
    /\ exclusive \subseteq Procs /\ flushLock \subseteq Procs
    /\ unflushed \subseteq Procs /\ torn \in BOOLEAN
    /\ state \in [Procs -> {"closed"} \cup Active]

(* The exclusive lock keeps a store open in one process at a time.         *)
OneProcessOpen ==
    \A p, q \in Procs : state[p] \in Active /\ state[q] \in Active => p = q

(* No process opens a store that a crash may have left with a partly       *)
(* persisted write: the flush lock, taken before the first write and       *)
(* released only after a flush, still stands when the crash happened with  *)
(* unflushed pages, and open() refuses (spec 4.5, scenario 6).  This must  *)
(* hold in both flush modes, across any number of crashes and restarts.    *)
DirtyStoreNeverOpened == \A p \in Procs : state[p] \in Active => ~torn

(* open() failures leave no partial state: a process whose store is not    *)
(* open holds no exclusive lock (spec 7).                                   *)
ClosedHoldsNoLock == \A p \in Procs : state[p] = "closed" => p \notin exclusive

(* create() refuses if any content file already exists, and otherwise      *)
(* creates them all (spec 4.5): it never adds only some of the files.       *)
CreateAllOrNothing ==
    [][\A p \in Procs :
         Create(p) => files' = files \/ (files = {} /\ files' = AllFiles)]_vars

=============================================================================
