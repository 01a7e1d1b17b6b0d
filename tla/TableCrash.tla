----------------------------- MODULE TableCrash -----------------------------
(***************************************************************************)
(* record_hash_table (record_hash_table.ipp) across a process crash: the  *)
(* table's store, record_manager's allocation watermark with its start()  *)
(* and sync(), and the store's flush-lock bracket (store.cpp) that        *)
(* data_base puts around every write of its writer threads.               *)
(*                                                                         *)
(*  buckets, records  the mapped file: hash_table_header's bucket array   *)
(*                    and the record cells.  A process crash does not     *)
(*                    lose them: the pages belong to the file.            *)
(*  count             record_manager's in-memory watermark (lost on a     *)
(*                    crash)                                              *)
(*  synced            the watermark sync() last wrote to the file         *)
(*  durable           history: the chains as they were at the last sync() *)
(*  up, mode          the process is running; its flush_each_write        *)
(*  dirty             the flush_lock marker on disk                       *)
(*  holds             the process's shared holds of flush_lock (spec 4.5: *)
(*                    a shared lock, so it counts its holders)            *)
(*  writing           per writer: inside begin_write / end_write          *)
(*  wpc, wcur, wkey   per writer: its store call and the call's locals    *)
(*                                                                         *)
(* Stores of several writers overlap: create_mutex_ orders their link and *)
(* publish, while one writer's end_write flushes and syncs in the middle  *)
(* of another's store.                                                     *)
(***************************************************************************)
EXTENDS Naturals, SequencesExt

CONSTANTS
    Keys,          \* small naturals; remainder() reads them as numbers
    BucketCount,   \* the header's bucket count
    MaxRecords,    \* bound on record_manager allocations
    Writers,       \* the threads that write through the store
    MaxHolds,      \* bound on flush_lock holds: a failed flush leaks one
    NotFound,      \* all-ones link: the empty bucket and the chain's end
    Unset          \* the next bytes of a cell never written

ASSUME Keys \subseteq Nat /\ BucketCount \in Nat \ {0} /\ MaxRecords \in Nat

Buckets == 0 .. BucketCount - 1

VARIABLES buckets, records, count, synced, durable,
          up, mode, dirty, holds, writing, wpc, wcur, wkey

tableVars == <<buckets, records, count, synced, durable, wpc, wcur, wkey>>
storeVars == <<up, mode, dirty, holds, writing>>
vars == <<tableVars, storeVars>>

-----------------------------------------------------------------------------
(* hash_table_header::remainder (outside src/, spec 4.3).                   *)
Remainder(k) == k % BucketCount

RECURSIVE ChainFrom(_, _)
ChainFrom(l, fuel) ==
    IF l = NotFound \/ l \notin DOMAIN records \/ fuel = 0 THEN << >>
    ELSE <<l>> \o ChainFrom(records[l].next, fuel - 1)

\* The links a find from bucket b visits (while current != not_found), cut
\* short if the chain cycles.
Chain(b) == ChainFrom(buckets[b], MaxRecords + 1)

\* record_row::create: new_records(1) bumps the watermark; the key and the
\* value are serialized into the cell and the next bytes are skipped, so a
\* cell handed out again keeps the next link it had.
CreateCell(l, k) ==
    IF l \in DOMAIN records THEN [records EXCEPT ![l].key = k]
    ELSE records @@ (l :> [key |-> k, next |-> Unset])

\* create_mutex_ is held from a store's link to its publish.
MutexFree == \A o \in Writers : wpc[o] /= "publish"

-----------------------------------------------------------------------------
(* record_hash_table::start: header_.start() && manager_.start(); the      *)
(* header's bucket count always matches here, the manager reads the        *)
(* watermark sync() left in the file.                                      *)
Start ==
    /\ ~up
    /\ up' = TRUE
    /\ count' = synced
    /\ UNCHANGED <<buckets, records, synced, durable, wpc, wcur, wkey>>

(* store: row::create allocates and fills the cell (outside the lock).     *)
StoreCreate(w, k) ==
    /\ up /\ wpc[w] = "idle"
    /\ count < MaxRecords
    /\ records' = CreateCell(count, k)
    /\ count' = count + 1
    /\ wcur' = [wcur EXCEPT ![w] = count] /\ wkey' = [wkey EXCEPT ![w] = k]
    /\ wpc' = [wpc EXCEPT ![w] = "link"]
    /\ UNCHANGED <<buckets, synced, durable>>

(* Mutant: the bucket is read for the next link after the cell was        *)
(* published in it, so the cell links to itself.                          *)
StoreLinkSelfLoop(w) ==
    /\ up /\ wpc[w] = "link" /\ MutexFree
    /\ records' = [records EXCEPT ![wcur[w]].next = wcur[w]]
    /\ wpc' = [wpc EXCEPT ![w] = "publish"]
    /\ UNCHANGED <<buckets, count, synced, durable, wcur, wkey>>

(* store: create_mutex_.lock(); record.link(read_bucket_value(key)).       *)
StoreLink(w) ==
    /\ up /\ wpc[w] = "link" /\ MutexFree
    /\ records' = [records EXCEPT ![wcur[w]].next = buckets[Remainder(wkey[w])]]
    /\ wpc' = [wpc EXCEPT ![w] = "publish"]
    /\ UNCHANGED <<buckets, count, synced, durable, wcur, wkey>>

(* store: link(key, index) writes the bucket; create_mutex_.unlock().      *)
StorePublish(w) ==
    /\ up /\ wpc[w] = "publish"
    /\ buckets' = [buckets EXCEPT ![Remainder(wkey[w])] = wcur[w]]
    /\ wpc' = [wpc EXCEPT ![w] = "idle"] /\ wcur' = [wcur EXCEPT ![w] = NotFound]
    /\ UNCHANGED <<records, count, synced, durable, wkey>>

(* record_hash_table::sync -> manager_.sync(): the watermark is written    *)
(* back to the file, the commit point of the stores before it.  The        *)
(* history keeps, of each chain, the cells that commit covers.            *)
SyncEffect ==
    /\ synced' = count
    /\ durable' = [b \in Buckets |-> SelectSeq(Chain(b), LAMBDA l : l < count)]

Sync(w) ==
    /\ up /\ wpc[w] = "idle"
    /\ SyncEffect
    /\ UNCHANGED <<buckets, records, count, wpc, wcur, wkey>>

TableStep(w) ==
    \/ \E k \in Keys : StoreCreate(w, k)
    \/ StoreLink(w) \/ StorePublish(w) \/ Sync(w)

\* The process dies anywhere; the file keeps every write it made, the
\* flush lock's in-memory holds die with it.
Crash ==
    /\ up
    /\ up' = FALSE /\ holds' = 0
    /\ writing' = [w \in Writers |-> FALSE]
    /\ wpc' = [w \in Writers |-> "idle"] /\ wcur' = [w \in Writers |-> NotFound]
    /\ UNCHANGED <<buckets, records, count, synced, durable, mode, dirty, wkey>>

-----------------------------------------------------------------------------
(* The table on its own: it is restarted after any crash.                  *)
Restart == Start /\ UNCHANGED <<mode, dirty, holds, writing>>

TableNext == (\E w \in Writers : TableStep(w) /\ UNCHANGED storeVars)
             \/ Crash \/ Restart

-----------------------------------------------------------------------------
(* flush_lock (outside src/): lock_shared() adds a hold and the marker is  *)
(* on disk while any hold is; unlock_shared() drops one hold and removes   *)
(* the marker with the last.                                              *)
LockShared == holds' = holds + 1 /\ dirty' = TRUE
UnlockShared == holds' = holds - 1 /\ dirty' = (holds > 1)

(* Mutant: open() without flush_lock_.try_lock().                          *)
OpenIgnoresFlushLock ==
    /\ \E fe \in BOOLEAN :
          /\ mode' = fe
          /\ holds' = IF fe THEN 0 ELSE 1
          /\ dirty' = (dirty \/ ~fe)
    /\ writing' = [w \in Writers |-> FALSE]
    /\ Start

(* store::open, then the tables' start(): exclusive_lock_ is this process's *)
(* alone here; flush_lock_.try_lock() refuses a marker left on disk; in    *)
(* deferred mode lock_shared() holds it for the session.  flush_each_write *)
(* is the setting the process is started with; its flush_lock has no hold *)
(* yet.                                                                    *)
Open ==
    /\ ~dirty
    /\ \E fe \in BOOLEAN :
          /\ mode' = fe
          /\ holds' = IF fe THEN 0 ELSE 1
          /\ dirty' = ~fe
    /\ writing' = [w \in Writers |-> FALSE]
    /\ Start

(* store::begin_write: !flush_each_write() || flush_lock_.lock_shared().   *)
BeginWrite(w) ==
    /\ up /\ ~writing[w]
    /\ writing' = [writing EXCEPT ![w] = TRUE]
    /\ IF mode THEN holds < MaxHolds /\ LockShared ELSE UNCHANGED <<dirty, holds>>
    /\ UNCHANGED <<tableVars, up, mode>>

(* Mutant: end_write without the !flush_each_write() test, so deferred    *)
(* mode also flushes and releases the hold open() took for close().       *)
EndWriteAnyMode(w) ==
    /\ up /\ writing[w] /\ wpc[w] = "idle"
    /\ writing' = [writing EXCEPT ![w] = FALSE]
    /\ SyncEffect
    /\ UnlockShared \/ UNCHANGED <<dirty, holds>>
    /\ UNCHANGED <<buckets, records, count, wpc, wcur, wkey, up, mode>>

(* Mutant: end_write whose unlock removes the marker whatever other        *)
(* writers still hold it.                                                  *)
EndWriteUncounted(w) ==
    /\ up /\ writing[w] /\ wpc[w] = "idle"
    /\ writing' = [writing EXCEPT ![w] = FALSE]
    /\ \/ /\ ~mode
          /\ UNCHANGED <<synced, durable, dirty, holds>>
       \/ /\ mode
          /\ SyncEffect
          /\ \/ holds' = holds - 1 /\ dirty' = FALSE
             \/ UNCHANGED <<dirty, holds>>
    /\ UNCHANGED <<buckets, records, count, wpc, wcur, wkey, up, mode>>

(* store::end_write: !flush_each_write() || (flush() && unlock_shared()).  *)
(* flush() (outside src/) commits the tables, sync(), and flushes the     *)
(* files; when it fails the hold and the marker stay.                      *)
EndWrite(w) ==
    /\ up /\ writing[w] /\ wpc[w] = "idle"
    /\ writing' = [writing EXCEPT ![w] = FALSE]
    /\ \/ /\ ~mode
          /\ UNCHANGED <<synced, durable, dirty, holds>>
       \/ /\ mode
          /\ SyncEffect
          /\ UnlockShared \/ UNCHANGED <<dirty, holds>>
    /\ UNCHANGED <<buckets, records, count, wpc, wcur, wkey, up, mode>>

(* Mutant: close that skips the tables' flush and sync.                    *)
CloseWithoutSync ==
    /\ up
    /\ \A w \in Writers : ~writing[w] /\ wpc[w] = "idle"
    /\ up' = FALSE
    /\ IF mode THEN UNCHANGED <<dirty, holds>> ELSE UnlockShared
    /\ UNCHANGED <<tableVars, mode, writing>>

(* The tables flush and sync as they close, then store::close:             *)
(* (flush_each_write() || flush_lock_.unlock_shared()) && exclusive unlock. *)
Close ==
    /\ up
    /\ \A w \in Writers : ~writing[w] /\ wpc[w] = "idle"
    /\ SyncEffect
    /\ up' = FALSE
    /\ IF mode THEN UNCHANGED <<dirty, holds>> ELSE UnlockShared
    /\ UNCHANGED <<buckets, records, count, wpc, wcur, wkey, mode, writing>>

StoreNext ==
    \/ Open \/ Close \/ Crash
    \/ \E w \in Writers :
          \/ BeginWrite(w) \/ EndWrite(w)
          \/ writing[w] /\ TableStep(w) /\ UNCHANGED storeVars

-----------------------------------------------------------------------------
\* record_hash_table::create on a new file, the process not yet started.
Init ==
    /\ buckets = [b \in Buckets |-> NotFound]
    /\ records = << >>
    /\ count = 0 /\ synced = 0
    /\ durable = [b \in Buckets |-> << >>]
    /\ up = FALSE /\ mode = FALSE /\ dirty = FALSE /\ holds = 0
    /\ writing = [w \in Writers |-> FALSE]
    /\ wpc = [w \in Writers |-> "idle"]
    /\ wcur = [w \in Writers |-> NotFound]
    /\ wkey = [w \in Writers |-> CHOOSE k \in Keys : TRUE]

TableSpec == Init /\ [][TableNext]_vars
StoreSpec == Init /\ [][StoreNext]_vars

-----------------------------------------------------------------------------
TypeOK ==
    /\ buckets \in [Buckets -> (0 .. MaxRecords - 1) \cup {NotFound}]
    /\ DOMAIN records \subseteq 0 .. MaxRecords - 1
    /\ count \in 0 .. MaxRecords /\ synced \in 0 .. MaxRecords
    /\ {up, mode, dirty} \subseteq BOOLEAN
    /\ holds \in 0 .. MaxHolds
    /\ writing \in [Writers -> BOOLEAN]
    /\ wpc \in [Writers -> {"idle", "link", "publish"}]

(* What sync() commits survives: at every point, and across any number of  *)
(* crashes and restarts, each chain still ends with the chain it was at    *)
(* the last sync(), so every store committed then is found in its order,   *)
(* however the stores and flushed writes of several writers overlap.       *)
(* Spec 4.2 and 7: a crash between allocation and sync() loses those       *)
(* allocations but never corrupts prior state.                             *)
SyncedStoresDurable == \A b \in Buckets : IsSuffix(durable[b], Chain(b))

(* What open() trusts: whenever the process is down and no flush-lock      *)
(* marker is on disk, every chain in the file is exactly what the last     *)
(* sync() committed, with no store published after it.  So the store       *)
(* open() accepts starts from a committed image, whether the last session  *)
(* ended in close() or in a crash between flushed writes of several        *)
(* writers (spec 4.5: the marker tells a clean shutdown from a dirty one). *)
CleanStoreCommitted ==
    ~up /\ ~dirty => \A b \in Buckets : Chain(b) = durable[b]

=============================================================================
