# TLA+ models of libbitcoin-database

This directory holds TLA+ models of the storage primitives in `src/`. TLC
checks them. The code that gets model-checked is:

- `record_hash_table.ipp` and `record_row.ipp`: the chained hash table with
  fixed-size records.
- `store.cpp`: the lifecycle of a database directory, meaning its files, its
  exclusive lock and its flush lock.

## The system and how its parts interact

| Part | Where | Role |
|---|---|---|
| storage (memory map) | not under `src/` | A growable file mapped into memory. Callers hold a `memory_ptr` under a shared remap lock (spec 4.1). |
| record_manager | not under `src/` | Allocates fixed-size records at a count watermark. `sync()` persists the count (spec 4.2). |
| hash_table_header | not under `src/` | The bucket array of head links. `remainder(key)` picks the bucket (spec 4.3). |
| record_row | `record_row.ipp` | One record: `[key][next link][value]`. It has create, link, compare, next_index, write_next_index and offset. |
| record_hash_table | `record_hash_table.ipp` | A chain per bucket. It has store (LIFO insert under `create_mutex_`), find, offset, update and unlink (upgrade lock on `update_mutex_`). |
| spend_database | `spend_database.hpp` | A record_hash_table keyed by output point (header only). |
| store | `store.cpp` | The directory's files, `exclusive_lock_` (one process) and `flush_lock_`. The flush lock sits on disk, so a crash with unflushed writes is detected at the next `open()`. |
| tests | `src/test/*` | Block, transaction and slab-table tests. |

How the parts meet:

- A store first takes the store's write bracket (`begin_write`), then writes
  through a table into the record manager's mapped memory, then leaves with
  `end_write`.
- Inside the table, writer threads serialise on `create_mutex_`. Readers walk
  the chains without any lock.
- The header comment of `unlink` and `update` asks callers to keep stores out
  while they run.

## Modules

- **HashTableAbstract**
  - What the table promises: a map from each key to a stack of values.
  - `Store` pushes a value. `Update` replaces the top. `Unlink` pops.
  - Each of these is one atomic step.
- **RecordHashTable**
  - The table as the code runs it, with concurrent threads of three kinds:
    - Writers store.
    - Readers run find and offset.
    - Maintainers run update and unlink.
  - Shared state:
    - `buckets`: the header's head links.
    - `records`: allocated cells, as link ↦ key, next, value.
    - `count`: the manager's watermark.
    - `createMutex`.
  - Per-thread state: `pc`, `op`, `key`, `val`, and the walk cursors `cur`,
    `prev` and `nxt`. These are the locals of the C++ functions.
  - There is one action per step of the code that writes shared memory or
    reads a link:
    - `store` is three actions:
      - `StoreCreate`: `record_row::create` allocates the cell and writes key
        and value.
      - `StoreLink`: lock, read the head, then `record.link`.
      - `StorePublish`: the bucket write, then unlock.
    - The walks of find, offset and update are `WalkBegin`, then `WalkNext` or
      a hit, then `WalkEnd`.
    - `unlink` is `UnlinkBegin`, then `UnlinkVisit` (loop) and
      `UnlinkWrite`/`UnlinkHead`.
  - Helpers are named after the `record_row` functions they model:
    `Compare`, `NextIndex`, `RowLink`, `WriteNextIndex`, `RowOffset`.
  - Two history variables:
    - `seen` records which results each reader could legally return during
      its call.
    - `wild` records a read of an unallocated cell.
  - `AbsTable` reads the abstract stacks off the chains. `Abs` is
    `HashTableAbstract` instantiated with it.
- **StoreLifecycle**
  - `store::create`, `open`, `begin_write`, `end_write` and `close` for a set
    of processes, plus `Crash` of any process at any point.
  - `FlushEachWrite` picks a flush mode per process.
  - The locks that are not under `src/` follow spec 4.5 and spec 7:
    - An exclusive lock that the OS drops when the process dies.
    - A flush lock whose holds survive on disk.
  - `torn` records that a crash left writes that were only partly persisted.
- **TableCrash**
  - A table across process crashes. It composes the table's `store` with
    the record manager's watermark and with the store's flush-lock bracket.
  - State:
    - The mapped file: `buckets` and `records`. Their writes survive a
      process crash, because the pages belong to the file.
    - `count`: the in-memory watermark.
    - `synced`: the watermark `sync()` last wrote.
    - `dirty`: the flush-lock marker on disk.
    - `up`, `mode`: the process and its flush mode.
    - `holds`: the process's shared holds of the flush lock. Spec 4.5 calls
      them shared, so the lock counts its holders, and the marker goes with
      the last one (`LockShared`, `UnlockShared`).
    - Per writer thread: `writing` (inside `begin_write`/`end_write`) and
      the store call's `wpc`, `wcur`, `wkey`. `create_mutex_` is held from
      a store's link to its publish (`MutexFree`).
    - `durable`: a history variable holding the committed part of each chain
      at the last `sync()`.
  - `CreateCell` follows `record_row::create`, which skips the next bytes. A
    cell handed out again keeps its old next link until `StoreLink`.
  - `Start` is `record_hash_table::start`: the manager re-reads the
    persisted watermark.
  - Two specifications:
    - `TableSpec`: the table alone, restarted after any crash.
    - `StoreSpec`: the table inside `store::open`/`begin_write`/`end_write`/
      `close`. The flush mode is chosen at each open. `end_write` and
      `close` run the tables' `sync()` through `flush()`; that code is
      outside `src/` and follows spec 4.5 and 5 (b).
- **MCRecordHashTable, MCStoreLifecycle, MCTableCrash**:
  definitions of the constants for TLC.

## Runs

| Run | cfg | Expect | What it shows |
|---|---|---|---|
| table_safety | MCRecordHashTable.cfg | pass | See below. |
| table_liveness | MCRecordHashTableLive.cfg | pass | With weak fairness for readers and the maintainer only, every find, offset, update and unlink returns while writers store or stop anywhere (`WalksComplete`): no store makes a chain cycle under a walker. |
| table_offset | MCRecordHashTableOffset.cfg | violation | `offset(key)` does not return the link of the key's record. |
| table_wild | MCRecordHashTableWild.cfg | violation | `unlink` on an empty bucket reads the cell at `not_found`. |
| lifecycle_safety | MCStoreLifecycle.cfg | pass | `OneProcessOpen`: at most one process has the store open. `DirtyStoreNeverOpened`: a store that crashed with unflushed writes is never opened again. Both hold in both flush modes. |
| lifecycle_lock | MCStoreLifecycleLock.cfg | violation | A failed `open()` keeps the exclusive lock. |
| lifecycle_create | MCStoreLifecycleCreate.cfg | violation | `create()` leaves a partly created directory. |
| crash_durable | MCTableCrash.cfg | pass | Inside the store's flush-lock bracket, with three writers whose stores and flushed writes overlap, crashes anywhere and either flush mode at each open: every store `sync()` committed stays reachable, in order (`SyncedStoresDurable`). Whenever the process is down and no marker is on disk, every chain is exactly what the last `sync()` committed, so `open()` only ever accepts a committed image (`CleanStoreCommitted`). |
| crash_link_exhausted | MCTableCrashLink.cfg | violation | With a two-bit link the fourth record gets the all-ones index and its bucket reads as empty: see finding 6. |
| crash_table_alone | MCTableCrashAlone.cfg | violation | The table alone loses a committed store after a crash: see finding 5. |

The table_safety run uses two writers, one reader and one maintainer on a
single bucket. It shows four things:

- The chains stay acyclic and end at `not_found` (`ChainsWellFormed`).
- The table implements `HashTableAbstract` (`AbstractSpec`). That is:
  - Concurrent stores lose nothing.
  - Update and unlink act on the most recent value.
- Every find returns a result that was the key's first match at some moment
  of the call (`FindLinearizable`). This holds even while unlink rewrites
  links under it.
- Unlink returns false only when the key is absent
  (`UnlinkFalseOnlyIfAbsent`).

Each property of a passing run has a mutant in `PROJECT.json`. A mutant is a
plausible bug in the code, and TLC finds the property violated when the
mutant replaces the original definition. The mutants are:

- a store that links the new record to itself (breaks `ChainsWellFormed`,
  and `WalksComplete`: a reader of the other key walks the self-link for
  ever);
- a store that reads the head without the lock;
- find that matches any key;
- unlink that skips the head case;
- open that ignores the exclusive lock;
- end_write that unlocks before it flushes;
- open that ignores the flush-lock marker (TableCrash);
- a store that reads the bucket for its next link after publishing the
  cell there, so the cell links to itself (TableCrash, breaks
  `SyncedStoresDurable`);
- close that releases the marker without the tables' flush and sync
  (TableCrash, breaks `CleanStoreCommitted`);
- end_write whose unlock removes the marker although another writer still
  holds the flush lock (TableCrash, breaks `CleanStoreCommitted`). TLC's trace: writer 1's `end_write`
  falls inside writer 2's store, the process crashes before writer 2's
  `end_write`, the store reopens, and the next store reuses writer 2's
  cell;
- end_write without the `flush_each_write()` test, so that deferred mode
  also releases the hold `open()` took for `close()` (TableCrash, breaks
  `TypeOK`: the hold count goes below zero at `close()`).

## Findings

1. **`unlink` reads outside the allocation** (`record_hash_table.ipp:187-191`).
   - It builds `begin_item` from the bucket value and calls `compare()` on it
     without checking for `not_found`.
   - The simplest trigger is a second unlink of the only stored key. It reads
     the record at index `not_found`.
   - Spec 8 says unlink then returns false.
2. **`offset()` mixes units** (`record_row.ipp:116`, via
   `record_hash_table.ipp:135`).
   - It returns `index_ + prefix_size`, which is a record index plus a byte
     count.
   - Spec 4.4 says it returns the record's link, so `get()` of that result
     names another record.
3. **`open()` keeps the exclusive lock on failure** (`store.cpp:106`).
   - When `flush_lock_.try_lock()` fails, `open()` returns false with
     `exclusive_lock_` still held.
   - Spec 7 says failures release what they took.
4. **`create()` is not all-or-nothing** (`store.cpp:88-93`).
   - It stops at the first existing file, after creating the files before it.
   - Spec 4.5 says it refuses if any content file exists.

5. **The watermark is not the table's commit point**
   (`record_hash_table.ipp:76`).
   - `store` publishes the new cell in its bucket at once, while only a
     later `sync()` makes the cell allocated.
   - TLC's trace (12 steps):
     1. Store A into cell 0, then `sync()`.
     2. Store B into cell 1, which is published in the same bucket.
     3. Crash, then `start()`. The watermark is back to 1.
     4. Store C: `new_records` returns cell 1 again, and `record.link`
        points it at the bucket head, which is cell 1 itself.
   - The chain is now a cycle, and A is unreachable.
   - Spec 4.2 and 7 say such a crash "loses allocations but never corrupts
     prior state".
   - Inside a store, the flush-lock marker makes `open()` refuse such a
     directory. crash_durable shows this.

6. **No check for link exhaustion** (`record_row.ipp:62`).
   - `create` takes whatever `new_records(1)` returns, and `store` links it
     without comparing it with `not_found`.
   - With a w-bit link, the record at index 2^w − 1 has the all-ones
     index. Its bucket then holds `not_found`, and every record of that
     chain is lost to find.
   - TLC's trace: three stores, `sync()`, and a fourth store into bucket 0
     empty that bucket.
   - Spec 6 lists `capacity_exhausted` for a link type too narrow for the
     allocation. No code under `src/` raises it. Whether the record
     manager (not in the repository) refuses the index first cannot be
     seen here.

## Bounds and why they are enough

**table runs**

| Constant | Value |
|---|---|
| Keys | {0, 1} |
| BucketCount | 1 |
| MaxRecords | 3 |
| Values | {v1, v2} (safety) or {v1} |
| Writers | w1, w2 |
| Readers | r1 |
| Maintainers | m1 |

- One bucket puts both keys on one chain. That makes every interesting shape
  reachable:
  - key collisions on a chain;
  - duplicates of a key (LIFO);
  - unlink of the head, of an interior cell and of the last cell;
  - a reader standing on a cell while it is removed;
  - two stores racing for the same head.
- Three records give a chain of length three. That is enough for a
  predecessor, a removed cell and a successor.
- Two writers are the smallest number that can race.
- One maintainer is the code's own discipline: unlink and update must not
  overlap stores.
- table_safety reaches about 988,000 distinct states in about a minute.

**crash runs**

- Keys {0, 1, 2} over 2 buckets: keys 0 and 2 share a chain, and key 1 has
  its own. A reused cell can be relinked into its own chain or into another.
- MaxRecords 4. Three records are enough for a synced store, an unsynced
  store, and the store that reuses the unsynced store's cell. The fourth
  lets a reused cell be reused again, or lets a synced chain of two take a
  reused cell.
- Three writer threads (symmetric, so TLC checks them up to permutation).
  Two is the smallest number for which one writer's `end_write` can flush
  and release in the middle of another writer's store. The third lets two
  such overlaps happen at once.
- MaxHolds 4 bounds the flush lock's holds: the three writers' holds, plus
  one leaked by a failed flush. After that the marker stays for the session
  anyway.
- crash_durable reaches about 868,000 distinct states in about 16 seconds.
- The link run uses one writer, four records and a two-bit link
  (`not_found` = 3), so that the fourth allocation reaches the all-ones
  index.
- The passing run stops for good after a crash that leaves the marker,
  because `open()` then refuses. That is the real behaviour, so
  MCTableCrash.cfg says `CHECK_DEADLOCK FALSE`.

**lifecycle runs**

- Two processes, one in each flush mode. Two is the smallest number that
  contends for the exclusive lock.
- There are 5 content files. The index files are added where create order
  matters.

## Fairness

- RecordHashTable's `FairSpec` gives weak fairness to the steps of readers
  and maintainers only.
  - find, offset, update and unlink take no lock a store can hold. The
    `update_mutex_` sections are single steps here. So once such a call has
    begun, its next step stays enabled, and an OS scheduler runs a runnable
    thread eventually.
  - Writers get no fairness. A waiting `StoreLink` is enabled only while
    `create_mutex_` is free, and `std::mutex` promises a waiting thread
    nothing: other writers may retake it for ever. So the completion of
    `store` is not claimed. Writers may also stop anywhere, holding the
    mutex, and the walks must still return.
- TableCrash and StoreLifecycle have only safety properties and assume no
  fairness.

## Not modelled, and why

- **Weak memory ordering.** Every step is sequentially consistent. Store's
  next-field write and its bucket write are not reordered for a reader: the
  `memory_ptr` that `record.link` uses is released before `link(key,
  index)` takes one, and each read of `find` takes one too. Spec 3, 5 and 9
  describe that release and acquire of the shared remap hold.
- **Storage and its remap lock** (`access()`, `reserve()`, remap). This
  code is not in the repository. Spec 4.1, 5 and 9 describe it and leave
  the lock's policy open. A module built from those words alone would check
  the spec, not this code. The hazards it raises stay in `PROJECT.json`,
  each with a note.
- **In-place value writes.** `update` writes a value in place. Values are
  atomic model values here, so a torn read of a value is not modelled.
- **Power failures.** A crash in TableCrash is a process crash: every
  mapped write reaches the file. On a power failure, the kernel may write
  back mapped pages at any time, and the marker file's own durability
  decides the outcome. That code and those guarantees are outside `src/`
  and the spec, so no faithful model of them can be written here.
- **spend_database.** Only its header is under `src/`. It declares a
  `record_hash_table<point>` over its own file, together with
  store/get/unlink/commit. Its behaviour is the record table's, which
  RecordHashTable and TableCrash model, so no module of its own is written.
- **Value atomicity.** Spec 4.4 promises no atomicity for the value bytes
  that `update` overwrites, so a torn value is not a checkable claim.
- **Storage open/close/flush.** These are file I/O. The flush is modelled
  where it matters, in StoreLifecycle and TableCrash.
- **Test-only code.** The block/transaction tests and the organizer are out
  of the spec's scope.

## What remains

Almost every line of `src/` that changes state has a definition in this
project. The rest cannot be modelled faithfully from this repository:

1. **spend_database.** Only its declarations are in the repository. Its
   bodies, for example whether `store` checks for an existing outpoint,
   would decide whether the "simple map" of its header comment holds over
   a table that keeps duplicates.
2. **Slab hash table.** Its code is not in the repository. A variant of
   RecordHashTable written from the spec, with byte-offset links, would
   repeat the same chain algorithm.
3. **Torn values under `update`.** The spec promises no atomicity for
   value bytes, so there is no claim to check.
