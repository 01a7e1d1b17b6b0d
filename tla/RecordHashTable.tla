-------------------------- MODULE RecordHashTable --------------------------
(***************************************************************************)
(* record_hash_table (record_hash_table.ipp) over record_row              *)
(* (record_row.ipp), shared by concurrent threads.                        *)
(*                                                                         *)
(*  buckets  the hash_table_header bucket array: bucket -> link of the    *)
(*           chain head, or NotFound                                      *)
(*  records  the cells allocated by record_manager: link -> [key, next,   *)
(*           value]; a cell is never freed (unlink leaks it)              *)
(*  count    record_manager's allocation watermark                        *)
(*                                                                         *)
(* Writers call store, Readers call find and offset, Maintainers call     *)
(* unlink and update.  Each call is split into the steps between which    *)
(* another thread can observe or change the shared memory; a step reads   *)
(* or writes one aligned link (spec 5 (c)).  The update_mutex_ sections   *)
(* of the code each cover a single such read or write, so with atomic     *)
(* steps that lock excludes nothing and is not a variable here.           *)
(*                                                                         *)
(* "unlink is not safe for concurrent write" (line 180): callers keep    *)
(* unlink and update apart from stores (spec 5); UnlinkDiscipline below   *)
(* is that caller obligation.                                             *)
(***************************************************************************)
EXTENDS Naturals, Sequences, TLC

CONSTANTS
    Keys,          \* keys, small naturals; remainder() reads them as numbers
    Values,        \* what a writer callback serializes into a cell
    BucketCount,   \* the header's bucket count
    MaxRecords,    \* bound on record_manager allocations
    PrefixSize,    \* key_size + link_size: bytes in front of a cell's value
    Writers, Readers, Maintainers,
    NotFound,      \* all-ones link: the empty bucket and the chain's end
    Unset          \* the next field of a cell before record.link() fills it

ASSUME Keys \subseteq Nat /\ BucketCount \in Nat \ {0} /\ MaxRecords \in Nat
ASSUME PrefixSize \in Nat \ {0}

Threads == Writers \cup Readers \cup Maintainers
Links == 0 .. MaxRecords - 1

VARIABLES
    buckets, records, count,
    createMutex,   \* create_mutex_: the set of threads holding it
    pc,            \* where each thread is in its call
    op,            \* the call a thread is in, or made last
    key, val,      \* the call's arguments
    cur, prev, nxt,\* the call's locals current, previous, next
    seen,          \* history: results a linearizable find may return
    wild           \* history: a thread read a cell outside the records

vars == <<buckets, records, count, createMutex, pc, op, key, val, cur, prev,
          nxt, seen, wild>>

-----------------------------------------------------------------------------
(* hash_table_header::remainder: the key read as an integer modulo the      *)
(* bucket count (code outside src/, modelled from spec 4.3).                *)
Remainder(k) == k % BucketCount

\* read_bucket_value(key)
BucketValue(k) == buckets[Remainder(k)]

\* Links a thread can follow without leaving the allocated records.
Allocated(l) == l \in DOMAIN records

\* record_row::compare(key): the cell's key bytes equal the key.
Compare(l, k) == records[l].key = k

\* record_row::next_index()
NextIndex(l) == records[l].next

\* record_row::link(next): store's write of the new cell's next field.
RowLink(l, n) == [records EXCEPT ![l].next = n]

\* record_row::write_next_index(next): unlink's rewrite of a next field.
WriteNextIndex(l, n) == [records EXCEPT ![l].next = n]

\* The chain from a link, as the sequence of links a walk visits; fuel
\* bounds the walk so that a cycle cannot make it diverge.
RECURSIVE ChainFrom(_, _)
ChainFrom(l, fuel) ==
    IF ~Allocated(l) \/ fuel = 0 THEN << >>
    ELSE <<l>> \o ChainFrom(records[l].next, fuel - 1)

Chain(b) == ChainFrom(buckets[b], MaxRecords + 1)

\* The links of key k's cells in the order a find meets them.
Matches(k) == SelectSeq(Chain(Remainder(k)), LAMBDA l : records[l].key = k)

\* What find(k) returns when nothing runs concurrently.
FirstMatch(k) == IF Matches(k) = << >> THEN NotFound ELSE Matches(k)[1]

Idle(t) == pc[t] = "idle"

\* What a walk returns as it leaves the loop: the link of the cell it stands
\* on (find: item.data(), update: current), else nullptr / not_found.
WalkResult(t) == IF Allocated(cur[t]) THEN cur[t] ELSE NotFound

\* record_row::offset(): index_ + prefix_size.
RowOffset(l) == l + PrefixSize

NoKey == CHOOSE k \in Keys : TRUE
NoValue == CHOOSE v \in Values : TRUE
\* Return; the call's arguments and locals go out of scope.
Finish(t) ==    /\ pc' = [pc EXCEPT ![t] = "idle"]
                /\ op' = [op EXCEPT ![t] = "none"]
                /\ key' = [key EXCEPT ![t] = NoKey]
                /\ val' = [val EXCEPT ![t] = NoValue]
                /\ cur' = [cur EXCEPT ![t] = NotFound]
                /\ prev' = [prev EXCEPT ![t] = NotFound]
                /\ nxt' = [nxt EXCEPT ![t] = NotFound]
Call(t, o, k, v) ==
    /\ Idle(t)
    /\ op' = [op EXCEPT ![t] = o]
    /\ key' = [key EXCEPT ![t] = k]
    /\ val' = [val EXCEPT ![t] = v]

\* A reader's find history ends with its call.
ClearSeen(t) == seen' = IF t \in Readers THEN [seen EXCEPT ![t] = {}] ELSE seen

\* A structural write updates the history of every find in progress.
Observe ==
    LET fm(k) == IF Matches(k)' = << >> THEN NotFound ELSE Matches(k)'[1]
    IN seen' = [r \in Readers |->
                  IF pc[r] = "find_visit" THEN seen[r] \cup {fm(key[r])}
                  ELSE seen[r]]

(* Caller obligation (spec 5): unlink and update never overlap a store.   *)
UnlinkDiscipline(t) ==
    IF t \in Maintainers THEN \A w \in Writers : Idle(w)
    ELSE \A m \in Maintainers : Idle(m)

-----------------------------------------------------------------------------
(* Mutant: new_records returns the watermark after the bump, one past the  *)
(* cell it allocated.                                                      *)
StoreCreateOffByOne(w, k, v) ==
    /\ UnlinkDiscipline(w)
    /\ count < MaxRecords
    /\ Call(w, "store", k, v)
    /\ pc' = [pc EXCEPT ![w] = "store_lock"]
    /\ records' = records @@ (count + 1 :> [key |-> k, next |-> Unset, value |-> v])
    /\ count' = count + 1
    /\ cur' = [cur EXCEPT ![w] = count + 1]
    /\ UNCHANGED <<buckets, createMutex, prev, nxt, seen, wild>>

(* Mutant: link(key, index) runs before record.link(...), so the bucket    *)
(* read for the new cell's next already holds the new cell.                *)
StoreLinkSelf(w) ==
    /\ pc[w] = "store_lock"
    /\ createMutex = {}
    /\ createMutex' = {w}
    /\ records' = RowLink(cur[w], cur[w])
    /\ pc' = [pc EXCEPT ![w] = "store_publish"]
    /\ UNCHANGED <<buckets, count, op, key, val, cur, prev, nxt, seen, wild>>

(* Mutant: store without create_mutex_.                                    *)
StoreLinkUnlocked(w) ==
    /\ pc[w] = "store_lock"
    /\ records' = RowLink(cur[w], BucketValue(key[w]))
    /\ pc' = [pc EXCEPT ![w] = "store_publish"]
    /\ UNCHANGED <<buckets, createMutex, count, op, key, val, cur, prev, nxt,
                   seen, wild>>

(* Mutant: find returns the first cell without item.compare(key).          *)
FindHitAnyKey(r) ==
    /\ pc[r] = "find_visit"
    /\ Allocated(cur[r])
    /\ Finish(r)
    /\ UNCHANGED <<buckets, records, count, createMutex, wild>>
    /\ ClearSeen(r)

(* Mutant: unlink skips the begin_item.compare head case and searches from *)
(* begin_item.next_index().                                                *)
UnlinkBeginNoHead(m, k) ==
    LET head == BucketValue(k) IN
    /\ UnlinkDiscipline(m)
    /\ \/ /\ ~Allocated(head)
          /\ Idle(m)
          /\ wild' = TRUE
          /\ Finish(m)
       \/ /\ Allocated(head)
          /\ Call(m, "unlink", k, NoValue)
          /\ pc' = [pc EXCEPT ![m] = "unlink_visit"]
          /\ prev' = [prev EXCEPT ![m] = head]
          /\ cur' = [cur EXCEPT ![m] = NextIndex(head)]
          /\ UNCHANGED <<nxt, wild>>
    /\ UNCHANGED <<buckets, records, count, createMutex, seen>>

(* store: record.create(key, write) -- record_manager::new_records(1),     *)
(* then the key and the value are written and the next field is skipped.   *)
StoreCreate(w, k, v) ==
    /\ UnlinkDiscipline(w)
    /\ count < MaxRecords
    /\ Call(w, "store", k, v)
    /\ pc' = [pc EXCEPT ![w] = "store_lock"]
    /\ records' = records @@ (count :> [key |-> k, next |-> Unset, value |-> v])
    /\ count' = count + 1
    /\ cur' = [cur EXCEPT ![w] = count]
    /\ UNCHANGED <<buckets, createMutex, prev, nxt, seen, wild>>

(* store: create_mutex_.lock(); record.link(read_bucket_value(key)).       *)
StoreLink(w) ==
    /\ pc[w] = "store_lock"
    /\ createMutex = {}
    /\ createMutex' = {w}
    /\ records' = RowLink(cur[w], BucketValue(key[w]))
    /\ pc' = [pc EXCEPT ![w] = "store_publish"]
    /\ UNCHANGED <<buckets, count, op, key, val, cur, prev, nxt, seen, wild>>

(* store: link(key, index); create_mutex_.unlock(); return index.          *)
StorePublish(w) ==
    /\ pc[w] = "store_publish"
    /\ buckets' = [buckets EXCEPT ![Remainder(key[w])] = cur[w]]
    /\ createMutex' = {}
    /\ Finish(w)
    /\ UNCHANGED <<records, count, wild>>
    /\ Observe

-----------------------------------------------------------------------------
(* find, offset and update all begin with read_bucket_value(key).           *)
WalkBegin(t, o, k, v) ==
    /\ Call(t, o, k, v)
    /\ pc' = [pc EXCEPT ![t] = o \o "_visit"]
    /\ cur' = [cur EXCEPT ![t] = BucketValue(k)]
    /\ seen' = IF o = "find" THEN [seen EXCEPT ![t] = {FirstMatch(k)}] ELSE seen
    /\ UNCHANGED <<buckets, records, count, createMutex, prev, nxt, wild>>

FindBegin(r, k) == WalkBegin(r, "find", k, NoValue)
OffsetBegin(r, k) == WalkBegin(r, "offset", k, NoValue)
UpdateBegin(m, k, v) == /\ UnlinkDiscipline(m)
                        /\ WalkBegin(m, "update", k, v)

\* One turn of the while loop of find (offset, update): the chain ended,
\* the key matched, or current moves to item.next_index().
WalkEnd(t) ==
    /\ cur[t] = NotFound
    /\ Finish(t)
    /\ UNCHANGED <<buckets, records, count, createMutex, wild>>
    /\ ClearSeen(t)

WalkNext(t) ==
    /\ Allocated(cur[t]) /\ ~Compare(cur[t], key[t])
    /\ cur' = [cur EXCEPT ![t] = NextIndex(cur[t])]
    /\ UNCHANGED <<buckets, records, count, createMutex, pc, op, key, val,
                   prev, nxt, seen, wild>>

\* find returns item.data(): the matching cell.
FindHit(r) ==
    /\ pc[r] = "find_visit"
    /\ Allocated(cur[r]) /\ Compare(cur[r], key[r])
    /\ Finish(r)
    /\ UNCHANGED <<buckets, records, count, createMutex, wild>>
    /\ ClearSeen(r)

\* offset returns item.offset(), that is RowOffset(current).
OffsetHit(r) ==
    /\ pc[r] = "offset_visit"
    /\ Allocated(cur[r]) /\ Compare(cur[r], key[r])
    /\ Finish(r)
    /\ UNCHANGED <<buckets, records, count, createMutex, wild>>
    /\ ClearSeen(r)

\* update runs the writer on the matching cell's value and returns its link.
UpdateHit(m) ==
    /\ pc[m] = "update_visit"
    /\ Allocated(cur[m]) /\ Compare(cur[m], key[m])
    /\ records' = [records EXCEPT ![cur[m]].value = val[m]]
    /\ Finish(m)
    /\ UNCHANGED <<buckets, count, createMutex, seen, wild>>

Walk(t) ==
    /\ pc[t] \in {"find_visit", "offset_visit", "update_visit"}
    /\ \/ WalkEnd(t) \/ WalkNext(t) \/ FindHit(t) \/ OffsetHit(t) \/ UpdateHit(t)

-----------------------------------------------------------------------------
(* unlink: row begin_item(manager_, read_bucket_value(key)) and its        *)
(* compare; the head case reads next, the other reads current under the    *)
(* shared lock.  begin_item is built even when the bucket is empty, and    *)
(* compare then reads the cell at link NotFound.                           *)
UnlinkBegin(m, k) ==
    LET head == BucketValue(k) IN
    /\ UnlinkDiscipline(m)
    /\ \/ /\ ~Allocated(head)
          /\ Idle(m)
          /\ wild' = TRUE
          /\ Finish(m)
       \/ /\ Allocated(head) /\ Compare(head, k)
          /\ Call(m, "unlink", k, NoValue)
          /\ pc' = [pc EXCEPT ![m] = "unlink_head"]
          /\ nxt' = [nxt EXCEPT ![m] = NextIndex(head)]
          /\ UNCHANGED <<cur, prev, wild>>
       \/ /\ Allocated(head) /\ ~Compare(head, k)
          /\ Call(m, "unlink", k, NoValue)
          /\ pc' = [pc EXCEPT ![m] = "unlink_visit"]
          /\ prev' = [prev EXCEPT ![m] = head]
          /\ cur' = [cur EXCEPT ![m] = NextIndex(head)]
          /\ UNCHANGED <<nxt, wild>>
    /\ UNCHANGED <<buckets, records, count, createMutex, seen>>

\* Head case: link(key, next); return true.
UnlinkHead(m) ==
    /\ pc[m] = "unlink_head"
    /\ buckets' = [buckets EXCEPT ![Remainder(key[m])] = nxt[m]]
    /\ Finish(m)
    /\ UNCHANGED <<records, count, createMutex, wild>>
    /\ Observe

\* One turn of unlink's while loop.  On a match: lock_upgrade and read the
\* removed item's next.  Otherwise previous = current and current moves on.
UnlinkVisit(m) ==
    /\ pc[m] = "unlink_visit"
    /\ \/ /\ cur[m] = NotFound
          /\ Finish(m)
          /\ UNCHANGED records
       \/ /\ Allocated(cur[m]) /\ Compare(cur[m], key[m])
          /\ pc' = [pc EXCEPT ![m] = "unlink_write"]
          /\ nxt' = [nxt EXCEPT ![m] = NextIndex(cur[m])]
          /\ UNCHANGED <<records, cur, prev, op, key, val>>
       \/ /\ Allocated(cur[m]) /\ ~Compare(cur[m], key[m])
          /\ prev' = [prev EXCEPT ![m] = cur[m]]
          /\ cur' = [cur EXCEPT ![m] = NextIndex(cur[m])]
          /\ UNCHANGED <<records, pc, nxt, op, key, val>>
    /\ UNCHANGED <<buckets, count, createMutex, seen, wild>>

\* unlock_upgrade_and_lock; previous_item.write_next_index(next); unlock;
\* return true.
UnlinkWrite(m) ==
    /\ pc[m] = "unlink_write"
    /\ records' = WriteNextIndex(prev[m], nxt[m])
    /\ Finish(m)
    /\ UNCHANGED <<buckets, count, createMutex, wild>>
    /\ Observe

-----------------------------------------------------------------------------
(* record_hash_table::create(): every bucket NotFound, no records.         *)
Init ==
    /\ buckets = [b \in 0 .. BucketCount - 1 |-> NotFound]
    /\ records = << >>
    /\ count = 0
    /\ createMutex = {}
    /\ pc = [t \in Threads |-> "idle"]
    /\ op = [t \in Threads |-> "none"]
    /\ key = [t \in Threads |-> CHOOSE k \in Keys : TRUE]
    /\ val = [t \in Threads |-> CHOOSE v \in Values : TRUE]
    /\ cur = [t \in Threads |-> NotFound]
    /\ prev = [t \in Threads |-> NotFound]
    /\ nxt = [t \in Threads |-> NotFound]
    /\ seen = [r \in Readers |-> {}]
    /\ wild = FALSE

\* The steps of a call already begun; these are the ones a thread, once
\* scheduled by the OS, keeps taking.
Step(t) ==
    \/ StoreLink(t) \/ StorePublish(t)
    \/ Walk(t)
    \/ UnlinkHead(t) \/ UnlinkVisit(t) \/ UnlinkWrite(t)

Next ==
    \/ \E w \in Writers, k \in Keys, v \in Values : StoreCreate(w, k, v)
    \/ \E r \in Readers, k \in Keys : FindBegin(r, k) \/ OffsetBegin(r, k)
    \/ \E m \in Maintainers, k \in Keys :
          \/ UnlinkBegin(m, k)
          \/ \E v \in Values : UpdateBegin(m, k, v)
    \/ \E t \in Threads : Step(t)

Spec == Init /\ [][Next]_vars

\* find, offset, update and unlink take no lock a store can hold (the
\* update_mutex_ sections are single steps here), so once begun their steps
\* stay enabled and the OS scheduler runs them: weak fairness for readers and
\* maintainers.  A waiting store is enabled only while create_mutex_ is free,
\* and std::mutex promises no fairness, so writers get none.
Walkers == Readers \cup Maintainers
FairSpec == Spec /\ \A t \in Walkers : WF_vars(Step(t))

-----------------------------------------------------------------------------
(***************************************************************************)
(* Properties                                                              *)
(***************************************************************************)
TypeOK ==
    /\ buckets \in [0 .. BucketCount - 1 -> Links \cup {NotFound}]
    /\ DOMAIN records = 0 .. count - 1 /\ count \in 0 .. MaxRecords
    /\ \A l \in DOMAIN records :
          records[l] \in [key : Keys, next : Links \cup {NotFound, Unset},
                          value : Values]
    /\ createMutex \subseteq Writers
    /\ op \in [Threads -> {"none", "store", "find", "offset", "update", "unlink"}]
    /\ seen \in [Readers -> SUBSET (Links \cup {NotFound})]
    /\ wild \in BOOLEAN

RECURSIVE Terminates(_, _)
Terminates(l, fuel) ==
    \/ l = NotFound
    \/ fuel > 0 /\ Allocated(l) /\ Terminates(records[l].next, fuel - 1)

(* Bucket conservation (spec 8): whatever stores and unlinks interleave,   *)
(* every bucket's chain runs through allocated cells to NotFound without a *)
(* cycle, and holds only cells whose key's remainder is that bucket.  The  *)
(* code relies on it in every while loop of record_hash_table.ipp.         *)
ChainsWellFormed ==
    \A b \in 0 .. BucketCount - 1 :
        /\ Terminates(buckets[b], MaxRecords + 1)
        /\ \A i \in 1 .. Len(Chain(b)) : Remainder(records[Chain(b)[i]].key) = b

(* The map the chains represent: each key's values, first match first.    *)
AbsTable == [k \in Keys |-> [i \in 1 .. Len(Matches(k)) |->
                                records[Matches(k)[i]].value]]

Abs == INSTANCE HashTableAbstract WITH table <- AbsTable

(* Refinement: the concurrent store, update and unlink of record_hash_table *)
(* implement the atomic LIFO multimap.  Each structural write of the code  *)
(* (bucket write in store and unlink, write_next_index, the value write of *)
(* update) is one abstract operation, every other step leaves the map      *)
(* unchanged: no store is lost to a concurrent store, no unlink removes    *)
(* anything but the first match.                                           *)
AbstractSpec == Abs!Spec

(* find is linearizable: the cell a find returns (or its nullptr) was the  *)
(* key's first match at some moment between the call and its return, even *)
(* when stores and an unlink rewrite the chain under the walking reader.   *)
FindLinearizable ==
    [][\A r \in Readers :
         pc[r] = "find_visit" /\ Idle(r)' => WalkResult(r) \in seen[r]]_vars

(* unlink returns false only when the key has no cell in its chain (spec 8, *)
(* "unlink(k) returns true once per store(k, _)").                          *)
UnlinkFalseOnlyIfAbsent ==
    [][\A m \in Maintainers :
         pc[m] = "unlink_visit" /\ Idle(m)' => Matches(key[m]) = << >>]_vars

(* Every find, offset, update and unlink a thread has begun returns, while *)
(* writers store concurrently or stop anywhere: the while loops of          *)
(* record_hash_table.ipp (96, 129, 155, 209) reach not_found, so no store's *)
(* link makes a chain cycle under a walker.  Completion of store is not     *)
(* claimed: it waits on create_mutex_, which may starve it.                 *)
WalksComplete == \A t \in Walkers : ~Idle(t) ~> Idle(t)

(* record_hash_table::offset returns a link of the key's cell, the way     *)
(* spec 4.4 describes offset(key): "as find but returns identifier", so    *)
(* get(offset(key)) is the cell find(key) returns.                          *)
OffsetLocatesRecord ==
    [][\A r \in Readers :
         pc[r] = "offset_visit" /\ Idle(r)' /\ Allocated(cur[r])
            => /\ Allocated(RowOffset(cur[r]))
               /\ records[RowOffset(cur[r])].key = key[r]]_vars

(* No call reads a cell outside the allocated records; unlink of a key     *)
(* whose bucket is empty is the case spec 8 expects to return false.       *)
NoWildRead == ~wild

=============================================================================
