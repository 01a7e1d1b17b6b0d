------------------------- MODULE HashTableAbstract -------------------------
(***************************************************************************)
(* What a chained hash table of libbitcoin-database promises its callers: *)
(* a multimap from keys to values in which every key holds a stack.  A    *)
(* store pushes a value on its key's stack; find, update and unlink all   *)
(* act on the most recent value of the key (LIFO duplicates, spec 4.4).   *)
(* Each operation is one atomic step here; RecordHashTable implements it  *)
(* by several steps of several threads.                                   *)
(***************************************************************************)
EXTENDS Sequences

CONSTANTS Keys, Values

VARIABLE table

TypeOK == table \in [Keys -> Seq(Values)]

Init == table = [k \in Keys |-> << >>]

\* store(key, writer): the new value becomes the first match of its key.
Store(k, v) == table' = [table EXCEPT ![k] = <<v>> \o @]

\* unlink(key) returning true: the first match disappears, the older ones
\* stay reachable in their order.
Unlink(k) ==
    /\ table[k] /= << >>
    /\ table' = [table EXCEPT ![k] = Tail(@)]

\* update(key, writer) that finds the key: the first match gets a new value.
Update(k, v) ==
    /\ table[k] /= << >>
    /\ table' = [table EXCEPT ![k][1] = v]

Next == \E k \in Keys : \/ \E v \in Values : Store(k, v) \/ Update(k, v)
                        \/ Unlink(k)

Spec == Init /\ [][Next]_table

=============================================================================
