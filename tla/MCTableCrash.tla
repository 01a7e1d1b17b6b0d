---------------------------- MODULE MCTableCrash ----------------------------
(* Instance of TableCrash for TLC: keys 0 and 2 share bucket 0 and key 1   *)
(* has bucket 1, so a reused cell can be relinked into its own chain or    *)
(* into another; four records give a synced store, an unsynced one, the  *)
(* store that reuses its cell after a restart and one more.  Three        *)
(* writers let end_writes fall inside the stores of the other two.        *)
EXTENDS TableCrash, Naturals, TLC

CONSTANTS w1, w2, w3

MCKeys == {0, 1, 2}
MCBucketCount == 2
MCMaxRecords == 4
MCWriters == {w1, w2, w3}
\* Both writers' holds and one a failed flush leaked.
MCMaxHolds == 4
MCOneWriter == {w1}

\* A two-bit link: not_found is 3, and the fourth record new_records hands
\* out has that index.
MCLinkBits == 2
MCLinkRecords == 2 ^ MCLinkBits
MCAllOnes == 2 ^ MCLinkBits - 1

\* The writers are interchangeable: no property names one.
WriterSymmetry == Permutations(MCWriters)
=============================================================================
