------------------------- MODULE MCRecordHashTable -------------------------
(* Instance of RecordHashTable for TLC: two writers storing concurrently,  *)
(* one reader, one maintainer (unlink/update), two keys on one bucket,   *)
(* so that both keys share a chain, and three records.                    *)
EXTENDS RecordHashTable

MCKeys == {0, 1}
MCBucketCount == 1
MCMaxRecords == 3
\* a 4-byte tiny_hash key and a 4-byte link, as in the tests
MCPrefixSize == 8
=============================================================================
