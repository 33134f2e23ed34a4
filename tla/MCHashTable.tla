---------------------------- MODULE MCHashTable ----------------------------
(* HashTable for TLC: four keys, a size_t of seven bits or more. *)
EXTENDS HashTable

\* In four buckets three of the keys start at bucket 3, one of them with a hash
\* of its own, and the fourth at bucket 0, where their probes go on.
MCHash == <<3, 3, 7, 0>>
============================================================================
