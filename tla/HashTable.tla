----------------------------- MODULE HashTable -----------------------------
(***************************************************************************)
(* src/utility/hash.c: open addressing with linear probing, tombstones, a  *)
(* bound (worst_miss) on how far any probe has to go, and a buffer that    *)
(* grows.  One action is one call; an iteration (autk_hash_table_begin and *)
(* _next, as redraw_dirty_windows uses them) spans several, because the    *)
(* callbacks it makes may insert and remove.  KeyedSet says what hash.h    *)
(* promises of it.                                                         *)
(***************************************************************************)
EXTENDS Naturals, FiniteSets, FiniteSetsExt, Folds

CONSTANTS Keys, Values,
          Hash,           \* the hash function: a number below 2 * OccupiedBit per key
          OccupiedBit,    \* HASH_OCCUPIED_BIT, the top bit of a uintptr_t
          BucketSize,     \* BUCKET_OVERHEAD plus the aligned element
          MinBufferBytes, \* MIN_BUFFER_BYTES
          Reservations,   \* the counts autk_hash_table_reserve is called with directly
          SizeBits        \* the width of a size_t

\* All bits of a size set: the top bit twice, less one.
SizeMax == 2 * 2 ^ (SizeBits - 1) - 1

ASSUME TableAssumption ==
    /\ OccupiedBit \in Nat \ {0}
    /\ Hash \in [Keys -> 0 .. 2 * OccupiedBit - 1]
    /\ SizeBits \in Nat \ {0}
    /\ BucketSize \in 1 .. MinBufferBytes
    /\ MinBufferBytes \in 1 .. SizeMax
    /\ Reservations \subseteq Nat

VARIABLES data,       \* the buckets, a function from their indexes
          used_count,
          worst_miss,
          iterating, iter, \* is an iteration under way, and the bucket it is at
          visited,    \* history: the keys it has yielded
          steady,     \* history: the keys never removed since it began
          owned       \* history: the keys whose insertion was reported, less the removed

table     == <<data, used_count, worst_miss>>
iteration == <<iterating, iter, visited, steady>>
vars      == <<table, iteration, owned>>

-----------------------------------------------------------------------------
(* Buckets *)

EMPTY     == [state |-> "empty"]
TOMBSTONE == [state |-> "tombstone"]

\* The header of an occupied bucket caches the hash without its top bit.
Occupied(k, v) == [state |-> "occupied", hash |-> Hash[k] % OccupiedBit, key |-> k, val |-> v]
IsOccupied(b) == b.state = "occupied"

\* Slip: equal hashes are taken for equal keys.
HoldsHash(b, k) == IsOccupied(b) /\ b.hash = Hash[k] % OccupiedBit

Holds(b, k) == IsOccupied(b) /\ b.hash = Hash[k] % OccupiedBit /\ b.key = k

BucketCount(t) == Cardinality(DOMAIN t.data)

\* Where the search for k comes to after i steps from a start.
Probe(t, start, i) == (start + i) % BucketCount(t)

\* autk_hash_table_find: from the unmasked hash, over worst_miss + 1 buckets,
\* stopping at the first that is empty.
Hits(t, k) ==
    {i \in 0 .. t.worst_miss :
        /\ Holds(t.data[Probe(t, Hash[k], i)], k)
        /\ \A m \in 0 .. i - 1 : t.data[Probe(t, Hash[k], m)] # EMPTY}
Found(t, k) == t.used_count # 0 /\ Hits(t, k) # {}
IndexOf(t, k) == Probe(t, Hash[k], Min(Hits(t, k)))

-----------------------------------------------------------------------------
(* do_insert *)

\* Slip: worst_miss counts the buckets looked at, not the misses.
PutCountingBuckets(t, index, k, v, worst) ==
    [data |-> [t.data EXCEPT ![index] = Occupied(k, v)],
     used_count |-> t.used_count + 1, worst_miss |-> worst + 1]

Put(t, index, k, v, worst) ==
    [data |-> [t.data EXCEPT ![index] = Occupied(k, v)],
     used_count |-> t.used_count + 1, worst_miss |-> worst]

\* Slip: the first tombstone is taken before the key has been ruled out.
PutAtTombstone(t, k, v) ==
    LET start == Hash[k] % OccupiedBit
        At(i) == t.data[Probe(t, start, i)]
        free == {i \in 0 .. BucketCount(t) - 1 : ~IsOccupied(At(i)) \/ Holds(At(i), k)}
        i == Min(free)
    IN  IF IsOccupied(At(i)) THEN t
        ELSE Put(t, Probe(t, start, i), k, v, IF i > t.worst_miss THEN i ELSE t.worst_miss)

\* The table with k inserted; unchanged when k is found.  The first empty bucket
\* or match within worst_miss settles it; failing both, the first tombstone seen;
\* failing that, the first unoccupied bucket beyond, which raises worst_miss.
DoInsert(t, k, v) ==
    LET start == Hash[k] % OccupiedBit
        At(i) == t.data[Probe(t, start, i)]
        near == 0 .. t.worst_miss
        stops == {i \in near : At(i) = EMPTY \/ Holds(At(i), k)}
        tombstones == {i \in near : At(i) = TOMBSTONE}
        beyond == {i \in t.worst_miss + 1 .. t.worst_miss + BucketCount(t) : ~IsOccupied(At(i))}
    IN  CASE stops # {} ->
                LET i == Min(stops) IN
                IF At(i) = EMPTY THEN Put(t, Probe(t, start, i), k, v, t.worst_miss) ELSE t
          [] stops = {} /\ tombstones # {} ->
                Put(t, Probe(t, start, Min(tombstones)), k, v, t.worst_miss)
          [] OTHER ->
                Put(t, Probe(t, start, Min(beyond)), k, v, Min(beyond))

-----------------------------------------------------------------------------
(* autk_hash_table_reserve *)

\* next_pow_2 in SizeBits bits: zero for zero and when the result does not fit.
NextPow2(n) ==
    IF n = 0 \/ n > 2 ^ (SizeBits - 1) THEN 0
    ELSE Min({p \in {2 ^ e : e \in 0 .. SizeBits - 1} : p >= n})

MinBuckets(min_count) == (min_count * 4) \div 3

Overflows(min_count) ==
    \/ min_count > SizeMax \div 4
    \/ MinBuckets(min_count) > SizeMax \div BucketSize
    \/ NextPow2(MinBuckets(min_count) * BucketSize) = 0

NewBucketCount(min_count) ==
    LET bytes == NextPow2(MinBuckets(min_count) * BucketSize)
    IN  (IF bytes < MinBufferBytes THEN MinBufferBytes ELSE bytes) \div BucketSize

Zeroed(n) == [data |-> [b \in 0 .. n - 1 |-> EMPTY], used_count |-> 0, worst_miss |-> 0]

\* The loop that should move the elements of old.  It takes its buckets from
\* ht->data, by then the new and zeroed buffer, and not from old_ht.data.
Reinserted(old, new) ==
    LET source == new.data
        moved == {b \in DOMAIN old.data \cap DOMAIN source : IsOccupied(source[b])}
    IN  MapThenFoldSet(LAMBDA b, t : DoInsert(t, b.key, b.val), new,
                       LAMBDA b : source[b], LAMBDA S : Max(S), moved)

-----------------------------------------------------------------------------
This == [data |-> data, used_count |-> used_count, worst_miss |-> worst_miss]

Becomes(t) ==
    /\ data' = t.data /\ used_count' = t.used_count /\ worst_miss' = t.worst_miss

Stored(t) == {t.data[b].key : b \in {c \in DOMAIN t.data : IsOccupied(t.data[c])}}

\* autk_hash_table_init
Init ==
    /\ data = [b \in {} |-> EMPTY] /\ used_count = 0 /\ worst_miss = 0
    /\ iterating = FALSE /\ iter = 0 /\ visited = {} /\ steady = {}
    /\ owned = {}

Fits(min_count) == BucketCount(This) >= MinBuckets(min_count)

\* autk_hash_table_insert when the buffer is large enough for one element more.
Insert(k, v) ==
    /\ used_count + 1 <= SizeMax \div 4 /\ Fits(used_count + 1)
    /\ Becomes(DoInsert(This, k, v))
    /\ owned' = owned \cup {k}
    /\ UNCHANGED iteration

\* The same, after growing the buffer.
GrowAndInsert(k, v) ==
    /\ ~Overflows(used_count + 1) /\ ~Fits(used_count + 1)
    /\ LET new == Zeroed(NewBucketCount(used_count + 1))
       IN  Becomes(DoInsert(Reinserted(This, new), k, v))
    /\ owned' = owned \cup {k}
    /\ UNCHANGED iteration

\* autk_hash_table_reserve of more than the buffer is large enough for.
Reserve(min_count) ==
    /\ ~Overflows(min_count) /\ ~Fits(min_count)
    /\ Becomes(Reinserted(This, Zeroed(NewBucketCount(min_count))))
    /\ UNCHANGED <<iteration, owned>>

\* autk_hash_table_fini, after which the table may be used again.
Fini ==
    /\ ~iterating
    /\ Becomes(Zeroed(0))
    /\ owned' = {}
    /\ UNCHANGED iteration

\* The allocation fails, or a size would overflow (SIZE_MAX / 4 is looked at
\* before the size of the buffer, the others only when it has to grow): the call
\* fails whether or not the key is in the table, and nothing has changed.
InsertFails ==
    /\ ~Fits(used_count + 1) \/ used_count + 1 > SizeMax \div 4
    /\ UNCHANGED vars

\* Slip: the bucket is freed as if no probe had ever gone past it.
RemoveToEmpty(k) ==
    /\ Found(This, k)
    /\ data' = [data EXCEPT ![IndexOf(This, k)] = EMPTY]
    /\ used_count' = used_count - 1
    /\ steady' = steady \ {k} /\ owned' = owned \ {k}
    /\ UNCHANGED <<worst_miss, iterating, iter, visited>>

\* autk_hash_table_remove of a key that is found; otherwise it does nothing.
Remove(k) ==
    /\ Found(This, k)
    /\ data' = [data EXCEPT ![IndexOf(This, k)] = TOMBSTONE]
    /\ used_count' = used_count - 1
    /\ steady' = steady \ {k} /\ owned' = owned \ {k}
    /\ UNCHANGED <<worst_miss, iterating, iter, visited>>

-----------------------------------------------------------------------------
(* Iteration *)

OccupiedFrom(b) == {c \in DOMAIN data : c >= b /\ IsOccupied(data[c])}

Yield(b, seen) == iterating' = TRUE /\ iter' = b /\ visited' = seen \cup {data[b].key}

Begin ==
    /\ ~iterating /\ used_count # 0
    /\ Yield(Min(OccupiedFrom(0)), {})
    /\ steady' = Stored(This)
    /\ UNCHANGED <<table, owned>>

\* Slip: one bucket is passed over.
AdvanceTwo ==
    /\ iterating /\ OccupiedFrom(iter + 2) # {}
    /\ Yield(Min(OccupiedFrom(iter + 2)), visited)
    /\ UNCHANGED <<table, steady, owned>>

Advance ==
    /\ iterating /\ OccupiedFrom(iter + 1) # {}
    /\ Yield(Min(OccupiedFrom(iter + 1)), visited)
    /\ UNCHANGED <<table, steady, owned>>

\* autk_hash_table_next returns false.
End ==
    /\ iterating /\ OccupiedFrom(iter + 1) = {}
    /\ iterating' = FALSE /\ iter' = 0 /\ visited' = {} /\ steady' = {}
    /\ UNCHANGED <<table, owned>>

-----------------------------------------------------------------------------
Next ==
    \/ \E k \in Keys : Remove(k) \/ \E v \in Values : Insert(k, v) \/ GrowAndInsert(k, v)
    \/ \E min_count \in Reservations : Reserve(min_count)
    \/ InsertFails \/ Fini
    \/ Begin \/ Advance \/ End

Spec == Init /\ [][Next]_vars

-----------------------------------------------------------------------------
(* Properties *)

Bucket == {EMPTY, TOMBSTONE} \cup {Occupied(k, v) : k \in Keys, v \in Values}

\* Every variable has its type; no search is ever longer than once round the
\* table (the last loop of do_insert has no other end).
TypeOK ==
    /\ \E n \in 0 .. SizeMax : DOMAIN data = 0 .. n - 1
    /\ \A b \in DOMAIN data : data[b] \in Bucket
    /\ used_count \in 0 .. BucketCount(This)
    /\ worst_miss = 0 \/ worst_miss < BucketCount(This)
    /\ iterating \in BOOLEAN /\ iter \in Nat
    /\ visited \subseteq Keys /\ steady \subseteq Keys /\ owned \subseteq Keys

\* What lets a search stop early.  An element lies no further from where its
\* search starts than worst_miss says, with no empty bucket before it; no key is
\* there twice, whatever tombstones were reused; used_count counts the elements.
Reachable(b) ==
    \E i \in 0 .. worst_miss :
        /\ Probe(This, Hash[data[b].key] % OccupiedBit, i) = b
        /\ \A m \in 0 .. i - 1 :
              data[Probe(This, Hash[data[b].key] % OccupiedBit, m)] # EMPTY

ProbeInv ==
    LET elements == OccupiedFrom(0) IN
    /\ \A b \in elements : Reachable(b)
    /\ \A b, c \in elements : data[b].key = data[c].key => b = c
    /\ used_count = Cardinality(elements)

\* The table answers for exactly the keys its callers have put in and not taken
\* out, over any sequence of insertions, removals and failed insertions.
NothingLost == {k \in Keys : Found(This, k)} = owned

\* An iteration during which callbacks insert and remove yields every element
\* that stays, and none of them twice: what lies before its bucket has been
\* yielded, what lies behind has not, and no operation moves an element across.
IterationSound ==
    iterating =>
        /\ steady \subseteq Stored(This)
        /\ \A b \in OccupiedFrom(0) :
              data[b].key \in steady => (data[b].key \in visited <=> b <= iter)

\* hash.c implements the map of KeyedSet; what autk_hash_table_find returns is
\* its contents.
Map == INSTANCE KeyedSet WITH
           contents <- [k \in {x \in Keys : Found(This, x)} |-> data[IndexOf(This, k)].val]
MapSpec == Map!Spec
=============================================================================
