--------------------------- MODULE HashTableProofs ---------------------------
(***************************************************************************)
(* Theorems about HashTable, for any keys, hash function, bucket size and  *)
(* width of a size: the invariant that lets a search stop early holds      *)
(* whatever is done to a table; that no element is lost, that iterations   *)
(* are sound, and that the table is the map of KeyedSet, as long as the    *)
(* buffer of a table with elements does not have to grow.                  *)
(***************************************************************************)
EXTENDS HashTable, NumberLemmas, FiniteSetTheorems

-----------------------------------------------------------------------------
(* Probes *)

\* A probe is a bucket of the table.
LEMMA ProbeInTable ==
    ASSUME NEW n \in Nat \ {0}, NEW s \in Nat, NEW i \in Nat
    PROVE  (s + i) % n \in 0 .. n - 1
<1>1. s + i \in Nat
  OBVIOUS
<1>q. QED BY <1>1, DivMod

\* The round of probes after the w-th visits bucket b of a table of n.
RoundVisits(n, s, w, b) == \E i \in w + 1 .. w + n : (s + i) % n = b

\* As many steps in a row as there are buckets look at each of them.
LEMMA ProbeReaches ==
    ASSUME NEW n \in Nat \ {0}, NEW s \in Nat, NEW w \in Nat, NEW b \in 0 .. n - 1
    PROVE  RoundVisits(n, s, w, b)
<1> SUFFICES \E i \in w + 1 .. w + n : (s + i) % n = b
  BY DEF RoundVisits
<1> DEFINE a == s + w + 1
           q == a \div n
           r == a % n
<1>1. a \in Nat
  OBVIOUS
<1>2. r \in 0 .. n - 1 /\ q \in Int /\ a = n * q + r
  BY <1>1, DivMod
<1> HIDE DEF q, r
<1>3. CASE b >= r
  <2>1. PICK i \in Nat : i = w + 1 + (b - r)
    BY <1>2, <1>3
  <2>2. s + i = n * q + b /\ s + i \in Nat
    BY <1>2, <2>1
  <2>3. (s + i) % n = b
    <3>1. PICK c \in Nat : c = s + i
      BY <2>2
    <3>2. c = n * q + b /\ q \in Int
      BY <1>2, <2>2, <3>1
    <3>3. c % n = b
      BY <3>2, ModUnique
    <3>q. QED BY <3>1, <3>3
  <2>q. QED BY <1>2, <1>3, <2>1, <2>3
<1>4. CASE b < r
  <2>1. PICK i \in Nat : i = w + 1 + (b - r) + n
    BY <1>2, <1>4
  <2>2. PICK k \in Int : k = q + 1
    BY <1>2
  <2>3. s + i = n * k + b /\ s + i \in Nat
    BY <1>2, <2>1, <2>2
  <2>4. (s + i) % n = b
    <3>1. PICK c \in Nat : c = s + i
      BY <2>3
    <3>2. c = n * k + b
      BY <2>3, <3>1
    <3>3. c % n = b
      BY <3>2, ModUnique
    <3>q. QED BY <3>1, <3>3
  <2>5. i \in w + 1 .. w + n
    BY <1>2, <1>4, <2>1
  <2>q. QED BY <2>4, <2>5
<1>q. QED BY <1>2, <1>3, <1>4

\* Further than once round the table is where the search has been.
LEMMA ProbeAround ==
    ASSUME NEW n \in Nat \ {0}, NEW s \in Nat, NEW i \in Nat, i >= n
    PROVE  (s + (i - n)) % n = (s + i) % n
<1> DEFINE q == (s + i) \div n
           r == (s + i) % n
<1>1. s + i \in Nat
  OBVIOUS
<1>2. r \in 0 .. n - 1 /\ q \in Int /\ s + i = n * q + r
  BY <1>1, DivMod
<1> HIDE DEF q, r
<1>3. PICK k \in Int : k = q - 1
  BY <1>2
<1>4. s + (i - n) = n * k + r /\ s + (i - n) \in Nat
  BY <1>2, <1>3
<1>5. (s + (i - n)) % n = r
  <2>1. PICK c \in Nat : c = s + (i - n)
    BY <1>4
  <2>2. c = n * k + r /\ r \in 0 .. n - 1
    BY <1>2, <1>4, <2>1
  <2>3. c % n = r
    BY <2>2, ModUnique
  <2>q. QED BY <2>1, <2>3
<1>q. QED BY <1>5 DEF r

-----------------------------------------------------------------------------
(* Buckets *)

Start(k) == Hash[k] % OccupiedBit

\* Hashes are numbers.
LEMMA StartIsNumber ==
    ASSUME NEW k \in Keys PROVE Start(k) \in Nat /\ Hash[k] \in Nat
<1>1. OccupiedBit \in Nat \ {0} /\ Hash[k] \in Nat
  BY TableAssumption
<1>q. QED BY <1>1, DivMod DEF Start

\* What do_insert writes is an occupied bucket with the key and the value.
LEMMA OccupiedBuckets ==
    ASSUME NEW k \in Keys, NEW v \in Values
    PROVE  /\ Occupied(k, v) \in Bucket /\ IsOccupied(Occupied(k, v))
           /\ Occupied(k, v).key = k /\ Occupied(k, v).val = v
           /\ Occupied(k, v).hash = Start(k)
           /\ Occupied(k, v) # EMPTY
BY DEF Bucket, Occupied, IsOccupied, EMPTY, Start

\* Empty buckets and tombstones are not occupied.
LEMMA FreeBuckets ==
    /\ EMPTY \in Bucket /\ TOMBSTONE \in Bucket /\ EMPTY # TOMBSTONE
    /\ ~IsOccupied(EMPTY) /\ ~IsOccupied(TOMBSTONE)
BY DEF Bucket, EMPTY, TOMBSTONE, IsOccupied

\* What there is beside empty buckets and tombstones.
LEMMA BucketKinds ==
    ASSUME NEW b \in Bucket
    PROVE  /\ IsOccupied(b) \/ b = EMPTY \/ b = TOMBSTONE
           /\ IsOccupied(b) => b.key \in Keys /\ b.val \in Values /\ b.hash = Start(b.key)
                               /\ b # EMPTY /\ b # TOMBSTONE
<1>1. CASE b \in {EMPTY, TOMBSTONE}
  BY <1>1, FreeBuckets
<1>2. CASE \E k \in Keys : \E v \in Values : b = Occupied(k, v)
  <2>1. PICK k \in Keys : \E v \in Values : b = Occupied(k, v)
    BY <1>2
  <2>2. PICK v \in Values : b = Occupied(k, v)
    BY <2>1
  <2>q. QED BY <2>2, OccupiedBuckets, FreeBuckets
<1>q. QED BY <1>1, <1>2 DEF Bucket

-----------------------------------------------------------------------------
(* Tables *)

Elements(t) == {b \in DOMAIN t.data : IsOccupied(t.data[b])}

IsTable(t, n) ==
    /\ t = [data |-> t.data, used_count |-> t.used_count, worst_miss |-> t.worst_miss]
    /\ n \in Nat
    /\ DOMAIN t.data = 0 .. n - 1
    /\ \A b \in 0 .. n - 1 : t.data[b] \in Bucket
    /\ t.worst_miss \in Nat
    /\ t.worst_miss = 0 \/ t.worst_miss < n

\* b is i steps from s, and no step before met an empty bucket.
Reaches(t, s, i, b) ==
    /\ Probe(t, s, i) = b
    /\ \A m \in 0 .. i - 1 : t.data[Probe(t, s, m)] # EMPTY

Searchable(t) ==
    \A b \in Elements(t) :
        \E i \in 0 .. t.worst_miss : Reaches(t, Start(t.data[b].key), i, b)

Unique(t) == \A b, c \in Elements(t) : t.data[b].key = t.data[c].key => b = c

Counted(t) == t.used_count = Cardinality(Elements(t))

Good(t, n) == IsTable(t, n) /\ Searchable(t) /\ Unique(t) /\ Counted(t)

\* bucket_count is the length of the buffer.
LEMMA CountOfBuckets ==
    ASSUME NEW t, NEW n, IsTable(t, n) PROVE BucketCount(t) = n
<1>1. DOMAIN t.data = 0 .. n - 1 /\ n \in Nat
  BY DEF IsTable
<1>2. Cardinality(0 .. n - 1) = n
  BY <1>1, FS_Interval
<1>q. QED BY <1>1, <1>2 DEF BucketCount

\* As long as fewer elements are counted than there are buckets, one is free.
LEMMA ElementsFinite ==
    ASSUME NEW t, NEW n, IsTable(t, n)
    PROVE  /\ IsFiniteSet(Elements(t)) /\ Cardinality(Elements(t)) \in 0 .. n
           /\ Elements(t) \subseteq 0 .. n - 1
           /\ Cardinality(Elements(t)) < n => \E b \in 0 .. n - 1 : ~IsOccupied(t.data[b])
<1>1. DOMAIN t.data = 0 .. n - 1 /\ n \in Nat
  BY DEF IsTable
<1>2. IsFiniteSet(0 .. n - 1) /\ Cardinality(0 .. n - 1) = n
  BY <1>1, FS_Interval
<1>3. Elements(t) \subseteq 0 .. n - 1
  BY <1>1 DEF Elements
<1>4. /\ IsFiniteSet(Elements(t)) /\ Cardinality(Elements(t)) <= n
      /\ Cardinality(Elements(t)) \in Nat
  BY <1>2, <1>3, FS_Subset, FS_CardinalityType
<1>5. ASSUME Cardinality(Elements(t)) < n
      PROVE  \E b \in 0 .. n - 1 : ~IsOccupied(t.data[b])
  <2>1. Elements(t) # 0 .. n - 1
    BY <1>1, <1>2, <1>5
  <2>q. QED BY <1>1, <1>3, <2>1 DEF Elements
<1>q. QED BY <1>1, <1>3, <1>4, <1>5

\* The keys stored are those of the occupied buckets.
LEMMA StoredIsElements ==
    ASSUME NEW t, NEW n, IsTable(t, n)
    PROVE  /\ Stored(t) = {t.data[b].key : b \in Elements(t)}
           /\ Stored(t) \subseteq Keys
<1>1. \A b \in Elements(t) : t.data[b].key \in Keys
  BY BucketKinds DEF Elements, IsTable
<1>2. Stored(t) = {t.data[b].key : b \in Elements(t)}
  BY DEF Stored, Elements
<1>q. QED BY <1>1, <1>2

-----------------------------------------------------------------------------
(* do_insert *)

\* k is found neither further on nor before: no bucket holds it.
LEMMA NewKeyIsNowhere ==
    ASSUME NEW t, NEW n, Good(t, n), NEW k \in Keys, NEW j \in Nat, j <= t.worst_miss + 1,
           \A m \in 0 .. j - 1 : ~Holds(t.data[Probe(t, Start(k), m)], k),
           j = t.worst_miss + 1 \/ t.data[Probe(t, Start(k), j)] = EMPTY
    PROVE  k \notin Stored(t)
<1>1. SUFFICES ASSUME NEW b \in Elements(t), t.data[b].key = k PROVE FALSE
  BY StoredIsElements DEF Good
<1>2. PICK i \in 0 .. t.worst_miss : Reaches(t, Start(k), i, b)
  BY <1>1 DEF Good, Searchable
<1>3. Holds(t.data[b], k) /\ t.data[b] # EMPTY
  <2>1. t.data[b] \in Bucket /\ IsOccupied(t.data[b])
    BY DEF Good, IsTable, Elements
  <2>q. QED BY <1>1, <2>1, BucketKinds DEF Holds, Start
<1>4. t.worst_miss \in Nat
  BY DEF Good, IsTable
<1>5. i >= j
  BY <1>2, <1>3, <1>4 DEF Reaches
<1>6. i # j
  BY <1>2, <1>3, <1>4 DEF Reaches
<1>7. t.data[Probe(t, Start(k), j)] # EMPTY /\ j < t.worst_miss + 1
  BY <1>2, <1>4, <1>5, <1>6 DEF Reaches
<1>q. QED BY <1>7

\* A new key goes into a free bucket that its search reaches.
LEMMA PutIsGood ==
    ASSUME NEW t, NEW n, Good(t, n), NEW k \in Keys, NEW v \in Values, k \notin Stored(t),
           NEW b \in 0 .. n - 1, ~IsOccupied(t.data[b]),
           NEW worst \in Nat, t.worst_miss <= worst, worst = 0 \/ worst < n,
           NEW i \in 0 .. worst, Reaches(t, Start(k), i, b),
           NEW u, u = Put(t, b, k, v, worst)
    PROVE  /\ Good(u, n)
           /\ Elements(u) = Elements(t) \cup {b} /\ b \notin Elements(t)
           /\ Stored(u) = Stored(t) \cup {k}
           /\ \A c \in Elements(t) : u.data[c] = t.data[c]
           /\ u.data[b] = Occupied(k, v)
<1>1. IsTable(t, n)
  BY DEF Good
<1>2. /\ DOMAIN u.data = 0 .. n - 1
      /\ u.data[b] = Occupied(k, v)
      /\ \A c \in 0 .. n - 1 : c # b => u.data[c] = t.data[c]
      /\ u.worst_miss = worst /\ u.used_count = t.used_count + 1
      /\ u = [data |-> u.data, used_count |-> u.used_count, worst_miss |-> u.worst_miss]
  BY <1>1 DEF Put, IsTable
<1>3. IsTable(u, n)
  BY <1>1, <1>2, OccupiedBuckets DEF IsTable
<1>4. Elements(u) = Elements(t) \cup {b} /\ b \notin Elements(t)
  BY <1>1, <1>2, OccupiedBuckets DEF Elements, IsTable
<1>5. \A c \in Elements(t) : c \in 0 .. n - 1 /\ c # b /\ u.data[c] = t.data[c]
  BY <1>1, <1>2, <1>4 DEF Elements, IsTable
<1>6. BucketCount(u) = BucketCount(t)
  BY <1>1, <1>3, CountOfBuckets
<1>7. \A s, m : Probe(u, s, m) = Probe(t, s, m)
  BY <1>6 DEF Probe
<1>8. ASSUME NEW s \in Nat, NEW m \in Nat, t.data[Probe(t, s, m)] # EMPTY
      PROVE  u.data[Probe(u, s, m)] # EMPTY
  <2>1. Probe(t, s, m) \in 0 .. n - 1
    <3>1. n \in Nat \ {0}
      BY <1>1 DEF IsTable
    <3>q. QED BY <3>1, <1>1, CountOfBuckets, ProbeInTable DEF Probe
  <2>q. QED BY <1>2, <1>7, <1>8, <2>1, OccupiedBuckets
<1>9. ASSUME NEW s \in Nat, NEW j \in Nat, NEW c, Reaches(t, s, j, c)
      PROVE  Reaches(u, s, j, c)
  <2>1. \A m \in 0 .. j - 1 : m \in Nat /\ t.data[Probe(t, s, m)] # EMPTY
    BY <1>9 DEF Reaches
  <2>2. \A m \in 0 .. j - 1 : u.data[Probe(u, s, m)] # EMPTY
    BY <1>8, <2>1
  <2>q. QED BY <1>7, <1>9, <2>2 DEF Reaches
<1>10. Searchable(u)
  <2>1. SUFFICES ASSUME NEW c \in Elements(u)
                 PROVE  \E j \in 0 .. u.worst_miss : Reaches(u, Start(u.data[c].key), j, c)
    BY DEF Searchable
  <2>2. CASE c = b
    <3>1. u.data[c].key = k /\ Start(k) \in Nat
      BY <1>2, <2>2, OccupiedBuckets, StartIsNumber
    <3>2. Reaches(u, Start(k), i, b)
      BY <1>9, <3>1
    <3>q. QED BY <3>1, <3>2, <1>2, <2>2
  <2>3. CASE c \in Elements(t)
    <3>1. PICK j \in 0 .. t.worst_miss : Reaches(t, Start(t.data[c].key), j, c)
      BY <2>3 DEF Good, Searchable
    <3>2. Start(t.data[c].key) \in Nat
      BY <1>1, <1>5, <2>3, BucketKinds, StartIsNumber DEF Elements, IsTable
    <3>3. Reaches(u, Start(t.data[c].key), j, c)
      BY <1>9, <3>1, <3>2
    <3>4. j \in 0 .. u.worst_miss
      BY <1>1, <1>2 DEF IsTable
    <3>q. QED BY <3>3, <3>4, <1>5, <2>3
  <2>q. QED BY <1>4, <2>2, <2>3
<1>11. Unique(u)
  <2>1. \A c \in Elements(t) : t.data[c].key # k
    BY <1>1, StoredIsElements
  <2>q. QED BY <1>2, <1>4, <1>5, <2>1, OccupiedBuckets DEF Unique, Good
<1>12. Counted(u)
  <2>1. Cardinality(Elements(u)) = Cardinality(Elements(t)) + 1
    BY <1>1, <1>4, ElementsFinite, FS_AddElement
  <2>q. QED BY <1>2, <2>1 DEF Counted, Good
<1>13. Stored(u) = Stored(t) \cup {k}
  <2>1. Stored(u) = {u.data[c].key : c \in Elements(u)}
    BY <1>3, StoredIsElements
  <2>2. Stored(t) = {t.data[c].key : c \in Elements(t)}
    BY <1>1, StoredIsElements
  <2>3. u.data[b].key = k
    BY <1>2, OccupiedBuckets
  <2>q. QED BY <1>4, <1>5, <2>1, <2>2, <2>3
<1>q. QED BY <1>2, <1>3, <1>4, <1>5, <1>10, <1>11, <1>12, <1>13 DEF Good

\* Where do_insert puts a key, and that it leaves the table alone when it is there:
\* one of the three loops finds the key or a place for it.
Place(t, n, k, b, worst, i) ==
    /\ b \in 0 .. n - 1 /\ ~IsOccupied(t.data[b])
    /\ worst \in Nat /\ t.worst_miss <= worst /\ (worst = 0 \/ worst < n)
    /\ i \in 0 .. worst /\ Reaches(t, Start(k), i, b)

\* A table that is not full has a free bucket within one round of any bucket.
LEMMA FreeBucketAhead ==
    ASSUME NEW t, NEW n \in Nat \ {0}, Good(t, n), t.used_count < n,
           NEW s \in Nat, NEW w \in Nat
    PROVE  \E i \in w + 1 .. w + n : ~IsOccupied(t.data[Probe(t, s, i)])
<1>1. IsTable(t, n) /\ BucketCount(t) = n
  BY CountOfBuckets DEF Good
<1>2. PICK b \in 0 .. n - 1 : ~IsOccupied(t.data[b])
  BY <1>1, ElementsFinite DEF Good, Counted
<1>3. RoundVisits(n, s, w, b)
  BY ProbeReaches
<1>4. PICK i \in w + 1 .. w + n : (s + i) % n = b
  BY <1>3 DEF RoundVisits
<1>q. QED BY <1>1, <1>2, <1>4 DEF Probe

\* do_insert, its three cases: a table that is not full takes a new key in a bucket its
\* probe reaches, and leaves alone a key it has.
LEMMA InsertFindsPlace ==
    ASSUME NEW t, NEW n, Good(t, n), t.used_count < n, NEW k \in Keys, NEW v \in Values
    PROVE  \/ DoInsert(t, k, v) = t /\ k \in Stored(t)
           \/ /\ k \notin Stored(t)
              /\ \E b, worst, i :
                    Place(t, n, k, b, worst, i) /\ DoInsert(t, k, v) = Put(t, b, k, v, worst)
<1> DEFINE At(i) == t.data[Probe(t, Start(k), i)]
           w == t.worst_miss
           near == 0 .. w
           stops == {i \in near : At(i) = EMPTY \/ Holds(At(i), k)}
           tombstones == {i \in near : At(i) = TOMBSTONE}
           beyond == {i \in w + 1 .. w + BucketCount(t) : ~IsOccupied(At(i))}
<1>1. IsTable(t, n) /\ BucketCount(t) = n /\ w \in Nat /\ (w = 0 \/ w < n)
  BY CountOfBuckets DEF Good, IsTable
<1>2. n \in Nat \ {0}
  <2>1. Cardinality(Elements(t)) \in 0 .. n
    BY <1>1, ElementsFinite
  <2>q. QED BY <1>1, <2>1 DEF Good, Counted, IsTable
<1>3. Start(k) \in Nat
  BY StartIsNumber
<1>4. ASSUME NEW i \in Nat
      PROVE  Probe(t, Start(k), i) \in 0 .. n - 1 /\ At(i) \in Bucket
  <2>1. Probe(t, Start(k), i) \in 0 .. n - 1
    BY <1>1, <1>2, <1>3, ProbeInTable DEF Probe
  <2>q. QED BY <1>1, <2>1 DEF IsTable
<1>5. DoInsert(t, k, v) =
          CASE stops # {} ->
                 IF At(Min(stops)) = EMPTY THEN Put(t, Probe(t, Start(k), Min(stops)), k, v, w)
                 ELSE t
            [] stops = {} /\ tombstones # {} ->
                 Put(t, Probe(t, Start(k), Min(tombstones)), k, v, w)
            [] OTHER -> Put(t, Probe(t, Start(k), Min(beyond)), k, v, Min(beyond))
  BY DEF DoInsert, Start
<1>6. /\ stops \in SUBSET Nat /\ tombstones \in SUBSET Nat /\ beyond \in SUBSET Nat
      /\ \A i \in stops : i <= w
      /\ \A i \in tombstones : i <= w
  BY <1>1, <1>2
<1>7. CASE stops # {}
  <2>1. PICK i \in Nat : i = Min(stops) /\ i \in stops /\ \A j \in stops : i <= j
    BY <1>6, <1>7, MinIsLeast
  <2>2. \A m \in 0 .. i - 1 : At(m) # EMPTY /\ ~Holds(At(m), k)
    <3>1. SUFFICES ASSUME NEW m \in 0 .. i - 1 PROVE m \notin stops /\ m \in near
      OBVIOUS
    <3>q. QED BY <1>1, <1>6, <2>1
  <2>3. CASE At(i) = EMPTY
    <3>1. k \notin Stored(t)
      <4>1. i <= t.worst_miss + 1
        BY <1>1, <1>6, <2>1
      <4>2. /\ \A m \in 0 .. i - 1 : ~Holds(t.data[Probe(t, Start(k), m)], k)
            /\ t.data[Probe(t, Start(k), i)] = EMPTY
        BY <2>2, <2>3
      <4>q. QED BY <4>1, <4>2, NewKeyIsNowhere
    <3>2. Place(t, n, k, Probe(t, Start(k), i), w, i)
      <4>1. ~IsOccupied(At(i))
        BY <2>3, FreeBuckets
      <4>2. Reaches(t, Start(k), i, Probe(t, Start(k), i))
        BY <2>2 DEF Reaches
      <4>q. QED BY <1>1, <1>4, <1>6, <2>1, <4>1, <4>2 DEF Place
    <3>3. DoInsert(t, k, v) = Put(t, Probe(t, Start(k), i), k, v, w)
      BY <1>5, <1>7, <2>1, <2>3
    <3>q. QED BY <3>1, <3>2, <3>3
  <2>4. CASE At(i) # EMPTY
    <3>1. DoInsert(t, k, v) = t
      BY <1>5, <1>7, <2>1, <2>4
    <3>2. IsOccupied(At(i)) /\ At(i).key = k
      BY <2>1, <2>4 DEF Holds
    <3>3. k \in Stored(t)
      BY <1>1, <1>4, <3>2 DEF Stored, IsTable
    <3>q. QED BY <3>1, <3>3
  <2>q. QED BY <2>3, <2>4
<1>8. CASE stops = {}
  <2>1. \A m \in 0 .. w : At(m) # EMPTY /\ ~Holds(At(m), k)
    BY <1>8
  <2>2. k \notin Stored(t)
    <3>1. PICK j \in Nat : j = w + 1
      BY <1>1
    <3>2. \A m \in 0 .. j - 1 : ~Holds(At(m), k)
      BY <1>1, <2>1, <3>1
    <3>q. QED BY <3>1, <3>2, NewKeyIsNowhere
  <2>3. CASE tombstones # {}
    <3>1. PICK i \in Nat : i = Min(tombstones) /\ i \in tombstones
      BY <1>6, <2>3, MinIsLeast
    <3>2. Place(t, n, k, Probe(t, Start(k), i), w, i)
      <4>1. ~IsOccupied(At(i))
        BY <3>1, FreeBuckets
      <4>2. Reaches(t, Start(k), i, Probe(t, Start(k), i))
        <5>1. \A m \in 0 .. i - 1 : m \in 0 .. w
          BY <1>1, <1>6, <3>1
        <5>q. QED BY <2>1, <5>1 DEF Reaches
      <4>q. QED BY <1>1, <1>4, <1>6, <3>1, <4>1, <4>2 DEF Place
    <3>3. DoInsert(t, k, v) = Put(t, Probe(t, Start(k), i), k, v, w)
      BY <1>5, <1>8, <2>3, <3>1
    <3>q. QED BY <2>2, <3>2, <3>3
  <2>4. CASE tombstones = {}
    <3>1. \A m \in 0 .. w : IsOccupied(At(m))
      <4>1. SUFFICES ASSUME NEW m \in 0 .. w PROVE IsOccupied(At(m))
        OBVIOUS
      <4>2. At(m) \in Bucket /\ At(m) # EMPTY /\ At(m) # TOMBSTONE
        BY <1>1, <1>4, <2>1, <2>4
      <4>q. QED BY <4>2, BucketKinds
    <3>2. beyond # {}
      <4>1. \E i \in w + 1 .. w + n : ~IsOccupied(At(i))
        BY <1>1, <1>2, <1>3, FreeBucketAhead
      <4>q. QED BY <1>1, <4>1
    <3>3. PICK i \in Nat : i = Min(beyond) /\ i \in beyond /\ \A j \in beyond : i <= j
      BY <1>6, <3>2, MinIsLeast
    <3>4. /\ i \in w + 1 .. w + n /\ ~IsOccupied(At(i))
      BY <1>1, <3>3
    <3>5. \A m \in 0 .. i - 1 : IsOccupied(At(m))
      <4>1. SUFFICES ASSUME NEW m \in 0 .. i - 1, m > w PROVE IsOccupied(At(m))
        BY <1>1, <3>1
      <4>2. m \in w + 1 .. w + n /\ m < i
        BY <1>1, <1>2, <3>4, <4>1
      <4>3. m \notin beyond
        BY <3>3, <4>2
      <4>q. QED BY <1>1, <4>2, <4>3
    <3>6. i < n
      <4>1. SUFFICES ASSUME i >= n PROVE FALSE
        BY <1>2
      <4>2. PICK m \in Nat : m = i - n
        BY <1>2, <4>1
      <4>3. (Start(k) + m) % n = (Start(k) + i) % n
        BY <1>2, <1>3, <4>1, <4>2, ProbeAround
      <4>4. At(m) = At(i)
        BY <1>1, <4>3 DEF Probe
      <4>5. m \in 0 .. i - 1
        BY <1>2, <4>2
      <4>q. QED BY <3>4, <3>5, <4>4, <4>5
    <3>7. \A m \in 0 .. i - 1 : At(m) # EMPTY
      BY <3>5, FreeBuckets
    <3>8. Place(t, n, k, Probe(t, Start(k), i), i, i)
      <4>1. Reaches(t, Start(k), i, Probe(t, Start(k), i))
        BY <3>7 DEF Reaches
      <4>q. QED BY <1>1, <1>4, <3>4, <3>6, <4>1 DEF Place
    <3>9. DoInsert(t, k, v) = Put(t, Probe(t, Start(k), i), k, v, i)
      BY <1>5, <1>8, <2>4, <3>3
    <3>q. QED BY <2>2, <3>8, <3>9
  <2>q. QED BY <2>3, <2>4
<1>q. QED BY <1>7, <1>8

\* A new key is added to the elements, which stay where they are; a key that is
\* there changes nothing.
Inserted(t, u, k, v) ==
    \/ u = t /\ k \in Stored(t)
    \/ /\ k \notin Stored(t) /\ Stored(u) = Stored(t) \cup {k}
       /\ \A c \in Elements(t) : u.data[c] = t.data[c]
       /\ \E b : /\ Elements(u) = Elements(t) \cup {b} /\ b \notin Elements(t)
                 /\ u.data[b] = Occupied(k, v)

\* So do_insert keeps a table good.
LEMMA InsertIsGood ==
    ASSUME NEW t, NEW n, Good(t, n), t.used_count < n, NEW k \in Keys, NEW v \in Values,
           NEW u, u = DoInsert(t, k, v)
    PROVE  Good(u, n) /\ Inserted(t, u, k, v)
<1>1. CASE DoInsert(t, k, v) = t /\ k \in Stored(t)
  BY <1>1 DEF Inserted
<1>2. CASE k \notin Stored(t)
  <2>1. PICK b, worst, i :
            Place(t, n, k, b, worst, i) /\ DoInsert(t, k, v) = Put(t, b, k, v, worst)
    BY <1>2, InsertFindsPlace
  <2>2. /\ Good(u, n)
        /\ Elements(u) = Elements(t) \cup {b} /\ b \notin Elements(t)
        /\ Stored(u) = Stored(t) \cup {k}
        /\ \A c \in Elements(t) : u.data[c] = t.data[c]
        /\ u.data[b] = Occupied(k, v)
    BY <1>2, <2>1, PutIsGood DEF Place
  <2>q. QED BY <1>2, <2>2 DEF Inserted
<1>q. QED BY <1>1, <1>2, InsertFindsPlace

-----------------------------------------------------------------------------
(* Buffers *)

\* A zeroed buffer is a good table without elements.
LEMMA ZeroedIsGood ==
    ASSUME NEW n \in Nat
    PROVE  Good(Zeroed(n), n) /\ Elements(Zeroed(n)) = {} /\ Stored(Zeroed(n)) = {}
           /\ Zeroed(n).used_count = 0
<1>1. PICK t : t = Zeroed(n)
  OBVIOUS
<1>2. /\ t = [data |-> t.data, used_count |-> t.used_count, worst_miss |-> t.worst_miss]
      /\ DOMAIN t.data = 0 .. n - 1 /\ \A b \in 0 .. n - 1 : t.data[b] = EMPTY
      /\ t.used_count = 0 /\ t.worst_miss = 0
  BY <1>1 DEF Zeroed
<1>3. IsTable(t, n)
  BY <1>2, FreeBuckets DEF IsTable
<1>4. Elements(t) = {}
  BY <1>2, FreeBuckets DEF Elements
<1>5. Counted(t)
  BY <1>2, <1>4, FS_EmptySet DEF Counted
<1>6. Stored(t) = {}
  BY <1>3, <1>4, StoredIsElements
<1>q. QED BY <1>1, <1>2, <1>3, <1>4, <1>5, <1>6 DEF Good, Searchable, Unique

\* The loop of autk_hash_table_reserve looks for elements in the new buffer, which
\* has none: nothing is moved.
LEMMA ReinsertsNothing ==
    ASSUME NEW old, NEW n \in Nat
    PROVE  Reinserted(old, Zeroed(n)) = Zeroed(n)
<1> DEFINE new == Zeroed(n)
           source == new.data
           moved == {b \in DOMAIN old.data \cap DOMAIN source : IsOccupied(source[b])}
<1>1. \A b \in DOMAIN source : ~IsOccupied(source[b])
  BY DEF Zeroed, IsOccupied, EMPTY
<1>2. moved = {}
  BY <1>1
<1> HIDE DEF moved
<1>3. MapThenFoldSet(LAMBDA b, t : DoInsert(t, b.key, b.val), new,
                     LAMBDA b : source[b], LAMBDA S : Max(S), moved) = new
  BY <1>2 DEF MapThenFoldSet
<1>q. QED BY <1>3 DEF Reinserted, moved

\* The bounds of size_t are numbers.
LEMMA SizesAreNumbers == SizeMax \in Int /\ 0 \in 0 .. SizeMax
<1>1. \A e \in Nat : 2 ^ e \in Int
  OBVIOUS
<1>2. SizeMax \in Int
  BY <1>1, TableAssumption DEF SizeMax
<1>q. QED BY <1>2, TableAssumption

\* A new buffer has a bucket, and no more than a size can count.
LEMMA NewBuffers ==
    ASSUME NEW m \in Nat, ~Overflows(m)
    PROVE  NewBucketCount(m) \in 1 .. SizeMax /\ NewBucketCount(m) \in Nat \ {0}
<1> DEFINE size == MinBuckets(m) * BucketSize
           powers == {p \in {2 ^ e : e \in 0 .. SizeBits - 1} : p >= size}
           bytes == IF NextPow2(size) < MinBufferBytes THEN MinBufferBytes ELSE NextPow2(size)
<1>1. /\ BucketSize \in Nat \ {0} /\ MinBufferBytes \in Int /\ BucketSize <= MinBufferBytes
      /\ SizeBits \in Nat \ {0}
  BY TableAssumption
<1>2. size \in Nat
  <2>1. MinBuckets(m) \in Nat
    <3>1. PICK y \in Nat : y = m * 4
      OBVIOUS
    <3>2. y % 3 \in 0 .. 2 /\ y \div 3 \in Int /\ y = 3 * (y \div 3) + (y % 3)
      BY DivMod
    <3>q. QED BY <3>1, <3>2 DEF MinBuckets
  <2>q. QED BY <2>1, <1>1
<1> HIDE DEF size
<1>3. size # 0 /\ ~(size > 2 ^ (SizeBits - 1)) /\ NextPow2(size) = Min(powers)
  BY DEF Overflows, NextPow2, size
<1>4. \A e \in Nat : 2 ^ e \in Int
  OBVIOUS
<1>5. powers \in SUBSET Nat
  BY <1>1, <1>2, <1>4
<1>6. 2 ^ (SizeBits - 1) \in powers
  BY <1>1, <1>2, <1>3, <1>4
<1>7. NextPow2(size) \in Nat /\ NextPow2(size) <= 2 ^ (SizeBits - 1)
  BY <1>3, <1>5, <1>6, MinIsLeast
<1> HIDE DEF powers
<1>8. bytes \in Nat /\ bytes >= BucketSize /\ bytes <= SizeMax /\ SizeMax \in Int
  <2>1. PICK top \in Int : top = 2 ^ (SizeBits - 1)
    BY <1>1, <1>4
  <2>2. SizeMax = 2 * top - 1 /\ NextPow2(size) <= top /\ top >= 1
    BY <1>2, <1>3, <1>7, <2>1 DEF SizeMax
  <2>3. MinBufferBytes <= SizeMax
    BY TableAssumption
  <2>q. QED BY <1>1, <1>7, <2>2, <2>3
<1>9. NewBucketCount(m) = bytes \div BucketSize
  BY DEF NewBucketCount, size
<1> HIDE DEF bytes
<1>10. PICK q \in Int, r \in 0 .. BucketSize - 1 :
            q = bytes \div BucketSize /\ bytes = BucketSize * q + r
  BY <1>1, <1>8, DivMod
<1>11. q > 0
  <2>1. ASSUME q <= 0 PROVE FALSE
    <3>1. BucketSize * q <= 0
      <4>1. BucketSize * (-q) >= 0 BY <1>1, <2>1
      <4>q. QED BY <1>1, <4>1
    <3>q. QED BY <1>1, <1>8, <1>10, <3>1
  <2>q. QED BY <2>1
<1>12. q <= bytes
  <2>1. PICK d \in Nat : BucketSize = d + 1
    BY <1>1
  <2>2. d * q >= 0
    BY <1>11, <2>1
  <2>3. (d + 1) * q = d * q + q
    BY <2>1
  <2>4. BucketSize * q = (d + 1) * q
    BY <2>1
  <2>q. QED BY <1>1, <1>8, <1>10, <2>2, <2>3, <2>4
<1>q. QED BY <1>8, <1>9, <1>10, <1>11, <1>12

\* A buffer that is large enough for one element more has a free bucket.
LEMMA FitsLeavesRoom ==
    ASSUME NEW n, Good(This, n), Fits(used_count + 1)
    PROVE  This.used_count < n
<1>1. BucketCount(This) = n /\ n \in Nat /\ This.used_count \in Nat
  <2>1. IsTable(This, n) /\ Counted(This)
    BY DEF Good
  <2>2. Cardinality(Elements(This)) \in 0 .. n /\ n \in Nat
    BY <2>1, ElementsFinite DEF IsTable
  <2>q. QED BY <2>1, <2>2, CountOfBuckets DEF Counted
<1>2. This.used_count = used_count
  BY DEF This
<1>3. PICK x \in Nat : x = used_count + 1
  BY <1>1, <1>2
<1>4. x * 4 \in Nat
  OBVIOUS
<1>5. PICK q, r : q = (x * 4) \div 3 /\ r = (x * 4) % 3
  OBVIOUS
<1>6. r \in 0 .. 2 /\ q \in Int /\ x * 4 = 3 * q + r
  BY <1>4, <1>5, DivMod
<1>7. n >= q
  BY <1>1, <1>3, <1>5 DEF Fits, MinBuckets
<1>q. QED BY <1>1, <1>2, <1>3, <1>6, <1>7

\* What an action says of the members of the table it says of the table.
LEMMA BecomesIs ==
    ASSUME NEW t, NEW n, IsTable(t, n), Becomes(t) PROVE This' = t
BY DEF IsTable, Becomes, This

-----------------------------------------------------------------------------
(* The calls *)

\* autk_hash_table_insert without growing.
LEMMA InsertStep ==
    ASSUME NEW n, Good(This, n), NEW k \in Keys, NEW v \in Values, Insert(k, v)
    PROVE  Good(This', n) /\ Inserted(This, This', k, v)
<1>1. PICK u : u = DoInsert(This, k, v)
  OBVIOUS
<1>2. This.used_count < n
  BY FitsLeavesRoom DEF Insert
<1>3. Good(u, n) /\ Inserted(This, u, k, v)
  BY <1>1, <1>2, InsertIsGood
<1>4. This' = u
  BY <1>1, <1>3, BecomesIs DEF Insert, Good
<1>q. QED BY <1>3, <1>4

\* What was in the table before is not in it any more.
LEMMA GrowStep ==
    ASSUME NEW n, Good(This, n), NEW k \in Keys, NEW v \in Values, GrowAndInsert(k, v)
    PROVE  \E m \in 1 .. SizeMax : Good(This', m) /\ Inserted(Zeroed(m), This', k, v)
<1>1. used_count + 1 \in Nat
  BY ElementsFinite DEF Good, Counted, IsTable, This
<1>2. PICK m \in (1 .. SizeMax) \cap (Nat \ {0}) : m = NewBucketCount(used_count + 1)
  BY <1>1, NewBuffers DEF GrowAndInsert
<1>3. Becomes(DoInsert(Zeroed(m), k, v))
  BY <1>2, ReinsertsNothing DEF GrowAndInsert
<1>4. Good(Zeroed(m), m) /\ Zeroed(m).used_count < m
  BY ZeroedIsGood
<1>5. PICK t, u : t = Zeroed(m) /\ u = DoInsert(t, k, v)
  OBVIOUS
<1>6. Good(u, m) /\ Inserted(t, u, k, v)
  BY <1>4, <1>5, InsertIsGood
<1>7. This' = u
  BY <1>3, <1>5, <1>6, BecomesIs DEF Good
<1>q. QED BY <1>5, <1>6, <1>7

\* autk_hash_table_reserve leaves a zeroed table.
LEMMA ReserveStep ==
    ASSUME NEW n, Good(This, n), NEW min_count \in Nat, Reserve(min_count)
    PROVE  \E m \in 1 .. SizeMax : Good(This', m) /\ This' = Zeroed(m)
<1>1. PICK m \in (1 .. SizeMax) \cap (Nat \ {0}) : m = NewBucketCount(min_count)
  BY NewBuffers DEF Reserve
<1>2. Becomes(Zeroed(m))
  BY <1>1, ReinsertsNothing DEF Reserve
<1>3. Good(Zeroed(m), m)
  BY ZeroedIsGood
<1>4. This' = Zeroed(m)
  BY <1>2, <1>3, BecomesIs DEF Good
<1>q. QED BY <1>3, <1>4

\* autk_hash_table_fini.
LEMMA FiniStep ==
    ASSUME Fini
    PROVE  Good(This', 0) /\ This' = Zeroed(0)
<1>1. Good(Zeroed(0), 0)
  BY ZeroedIsGood
<1>2. This' = Zeroed(0)
  BY <1>1, BecomesIs DEF Fini, Good
<1>q. QED BY <1>1, <1>2

\* The bucket a search for k finds.
LEMMA FoundBucket ==
    ASSUME NEW t, NEW n, Good(t, n), NEW k \in Keys, Found(t, k)
    PROVE  IndexOf(t, k) \in Elements(t) /\ t.data[IndexOf(t, k)].key = k
<1>1. IsTable(t, n) /\ BucketCount(t) = n /\ t.worst_miss \in Nat
  BY CountOfBuckets DEF Good, IsTable
<1>2. PICK i : i = Min(Hits(t, k))
  OBVIOUS
<1>3. Hits(t, k) \in SUBSET Nat /\ Hits(t, k) # {}
  BY <1>1 DEF Hits, Found
<1>4. i \in Hits(t, k)
  BY <1>2, <1>3, MinIsLeast
<1>5. PICK b : b = Probe(t, Hash[k], i)
  OBVIOUS
<1>6. Holds(t.data[b], k) /\ IndexOf(t, k) = b
  BY <1>2, <1>4, <1>5 DEF Hits, IndexOf
<1>7. b \in 0 .. n - 1
  <2>1. t.used_count # 0 /\ t.used_count \in 0 .. n
    BY <1>1, ElementsFinite DEF Found, Good, Counted
  <2>2. n \in Nat \ {0} /\ Hash[k] \in Nat /\ i \in Nat
    BY <1>1, <1>3, <1>4, <2>1, StartIsNumber DEF IsTable
  <2>q. QED BY <1>1, <1>5, <2>2, ProbeInTable DEF Probe
<1>q. QED BY <1>1, <1>6, <1>7 DEF Holds, Elements, IsTable

\* Its element goes, the others stay where they are.
Removed(t, u, k) ==
    /\ Stored(u) = Stored(t) \ {k}
    /\ \E b \in Elements(t) : t.data[b].key = k /\ Elements(u) = Elements(t) \ {b}
    /\ \A c \in Elements(u) : u.data[c] = t.data[c]

\* autk_hash_table_remove: a tombstone takes the place of the element.
LEMMA RemoveStep ==
    ASSUME NEW n, Good(This, n), NEW k \in Keys, Remove(k)
    PROVE  Good(This', n) /\ Removed(This, This', k)
<1>1. PICK t : t = This
  OBVIOUS
<1>2. PICK u : u = This'
  OBVIOUS
<1>3. Good(t, n) /\ IsTable(t, n)
  BY <1>1 DEF Good
<1>4. PICK b \in Elements(t) : b = IndexOf(t, k) /\ t.data[b].key = k
  BY <1>1, <1>3, FoundBucket DEF Remove
<1>5. /\ u = [data |-> u.data, used_count |-> u.used_count, worst_miss |-> u.worst_miss]
      /\ u.data = [t.data EXCEPT ![b] = TOMBSTONE]
      /\ u.used_count = t.used_count - 1 /\ u.worst_miss = t.worst_miss
  BY <1>1, <1>2, <1>4 DEF Remove, This
<1>6. /\ DOMAIN t.data = 0 .. n - 1 /\ DOMAIN u.data = 0 .. n - 1 /\ b \in 0 .. n - 1
      /\ u.data[b] = TOMBSTONE
      /\ \A c \in 0 .. n - 1 : c # b => u.data[c] = t.data[c]
  BY <1>3, <1>4, <1>5 DEF IsTable, Elements
<1>7. IsTable(u, n)
  BY <1>3, <1>5, <1>6, FreeBuckets DEF IsTable
<1>8. Elements(u) = Elements(t) \ {b} /\ Elements(t) \subseteq 0 .. n - 1
  BY <1>6, FreeBuckets DEF Elements
<1>9. \A s, m : Probe(u, s, m) = Probe(t, s, m)
  <2>1. BucketCount(u) = BucketCount(t)
    BY <1>3, <1>7, CountOfBuckets
  <2>q. QED BY <2>1 DEF Probe
<1>10. ASSUME NEW s \in Nat, NEW m \in Nat, t.data[Probe(t, s, m)] # EMPTY
       PROVE  u.data[Probe(u, s, m)] # EMPTY
  <2>1. Probe(t, s, m) \in 0 .. n - 1
    <3>1. n \in Nat \ {0}
      BY <1>6, <1>3 DEF IsTable
    <3>q. QED BY <3>1, <1>3, CountOfBuckets, ProbeInTable DEF Probe
  <2>q. QED BY <1>6, <1>9, <1>10, <2>1, FreeBuckets
<1>11. Searchable(u)
  <2>1. SUFFICES ASSUME NEW c \in Elements(u)
                 PROVE  \E j \in 0 .. u.worst_miss : Reaches(u, Start(u.data[c].key), j, c)
    BY DEF Searchable
  <2>2. c \in Elements(t) /\ u.data[c] = t.data[c]
    BY <1>6, <1>8
  <2>3. PICK j \in 0 .. t.worst_miss : Reaches(t, Start(t.data[c].key), j, c)
    BY <1>3, <2>2 DEF Good, Searchable
  <2>4. PICK s \in Nat : s = Start(t.data[c].key)
    BY <1>3, <1>8, <2>2, BucketKinds, StartIsNumber DEF Elements, IsTable
  <2>5. \A m \in 0 .. j - 1 : m \in Nat /\ t.data[Probe(t, s, m)] # EMPTY
    BY <2>3, <2>4 DEF Reaches
  <2>6. \A m \in 0 .. j - 1 : u.data[Probe(u, s, m)] # EMPTY
    BY <1>10, <2>5
  <2>q. QED BY <1>5, <1>9, <2>2, <2>3, <2>4, <2>6 DEF Reaches
<1>12. Unique(u)
  BY <1>3, <1>6, <1>8 DEF Unique, Good
<1>13. Counted(u)
  <2>1. /\ IsFiniteSet(Elements(t))
        /\ Cardinality(Elements(t) \ {b}) = Cardinality(Elements(t)) - 1
    BY <1>3, <1>4, ElementsFinite, FS_RemoveElement
  <2>q. QED BY <1>3, <1>5, <1>8, <2>1 DEF Counted, Good
<1>14. Stored(u) = Stored(t) \ {k}
  <2>1. Stored(u) = {u.data[c].key : c \in Elements(u)}
    BY <1>7, StoredIsElements
  <2>2. Stored(t) = {t.data[c].key : c \in Elements(t)}
    BY <1>3, StoredIsElements
  <2>3. \A c \in Elements(u) : u.data[c] = t.data[c] /\ c \in Elements(t) /\ c # b
    BY <1>6, <1>8
  <2>4. \A c \in Elements(t) : t.data[c].key = k => c = b
    BY <1>3, <1>4 DEF Good, Unique
  <2>q. QED BY <1>4, <1>8, <2>1, <2>2, <2>3, <2>4
<1>15. Good(u, n)
  BY <1>7, <1>11, <1>12, <1>13 DEF Good
<1>16. Removed(t, u, k)
  BY <1>4, <1>6, <1>8, <1>14 DEF Removed
<1>q. QED BY <1>1, <1>2, <1>15, <1>16

-----------------------------------------------------------------------------
(* What lets a search stop early holds whatever is done to a table *)

TableInv == \E n \in 0 .. SizeMax : Good(This, n)

\* The table stays good, whatever is called, failures to grow included.
LEMMA TableInvStep ==
    ASSUME TableInv, [Next]_vars PROVE TableInv'
<1>1. PICK n \in 0 .. SizeMax : Good(This, n)
  BY DEF TableInv
<1>2. ASSUME NEW m \in 0 .. SizeMax, Good(This', m) PROVE TableInv'
  BY <1>2 DEF TableInv
<1>3. CASE UNCHANGED <<data, used_count, worst_miss>>
  <2>1. This' = This
    BY <1>3 DEF This
  <2>q. QED BY <1>1, <1>2, <2>1
<1>4. CASE UNCHANGED vars \/ InsertFails \/ Begin \/ Advance \/ End
  BY <1>3, <1>4 DEF vars, table, InsertFails, Begin, Advance, End
<1>5. ASSUME NEW k \in Keys, Remove(k) PROVE TableInv'
  BY <1>1, <1>2, <1>5, RemoveStep
<1>6. ASSUME NEW k \in Keys, NEW v \in Values, Insert(k, v) PROVE TableInv'
  BY <1>1, <1>2, <1>6, InsertStep
<1>7. ASSUME NEW k \in Keys, NEW v \in Values, GrowAndInsert(k, v) PROVE TableInv'
  BY <1>1, <1>2, <1>7, GrowStep
<1>8. ASSUME NEW min_count \in Reservations, Reserve(min_count) PROVE TableInv'
  <2>1. min_count \in Nat
    BY TableAssumption
  <2>q. QED BY <1>1, <1>2, <1>8, <2>1, ReserveStep
<1>9. CASE Fini
  BY <1>2, <1>9, FiniStep, SizesAreNumbers
<1>q. QED BY <1>4, <1>5, <1>6, <1>7, <1>8, <1>9 DEF Next

\* The table that autk_hash_table_init leaves.
LEMMA InitIsGood ==
    ASSUME Init PROVE Good(This, 0) /\ This = Zeroed(0)
<1>1. This = Zeroed(0)
  <2>1. data = [b \in 0 .. 0 - 1 |-> EMPTY]
    <3>1. 0 .. 0 - 1 = {}
      OBVIOUS
    <3>q. QED BY <3>1 DEF Init
  <2>q. QED BY <2>1 DEF Init, This, Zeroed
<1>q. QED BY <1>1, ZeroedIsGood

\* Every table the program can come to is good.
LEMMA TableInvHolds == Spec => []TableInv
<1>1. Init => TableInv
  BY InitIsGood, SizesAreNumbers DEF TableInv
<1>2. TableInv /\ [Next]_vars => TableInv'
  BY TableInvStep
<1>q. QED BY <1>1, <1>2, PTL DEF Spec

\* The buckets an iteration looks for are those of the elements.
LEMMA ElementsOfThis ==
    ASSUME NEW n, Good(This, n)
    PROVE  OccupiedFrom(0) = Elements(This) /\ \A b : This.data[b] = data[b]
BY DEF OccupiedFrom, Elements, This, Good, IsTable

\* An element lies no further from the start of its search than worst_miss, with no
\* empty bucket before it; no key is there twice; used_count is right: after any
\* calls of insert, remove, reserve and fini, however tombstones were reused.
THEOREM SearchesMayStop == Spec => []ProbeInv
<1>1. TableInv => ProbeInv
  <2>1. SUFFICES ASSUME NEW n \in 0 .. SizeMax, Good(This, n) PROVE ProbeInv
    BY DEF TableInv
  <2>2. OccupiedFrom(0) = Elements(This) /\ \A b : This.data[b] = data[b]
    BY <2>1, ElementsOfThis
  <2>3. This.worst_miss = worst_miss /\ This.used_count = used_count
    BY DEF This
  <2>4. \A b \in Elements(This) : Reachable(b)
    BY <2>1, <2>2, <2>3 DEF Good, Searchable, Reaches, Reachable, Start
  <2>q. QED BY <2>1, <2>2, <2>3, <2>4 DEF ProbeInv, Good, Unique, Counted
<1>q. QED BY <1>1, TableInvHolds, PTL

-----------------------------------------------------------------------------
(* As long as the buffer of a table with elements does not grow *)

\* The case in which autk_hash_table_reserve loses what the table holds.
Outgrows ==
    /\ used_count # 0
    /\ \/ \E k \in Keys, v \in Values : GrowAndInsert(k, v)
       \/ \E min_count \in Reservations : Reserve(min_count)

Steady ==
    iterating =>
        /\ steady \subseteq Stored(This)
        /\ \A b \in Elements(This) :
              This.data[b].key \in steady => (This.data[b].key \in visited <=> b <= iter)

KeptInv == TableInv /\ iter \in Nat /\ Steady /\ owned = Stored(This)

\* A count of zero means that nothing is stored.
LEMMA NoneUsed ==
    ASSUME NEW n, Good(This, n), used_count = 0
    PROVE  Elements(This) = {} /\ Stored(This) = {}
<1>1. Cardinality(Elements(This)) = 0 /\ IsTable(This, n)
  BY DEF Good, Counted, This
<1>2. IsFiniteSet(Elements(This))
  BY <1>1, ElementsFinite
<1>3. Elements(This) = {}
  BY <1>1, <1>2, FS_EmptySet
<1>q. QED BY <1>1, <1>3, StoredIsElements

\* An iteration survives an insertion: the element it stands on does not move.
LEMMA InsertKeeps ==
    ASSUME KeptInv, NEW k \in Keys, NEW v \in Values, Insert(k, v)
    PROVE  iter' \in Nat /\ Steady' /\ owned' = Stored(This')
<1>1. PICK n \in 0 .. SizeMax : Good(This, n)
  BY DEF KeptInv, TableInv
<1>2. PICK t : t = This
  OBVIOUS
<1>3. PICK u : u = This'
  OBVIOUS
<1>4. Inserted(t, u, k, v)
  BY <1>1, <1>2, <1>3, InsertStep
<1>5. /\ UNCHANGED <<iterating, iter, visited, steady>> /\ owned' = owned \cup {k}
      /\ iter \in Nat /\ Steady /\ owned = Stored(t)
  BY <1>2 DEF Insert, iteration, KeptInv
<1>6. Stored(u) = Stored(t) \cup {k}
  BY <1>4 DEF Inserted
<1>7. iterating => \A b \in Elements(u) :
          u.data[b].key \in steady => (u.data[b].key \in visited <=> b <= iter)
  <2>1. CASE u = t
    BY <1>2, <1>5, <2>1 DEF Steady
  <2>2. CASE u # t
    <3>1. PICK b : /\ k \notin Stored(t) /\ Elements(u) = Elements(t) \cup {b}
                   /\ u.data[b].key = k
                   /\ \A c \in Elements(t) : u.data[c] = t.data[c]
      BY <1>4, <2>2, OccupiedBuckets DEF Inserted
    <3>2. iterating => k \notin steady
      BY <1>2, <1>5, <3>1 DEF Steady
    <3>q. QED BY <1>2, <1>5, <3>1, <3>2 DEF Steady
  <2>q. QED BY <2>1, <2>2
<1>8. Steady'
  BY <1>2, <1>3, <1>5, <1>6, <1>7 DEF Steady
<1>q. QED BY <1>3, <1>5, <1>6, <1>8

\* A table that had no element may grow.
LEMMA FirstInsertKeeps ==
    ASSUME KeptInv, NEW k \in Keys, NEW v \in Values, GrowAndInsert(k, v), used_count = 0
    PROVE  iter' \in Nat /\ Steady' /\ owned' = Stored(This')
<1>1. PICK n \in 0 .. SizeMax : Good(This, n)
  BY DEF KeptInv, TableInv
<1>2. PICK m \in 1 .. SizeMax : Inserted(Zeroed(m), This', k, v)
  BY <1>1, GrowStep
<1>3. Stored(This') = {k}
  BY <1>2, ZeroedIsGood DEF Inserted
<1>4. /\ UNCHANGED <<iterating, iter, visited, steady>> /\ owned' = owned \cup {k}
      /\ iter \in Nat /\ Steady /\ owned = Stored(This)
  BY DEF GrowAndInsert, iteration, KeptInv
<1>5. Stored(This) = {}
  BY <1>1, NoneUsed
<1>6. iterating => steady = {}
  BY <1>4, <1>5 DEF Steady
<1>7. Steady'
  BY <1>4, <1>6 DEF Steady
<1>q. QED BY <1>3, <1>4, <1>5, <1>7

\* Nor does the buffer reserve sets up for an empty table lose anything.
LEMMA FirstReserveKeeps ==
    ASSUME KeptInv, NEW min_count \in Nat, Reserve(min_count), used_count = 0
    PROVE  iter' \in Nat /\ Steady' /\ owned' = Stored(This')
<1>1. PICK n \in 0 .. SizeMax : Good(This, n)
  BY DEF KeptInv, TableInv
<1>2. PICK m \in 1 .. SizeMax : This' = Zeroed(m)
  BY <1>1, ReserveStep
<1>3. Stored(This') = {}
  BY <1>2, ZeroedIsGood
<1>4. /\ UNCHANGED <<iterating, iter, visited, steady, owned>>
      /\ iter \in Nat /\ Steady /\ owned = Stored(This)
  BY DEF Reserve, iteration, KeptInv
<1>5. Stored(This) = {}
  BY <1>1, NoneUsed
<1>6. iterating => steady = {}
  BY <1>4, <1>5 DEF Steady
<1>7. Steady'
  BY <1>4, <1>6 DEF Steady
<1>q. QED BY <1>3, <1>4, <1>5, <1>7

\* An iteration survives a removal, that of its own element included.
LEMMA RemoveKeeps ==
    ASSUME KeptInv, NEW k \in Keys, Remove(k)
    PROVE  iter' \in Nat /\ Steady' /\ owned' = Stored(This')
<1>1. PICK n \in 0 .. SizeMax : Good(This, n)
  BY DEF KeptInv, TableInv
<1>2. PICK t : t = This
  OBVIOUS
<1>3. PICK u : u = This'
  OBVIOUS
<1>4. Removed(t, u, k)
  BY <1>1, <1>2, <1>3, RemoveStep
<1>5. /\ UNCHANGED <<iterating, iter, visited>>
      /\ owned' = owned \ {k} /\ steady' = steady \ {k}
      /\ iter \in Nat /\ Steady /\ owned = Stored(t)
  BY <1>2 DEF Remove, KeptInv
<1>6. /\ Stored(u) = Stored(t) \ {k}
      /\ \A c \in Elements(u) : c \in Elements(t) /\ u.data[c] = t.data[c]
  BY <1>4 DEF Removed
<1>7. Steady'
  BY <1>2, <1>3, <1>5, <1>6 DEF Steady
<1>q. QED BY <1>3, <1>5, <1>6, <1>7

\* The bucket an iteration goes to: the first element from b on.
LEMMA NextElement ==
    ASSUME NEW n, Good(This, n), NEW b \in Nat, OccupiedFrom(b) # {}
    PROVE  /\ Min(OccupiedFrom(b)) \in Elements(This) /\ Min(OccupiedFrom(b)) \in Nat
           /\ b <= Min(OccupiedFrom(b))
           /\ \A c \in Elements(This) : b <= c => Min(OccupiedFrom(b)) <= c
           /\ \A c \in Elements(This) : c \in Nat
<1>1. DOMAIN data = 0 .. n - 1 /\ n \in Nat
  BY DEF Good, IsTable, This
<1>2. OccupiedFrom(b) = {c \in Elements(This) : c >= b}
  BY DEF OccupiedFrom, Elements, This
<1>3. \A c \in Elements(This) : c \in Nat
  BY <1>1 DEF Elements, This
<1>4. OccupiedFrom(b) \in SUBSET Nat
  BY <1>2, <1>3
<1>5. PICK i : i = Min(OccupiedFrom(b)) /\ i \in OccupiedFrom(b)
               /\ \A c \in OccupiedFrom(b) : i <= c
  BY <1>4, MinIsLeast
<1>q. QED BY <1>2, <1>3, <1>5

\* An iteration begins at the first element.
LEMMA BeginKeeps ==
    ASSUME KeptInv, Begin
    PROVE  iter' \in Nat /\ Steady' /\ owned' = Stored(This')
<1>1. PICK n \in 0 .. SizeMax : Good(This, n)
  BY DEF KeptInv, TableInv
<1>2. PICK t : t = This
  OBVIOUS
<1>3. This' = This /\ owned' = owned /\ owned = Stored(This)
  BY DEF Begin, table, This, KeptInv
<1>4. OccupiedFrom(0) # {}
  <2>1. OccupiedFrom(0) = Elements(This) /\ IsTable(This, n)
    BY <1>1, ElementsOfThis DEF Good
  <2>2. Cardinality(Elements(This)) # 0
    BY <1>1 DEF Begin, Good, Counted, This
  <2>q. QED BY <2>1, <2>2, FS_EmptySet
<1>5. PICK i : i = Min(OccupiedFrom(0))
  OBVIOUS
<1>6. /\ i \in Elements(t) /\ i \in Nat
      /\ \A c \in Elements(t) : i <= c /\ c \in Nat
  BY <1>1, <1>2, <1>4, <1>5, NextElement
<1>7. iter' = i /\ visited' = {t.data[i].key} /\ steady' = Stored(t)
  <2>1. data[i] = t.data[i]
    BY <1>2 DEF This
  <2>q. QED BY <1>2, <1>5, <2>1 DEF Begin, Yield
<1>8. \A b \in Elements(t) : t.data[b].key \in visited' <=> b <= iter'
  <2>1. SUFFICES ASSUME NEW b \in Elements(t)
                 PROVE  t.data[b].key = t.data[i].key <=> b <= i
    BY <1>7
  <2>2. t.data[b].key = t.data[i].key => b = i
    BY <1>1, <1>2, <1>6 DEF Good, Unique
  <2>3. b <= i => b = i
    BY <1>6
  <2>q. QED BY <1>6, <2>2, <2>3
<1>9. Steady'
  BY <1>2, <1>3, <1>7, <1>8 DEF Steady
<1>q. QED BY <1>3, <1>6, <1>7, <1>9

\* It goes on with the next one, and has then seen all before it.
LEMMA AdvanceKeeps ==
    ASSUME KeptInv, Advance
    PROVE  iter' \in Nat /\ Steady' /\ owned' = Stored(This')
<1>1. PICK n \in 0 .. SizeMax : Good(This, n)
  BY DEF KeptInv, TableInv
<1>2. PICK t : t = This
  OBVIOUS
<1>3. /\ This' = This /\ owned' = owned /\ owned = Stored(This)
      /\ iterating /\ steady' = steady /\ iter \in Nat /\ Steady
      /\ OccupiedFrom(iter + 1) # {}
  BY DEF Advance, table, This, KeptInv
<1>4. PICK i : i = Min(OccupiedFrom(iter + 1))
  OBVIOUS
<1>5. /\ i \in Elements(t) /\ i \in Nat /\ iter + 1 <= i
      /\ \A c \in Elements(t) : c \in Nat /\ (iter + 1 <= c => i <= c)
  <2>1. PICK b \in Nat : b = iter + 1
    BY <1>3
  <2>q. QED BY <1>1, <1>2, <1>3, <1>4, <2>1, NextElement
<1>6. iter' = i /\ visited' = visited \cup {t.data[i].key}
  <2>1. data[i] = t.data[i]
    BY <1>2 DEF This
  <2>q. QED BY <1>4, <2>1 DEF Advance, Yield
<1>7. ASSUME NEW b \in Elements(t), t.data[b].key \in steady
      PROVE  t.data[b].key \in visited' <=> b <= iter'
  <2>1. t.data[b].key \in visited <=> b <= iter
    BY <1>2, <1>3, <1>7 DEF Steady
  <2>2. t.data[b].key = t.data[i].key <=> b = i
    BY <1>1, <1>2, <1>5 DEF Good, Unique
  <2>3. b <= i <=> (b <= iter \/ b = i)
    BY <1>3, <1>5
  <2>q. QED BY <1>6, <2>1, <2>2, <2>3
<1>8. Steady'
  BY <1>2, <1>3, <1>7 DEF Steady
<1>q. QED BY <1>3, <1>5, <1>6, <1>8

\* What an iteration and the history say of the table, step by step.
LEMMA KeptInvStep ==
    ASSUME KeptInv, [Next]_vars, [~Outgrows]_vars
    PROVE  KeptInv'
<1> DEFINE Kept == iter' \in Nat /\ Steady' /\ owned' = Stored(This')
<1>1. TableInv'
  BY TableInvStep DEF KeptInv
<1>2. SUFFICES Kept
  BY <1>1 DEF KeptInv
<1>3. CASE UNCHANGED vars
  BY <1>3 DEF vars, table, iteration, KeptInv, Steady, This
<1>4. CASE Next /\ ~Outgrows
  <2>1. ASSUME NEW k \in Keys, Remove(k) PROVE Kept
    BY <2>1, RemoveKeeps
  <2>2. ASSUME NEW k \in Keys, NEW v \in Values, Insert(k, v) PROVE Kept
    BY <2>2, InsertKeeps
  <2>3. ASSUME NEW k \in Keys, NEW v \in Values, GrowAndInsert(k, v) PROVE Kept
    BY <1>4, <2>3, FirstInsertKeeps DEF Outgrows
  <2>4. ASSUME NEW min_count \in Reservations, Reserve(min_count) PROVE Kept
    <3>1. used_count = 0 /\ min_count \in Nat
      BY <1>4, <2>4, TableAssumption DEF Outgrows
    <3>q. QED BY <2>4, <3>1, FirstReserveKeeps
  <2>5. CASE InsertFails
    BY <1>3, <2>5 DEF InsertFails
  <2>6. CASE Fini
    <3>1. This' = Zeroed(0)
      BY <2>6, FiniStep
    <3>q. QED BY <2>6, <3>1, ZeroedIsGood DEF Fini, iteration, KeptInv, Steady
  <2>7. CASE Begin
    BY <2>7, BeginKeeps
  <2>8. CASE Advance
    BY <2>8, AdvanceKeeps
  <2>9. CASE End
    <3>1. This' = This
      BY <2>9 DEF End, table, This
    <3>q. QED BY <2>9, <3>1 DEF End, KeptInv, Steady
  <2>q. QED BY <1>4, <2>1, <2>2, <2>3, <2>4, <2>5, <2>6, <2>7, <2>8, <2>9 DEF Next
<1>q. QED BY <1>3, <1>4

\* They say it as long as no table with elements grows.
LEMMA KeptInvHolds == Spec /\ [][~Outgrows]_vars => []KeptInv
<1>1. Init => KeptInv
  <2>1. SUFFICES ASSUME Init PROVE KeptInv
    OBVIOUS
  <2>2. Good(This, 0) /\ Stored(This) = {}
    BY <2>1, InitIsGood, ZeroedIsGood
  <2>q. QED BY <2>1, <2>2, SizesAreNumbers DEF Init, KeptInv, TableInv, Steady
<1>2. KeptInv /\ [Next]_vars /\ [~Outgrows]_vars => KeptInv'
  BY KeptInvStep
<1>q. QED BY <1>1, <1>2, PTL DEF Spec

\* While callbacks insert and remove, an iteration yields every element that stays,
\* and none twice (autk_hash_table_begin and _next, as redraw_dirty_windows calls
\* them), as long as the buffer does not grow under it.
THEOREM IterationsSound == Spec /\ [][~Outgrows]_vars => []IterationSound
<1>1. KeptInv => IterationSound
  <2>1. SUFFICES ASSUME KeptInv, NEW n \in 0 .. SizeMax, Good(This, n) PROVE IterationSound
    BY DEF KeptInv, TableInv
  <2>2. OccupiedFrom(0) = Elements(This) /\ \A b : This.data[b] = data[b]
    BY <2>1, ElementsOfThis
  <2>q. QED BY <2>1, <2>2 DEF IterationSound, KeptInv, Steady
<1>q. QED BY <1>1, KeptInvHolds, PTL

-----------------------------------------------------------------------------
(* find and do_insert agree on where to begin, if no hash has the top bit *)

NoTopBit == \A k \in Keys : Hash[k] < OccupiedBit

\* With hashes that leave the top bit alone, get finds what is stored and nothing else.
LEMMA FoundIsStored ==
    ASSUME NoTopBit, NEW t, NEW n, Good(t, n), NEW k \in Keys
    PROVE  Found(t, k) <=> k \in Stored(t)
<1>1. IsTable(t, n)
  BY DEF Good
<1>2. ASSUME Found(t, k) PROVE k \in Stored(t)
  BY <1>1, <1>2, FoundBucket, StoredIsElements
<1>3. ASSUME k \in Stored(t) PROVE Found(t, k)
  <2>1. PICK b \in Elements(t) : t.data[b].key = k
    BY <1>1, <1>3, StoredIsElements
  <2>2. PICK i \in 0 .. t.worst_miss : Reaches(t, Start(k), i, b)
    BY <2>1 DEF Good, Searchable
  <2>3. Start(k) = Hash[k]
    <3>1. Hash[k] \in 0 .. OccupiedBit - 1 /\ OccupiedBit \in Nat \ {0}
      BY TableAssumption DEF NoTopBit
    <3>2. Hash[k] = OccupiedBit * 0 + Hash[k]
      BY <3>1
    <3>q. QED BY <3>1, <3>2, ModUnique DEF Start
  <2>4. Holds(t.data[b], k)
    <3>1. t.data[b] \in Bucket /\ IsOccupied(t.data[b])
      BY <1>1 DEF IsTable, Elements
    <3>q. QED BY <2>1, <3>1, BucketKinds DEF Holds, Start
  <2>5. i \in Hits(t, k)
    BY <2>2, <2>3, <2>4 DEF Reaches, Hits
  <2>6. t.used_count # 0
    BY <1>1, <2>1, ElementsFinite, FS_EmptySet DEF Good, Counted
  <2>q. QED BY <2>5, <2>6 DEF Found
<1>q. QED BY <1>2, <1>3

\* autk_hash_table_find finds exactly the keys that were put in and not taken out,
\* after any calls, failed ones among them.
THEOREM ElementsKept ==
    ASSUME NoTopBit PROVE Spec /\ [][~Outgrows]_vars => []NothingLost
<1>1. KeptInv => NothingLost
  <2>1. SUFFICES ASSUME KeptInv, NEW n \in 0 .. SizeMax, Good(This, n) PROVE NothingLost
    BY DEF KeptInv, TableInv
  <2>2. {k \in Keys : Found(This, k)} = {k \in Keys : k \in Stored(This)}
    BY <2>1, FoundIsStored
  <2>3. Stored(This) \subseteq Keys /\ owned = Stored(This)
    BY <2>1, StoredIsElements DEF Good, KeptInv
  <2>q. QED BY <2>2, <2>3 DEF NothingLost
<1>q. QED BY <1>1, KeptInvHolds, PTL

-----------------------------------------------------------------------------
(* The table is the map of KeyedSet *)

Contents(t) == [k \in {x \in Keys : Found(t, x)} |-> t.data[IndexOf(t, k)].val]

\* The map a good table stands for.
LEMMA ContentsAre ==
    ASSUME NoTopBit, NEW t, NEW n, Good(t, n)
    PROVE  /\ DOMAIN Contents(t) = Stored(t)
           /\ \A b \in Elements(t) : Contents(t)[t.data[b].key] = t.data[b].val
<1>1. IsTable(t, n)
  BY DEF Good
<1>2. {x \in Keys : Found(t, x)} = Stored(t)
  BY <1>1, FoundIsStored, StoredIsElements
<1>3. ASSUME NEW b \in Elements(t) PROVE Contents(t)[t.data[b].key] = t.data[b].val
  <2>1. PICK k : k = t.data[b].key
    OBVIOUS
  <2>2. k \in Stored(t) /\ k \in Keys /\ Found(t, k)
    BY <1>1, <1>2, <2>1, StoredIsElements
  <2>3. IndexOf(t, k) \in Elements(t) /\ t.data[IndexOf(t, k)].key = k
    BY <2>2, FoundBucket
  <2>4. IndexOf(t, k) = b
    BY <2>1, <2>3 DEF Good, Unique
  <2>q. QED BY <1>2, <2>1, <2>2, <2>4 DEF Contents
<1>q. QED BY <1>2, <1>3 DEF Contents

\* An insertion adds the key, or finds it there and changes nothing.
LEMMA InsertedContents ==
    ASSUME NoTopBit, NEW t, NEW n, Good(t, n), NEW u, NEW m, Good(u, m),
           NEW k \in Keys, NEW v \in Values, Inserted(t, u, k, v)
    PROVE  \/ Contents(u) = Contents(t)
           \/ /\ k \notin DOMAIN Contents(t)
              /\ Contents(u) = [x \in DOMAIN Contents(t) \cup {k} |->
                                    IF x = k THEN v ELSE Contents(t)[x]]
<1>1. SUFFICES ASSUME ~(u = t)
               PROVE  /\ k \notin DOMAIN Contents(t)
                      /\ Contents(u) = [x \in DOMAIN Contents(t) \cup {k} |->
                                            IF x = k THEN v ELSE Contents(t)[x]]
  OBVIOUS
<1>2. PICK b : /\ k \notin Stored(t) /\ Stored(u) = Stored(t) \cup {k}
               /\ \A c \in Elements(t) : u.data[c] = t.data[c]
               /\ Elements(u) = Elements(t) \cup {b}
               /\ u.data[b] = Occupied(k, v)
  BY <1>1 DEF Inserted
<1>3. /\ DOMAIN Contents(t) = Stored(t) /\ DOMAIN Contents(u) = Stored(u)
      /\ \A c \in Elements(t) : Contents(t)[t.data[c].key] = t.data[c].val
      /\ \A c \in Elements(u) : Contents(u)[u.data[c].key] = u.data[c].val
  BY ContentsAre
<1>4. Contents(u)[k] = v
  BY <1>2, <1>3, OccupiedBuckets
<1>5. ASSUME NEW x \in Stored(t) PROVE Contents(u)[x] = Contents(t)[x] /\ x # k
  <2>1. PICK c \in Elements(t) : t.data[c].key = x
    BY StoredIsElements DEF Good
  <2>q. QED BY <1>2, <1>3, <2>1
<1>6. Contents(u) = [x \in Stored(t) \cup {k} |-> Contents(u)[x]]
  BY <1>2, <1>3 DEF Contents
<1>7. Contents(u) = [x \in Stored(t) \cup {k} |-> IF x = k THEN v ELSE Contents(t)[x]]
  BY <1>4, <1>5, <1>6
<1>q. QED BY <1>2, <1>3, <1>7

Without(f, k) == [x \in DOMAIN f \ {k} |-> f[x]]

\* A removal takes the key out of the map.
LEMMA RemovedContents ==
    ASSUME NoTopBit, NEW t, NEW n, Good(t, n), NEW u, NEW m, Good(u, m),
           NEW k \in Keys, Removed(t, u, k)
    PROVE  /\ k \in DOMAIN Contents(t)
           /\ Contents(u) = Without(Contents(t), k)
<1>1. /\ Stored(u) = Stored(t) \ {k} /\ k \in Stored(t)
      /\ \A c \in Elements(u) : c \in Elements(t) /\ u.data[c] = t.data[c]
  <2>1. PICK b \in Elements(t) : t.data[b].key = k
    BY DEF Removed
  <2>2. k \in Stored(t)
    BY <2>1, StoredIsElements DEF Good
  <2>q. QED BY <2>2 DEF Removed
<1>2. /\ DOMAIN Contents(t) = Stored(t) /\ DOMAIN Contents(u) = Stored(u)
      /\ \A c \in Elements(t) : Contents(t)[t.data[c].key] = t.data[c].val
      /\ \A c \in Elements(u) : Contents(u)[u.data[c].key] = u.data[c].val
  BY ContentsAre
<1>3. ASSUME NEW x \in Stored(u) PROVE Contents(u)[x] = Contents(t)[x]
  <2>1. PICK c \in Elements(u) : u.data[c].key = x
    BY StoredIsElements DEF Good
  <2>q. QED BY <1>1, <1>2, <2>1
<1>4. Contents(u) = [x \in Stored(t) \ {k} |-> Contents(u)[x]]
  BY <1>1, <1>2 DEF Contents
<1>5. Contents(u) = [x \in Stored(t) \ {k} |-> Contents(t)[x]]
  BY <1>1, <1>3, <1>4
<1>q. QED BY <1>1, <1>2, <1>5 DEF Without

\* A table without elements is the empty map.
LEMMA ZeroedContents ==
    ASSUME NoTopBit, NEW t, NEW n, Good(t, n), Stored(t) = {}
    PROVE  Contents(t) = [k \in {} |-> {}]
<1>1. DOMAIN Contents(t) = {}
  BY ContentsAre
<1>q. QED BY <1>1 DEF Contents

\* What hash.c is mapped to.
Mapped == [k \in {x \in Keys : Found(This, x)} |-> data[IndexOf(This, k)].val]

\* The refinement mapping, by name.
LEMMA MappedIsContents == Mapped = Contents(This) /\ Mapped' = Contents(This')
<1>1. Mapped = Contents(This)
  BY DEF Mapped, Contents, This
<1>2. (Mapped = Contents(This))'
  BY <1>1, PTL
<1>q. QED BY <1>1, <1>2

MapStep ==
    \/ Mapped' = Mapped
    \/ Mapped' = [k \in {} |-> {}]
    \/ \E k \in Keys :
          /\ k \in DOMAIN Mapped
          /\ Mapped' = [x \in DOMAIN Mapped \ {k} |-> Mapped[x]]
    \/ \E k \in Keys : \E v \in Values :
          /\ k \notin DOMAIN Mapped
          /\ Mapped' = [x \in DOMAIN Mapped \cup {k} |-> IF x = k THEN v ELSE Mapped[x]]

\* Every step of the table is a step of the map, or none.
LEMMA StepsMap ==
    ASSUME NoTopBit, KeptInv, [Next]_vars, [~Outgrows]_vars
    PROVE  MapStep
<1>1. PICK n \in 0 .. SizeMax : Good(This, n)
  BY DEF KeptInv, TableInv
<1>2. Mapped = Contents(This) /\ Mapped' = Contents(This')
  BY MappedIsContents
<1>3. CASE UNCHANGED <<data, used_count, worst_miss>>
  <2>1. This' = This
    BY <1>3 DEF This
  <2>q. QED BY <1>2, <2>1 DEF MapStep
<1>4. CASE UNCHANGED vars \/ InsertFails \/ Begin \/ Advance \/ End
  BY <1>3, <1>4 DEF vars, table, InsertFails, Begin, Advance, End
<1>5. ASSUME NEW k \in Keys, Remove(k) PROVE MapStep
  <2>1. Good(This', n) /\ Removed(This, This', k)
    BY <1>1, <1>5, RemoveStep
  <2>2. /\ k \in DOMAIN Contents(This)
        /\ Contents(This') = Without(Contents(This), k)
    <3>1. PICK t, u : t = This /\ u = This'
      OBVIOUS
    <3>2. Good(t, n) /\ Good(u, n) /\ Removed(t, u, k)
      BY <1>1, <2>1, <3>1
    <3>3. /\ k \in DOMAIN Contents(t)
          /\ Contents(u) = Without(Contents(t), k)
      BY <3>2, RemovedContents
    <3>q. QED BY <3>1, <3>3
  <2>q. QED BY <1>2, <2>2 DEF MapStep, Without
<1>6. ASSUME NEW k \in Keys, NEW v \in Values, NEW m, Good(This', m), NEW t, NEW i, Good(t, i),
             Contents(t) = Contents(This), Inserted(t, This', k, v)
      PROVE  MapStep
  <2>1. \/ Contents(This') = Contents(t)
        \/ /\ k \notin DOMAIN Contents(t)
           /\ Contents(This') = [x \in DOMAIN Contents(t) \cup {k} |->
                                    IF x = k THEN v ELSE Contents(t)[x]]
    BY <1>6, InsertedContents
  <2>2. CASE Contents(This') = Contents(t)
    BY <1>2, <1>6, <2>2 DEF MapStep
  <2>3. CASE Contents(This') # Contents(t)
    <3>1. /\ k \notin DOMAIN Mapped
          /\ Mapped' = [x \in DOMAIN Mapped \cup {k} |-> IF x = k THEN v ELSE Mapped[x]]
      BY <1>2, <1>6, <2>1, <2>3
    <3>q. QED BY <3>1 DEF MapStep
  <2>q. QED BY <2>2, <2>3
<1>7. ASSUME NEW k \in Keys, NEW v \in Values, Insert(k, v) PROVE MapStep
  BY <1>1, <1>6, <1>7, InsertStep
<1>8. used_count = 0 => Contents(This) = [k \in {} |-> {}]
  BY <1>1, NoneUsed, ZeroedContents
<1>9. ASSUME NEW k \in Keys, NEW v \in Values, GrowAndInsert(k, v), ~Outgrows PROVE MapStep
  <2>1. used_count = 0
    BY <1>9 DEF Outgrows
  <2>2. PICK m \in 1 .. SizeMax : Good(This', m) /\ Inserted(Zeroed(m), This', k, v)
    BY <1>1, <1>9, GrowStep
  <2>3. Good(Zeroed(m), m) /\ Contents(Zeroed(m)) = [x \in {} |-> {}]
    BY ZeroedIsGood, ZeroedContents
  <2>q. QED BY <1>6, <1>8, <2>1, <2>2, <2>3
<1>10. ASSUME NEW min_count \in Reservations, Reserve(min_count) PROVE MapStep
  <2>1. min_count \in Nat
    BY TableAssumption
  <2>2. PICK m \in 1 .. SizeMax : Good(This', m) /\ This' = Zeroed(m)
    BY <1>1, <1>10, <2>1, ReserveStep
  <2>3. Contents(This') = [x \in {} |-> {}]
    BY <2>2, ZeroedIsGood, ZeroedContents
  <2>q. QED BY <1>2, <2>3 DEF MapStep
<1>11. CASE Fini
  <2>1. Good(This', 0) /\ This' = Zeroed(0)
    BY <1>11, FiniStep
  <2>2. Contents(This') = [x \in {} |-> {}]
    BY <2>1, ZeroedIsGood, ZeroedContents
  <2>q. QED BY <1>2, <2>2 DEF MapStep
<1>12. CASE Next /\ ~Outgrows
  BY <1>4, <1>5, <1>7, <1>9, <1>10, <1>11, <1>12 DEF Next
<1>q. QED BY <1>4, <1>12

\* hash.c implements the map that hash.h promises: what autk_hash_table_find returns
\* changes only as insertions of new keys, removals and the end of the table change
\* a map.
THEOREM ImplementsMap ==
    ASSUME NoTopBit PROVE Spec /\ [][~Outgrows]_vars => MapSpec
<1>1. Init => Map!Init
  <2>1. SUFFICES ASSUME Init PROVE Mapped = [k \in {} |-> {}]
    BY DEF Map!Init, Mapped
  <2>2. Good(This, 0) /\ Stored(This) = {}
    BY <2>1, InitIsGood, ZeroedIsGood
  <2>q. QED BY <2>2, ZeroedContents, MappedIsContents
<1>2. KeptInv /\ [Next]_vars /\ [~Outgrows]_vars => [Map!Next]_Mapped
  <2>1. SUFFICES ASSUME MapStep PROVE [Map!Next]_Mapped
    BY StepsMap
  <2>2. CASE Mapped' = Mapped
    BY <2>2
  <2>3. CASE Mapped' = [k \in {} |-> {}]
    BY <2>3 DEF Map!Next, Map!Clear, Mapped
  <2>4. CASE \E k \in Keys : /\ k \in DOMAIN Mapped
                             /\ Mapped' = [x \in DOMAIN Mapped \ {k} |-> Mapped[x]]
    BY <2>4 DEF Map!Next, Map!Remove, Mapped
  <2>5. CASE \E k \in Keys : \E v \in Values :
                /\ k \notin DOMAIN Mapped
                /\ Mapped' = [x \in DOMAIN Mapped \cup {k} |->
                                 IF x = k THEN v ELSE Mapped[x]]
    BY <2>5 DEF Map!Next, Map!Insert, Mapped
  <2>q. QED BY <2>1, <2>2, <2>3, <2>4, <2>5 DEF MapStep
<1>3. Spec /\ [][~Outgrows]_vars => Map!Init /\ [][Map!Next]_Mapped
  BY <1>1, <1>2, KeptInvHolds, PTL DEF Spec
<1>q. QED BY <1>3, PTL DEF MapSpec, Map!Spec, Mapped

-----------------------------------------------------------------------------
(* Types *)

HistoryTypes ==
    /\ iterating \in BOOLEAN /\ iter \in Nat
    /\ visited \subseteq Keys /\ steady \subseteq Keys /\ owned \subseteq Keys

\* The counts and the history stay within their types.
LEMMA HistoryTypesStep ==
    ASSUME TableInv, HistoryTypes, [Next]_vars PROVE HistoryTypes'
<1>1. PICK n \in 0 .. SizeMax : Good(This, n)
  BY DEF TableInv
<1>2. Stored(This) \subseteq Keys /\ \A b \in Elements(This) : data[b].key \in Keys
  <2>1. IsTable(This, n) /\ \A b : This.data[b] = data[b]
    BY <1>1, ElementsOfThis DEF Good
  <2>q. QED BY <2>1, StoredIsElements
<1>3. ASSUME NEW b \in Nat, NEW seen \in SUBSET Keys, OccupiedFrom(b) # {},
             Yield(Min(OccupiedFrom(b)), seen)
      PROVE  iterating' \in BOOLEAN /\ iter' \in Nat /\ visited' \subseteq Keys
  <2>1. Min(OccupiedFrom(b)) \in Elements(This) /\ Min(OccupiedFrom(b)) \in Nat
    BY <1>1, <1>3, NextElement
  <2>q. QED BY <1>2, <1>3, <2>1 DEF Yield
<1>4. CASE UNCHANGED vars \/ InsertFails \/ End \/ Fini
  <2>1. CASE UNCHANGED iteration /\ (owned' = owned \/ owned' = {})
    BY <2>1 DEF iteration, HistoryTypes
  <2>2. CASE End
    <3>1. iterating' \in BOOLEAN
      BY <2>2 DEF End
    <3>2. iter' \in Nat /\ visited' = {} /\ steady' = {} /\ owned' = owned
      BY <2>2 DEF End
    <3>q. QED BY <3>1, <3>2 DEF HistoryTypes
  <2>q. QED BY <1>4, <2>1, <2>2 DEF vars, InsertFails, Fini
<1>5. ASSUME NEW k \in Keys,
             \/ Remove(k)
             \/ \E v \in Values : Insert(k, v) \/ GrowAndInsert(k, v)
      PROVE  HistoryTypes'
  BY <1>5 DEF Remove, Insert, GrowAndInsert, iteration, HistoryTypes
<1>6. ASSUME NEW min_count \in Reservations, Reserve(min_count)
      PROVE  HistoryTypes'
  BY <1>6 DEF Reserve, iteration, HistoryTypes
<1>7. CASE Begin
  <2>1. OccupiedFrom(0) # {}
    <3>1. OccupiedFrom(0) = Elements(This) /\ Cardinality(Elements(This)) # 0
      BY <1>1, <1>7, ElementsOfThis DEF Begin, Good, Counted, This
    <3>q. QED BY <3>1, FS_EmptySet
  <2>2. {} \in SUBSET Keys /\ 0 \in Nat
    OBVIOUS
  <2>3. Yield(Min(OccupiedFrom(0)), {}) /\ steady' = Stored(This) /\ owned' = owned
    BY <1>7 DEF Begin
  <2>q. QED BY <1>2, <1>3, <2>1, <2>2, <2>3 DEF HistoryTypes
<1>8. CASE Advance
  <2>1. PICK b \in Nat : b = iter + 1
    BY DEF HistoryTypes
  <2>2. /\ OccupiedFrom(b) # {} /\ Yield(Min(OccupiedFrom(b)), visited)
        /\ steady' = steady /\ owned' = owned
    BY <1>8, <2>1 DEF Advance
  <2>q. QED BY <1>3, <2>2 DEF HistoryTypes
<1>q. QED BY <1>4, <1>5, <1>6, <1>7, <1>8 DEF Next

\* Types, with the bounds that keep the search loops of hash.c from running on:
\* no more buckets than a size can count, no more elements than buckets, and a
\* worst_miss within the table.
THEOREM TypesAndBounds == Spec => []TypeOK
<1>1. Init => HistoryTypes
  <2>1. Init => iterating \in BOOLEAN
    BY DEF Init
  <2>2. Init => iter \in Nat /\ visited = {} /\ steady = {} /\ owned = {}
    BY DEF Init
  <2>q. QED BY <2>1, <2>2 DEF HistoryTypes
<1>2. TableInv /\ HistoryTypes /\ [Next]_vars => HistoryTypes'
  BY HistoryTypesStep
<1>3. TableInv /\ HistoryTypes => TypeOK
  <2>1. SUFFICES ASSUME HistoryTypes, NEW n \in 0 .. SizeMax, Good(This, n) PROVE TypeOK
    BY DEF TableInv
  <2>2. IsTable(This, n) /\ Counted(This)
    BY <2>1 DEF Good
  <2>3. BucketCount(This) = n /\ Cardinality(Elements(This)) \in 0 .. n
    BY <2>2, CountOfBuckets, ElementsFinite
  <2>4. This.data = data /\ This.used_count = used_count /\ This.worst_miss = worst_miss
    BY DEF This
  <2>q. QED BY <2>1, <2>2, <2>3, <2>4 DEF TypeOK, HistoryTypes, IsTable, Counted
<1>q. QED BY <1>1, <1>2, <1>3, TableInvHolds, PTL DEF Spec
=============================================================================
