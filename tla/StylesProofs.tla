---------------------------- MODULE StylesProofs ----------------------------
(***************************************************************************)
(* Theorems about Styles, for any number of clients, threads, classes and  *)
(* queries.  Styles has no next-state relation of its own: StyleStep is    *)
(* whatever a client, the application or a thread may do with styles, in   *)
(* any order, and ClientLifeProofs shows that ClientLife does nothing else.*)
(***************************************************************************)
EXTENDS Styles, NumberLemmas, FiniteSetTheorems, FunctionTheorems

\* The types, before it is known that what is listed is allocated.
StyleTypes ==
    /\ fallback \in [Clients -> Seq(StyleObjects)]
    /\ capacity \in [Clients -> 0 .. Wrap - 1] /\ room \in [Clients -> Nat]
    /\ allocated \subseteq StyleObjects /\ class_data \subseteq StyleObjects
    /\ class_of \in [StyleObjects -> Classes] /\ ref_count \in [StyleObjects -> Int]
    /\ holds \in [Holders -> StyleObjects \cup {NoStyle}]
    /\ last \in [Holders -> StyleObjects \cup {NoStyle}]

\* A thread that is about to free a style has no other: autk_style_release is one
\* call, and it comes back when the style is freed.
OneAtATime == \A t \in Holders : holds[t] = NoStyle \/ last[t] = NoStyle

\* RefsCounted of one style.
RefsOf(s) ==
    /\ ref_count[s] = Cardinality(Lenders(s))
    /\ s \in allocated <=> (Lenders(s) # {} \/ \E t \in Holders : last[t] = s)
    /\ \A t \in Holders : last[t] = s =>
          Lenders(s) = {} /\ \A u \in Holders \ {t} : last[u] # s

\* The inductive invariant.
StylesInv ==
    /\ StyleTypes /\ OneAtATime
    /\ \A s \in StyleObjects : RefsOf(s)
    /\ ClassDataLives /\ FallbacksNeeded /\ ListHasRoom

StyleStep ==
    \/ \E c \in Clients, q \in Queries, k \in Classes :
          \/ AddFallback(c, q, k)
          \/ \E step \in {"style list", "style"} : AddFallbackFails(c, q, k, step)
    \/ \E c \in Clients : ReleaseList(c)
    \/ \E t \in Holders, k \in Classes : CreateStyle(t, k)
    \/ HolderStep

-----------------------------------------------------------------------------
(* Lists and references *)

\* Whatever list or thread a style is in, there are finitely many of them.
LEMMA LendersFinite ==
    ASSUME NEW s
    PROVE  /\ IsFiniteSet(Lenders(s)) /\ IsFiniteSet(Lenders(s)')
           /\ Cardinality(Lenders(s)) \in Nat /\ Cardinality(Lenders(s)') \in Nat
<1>1. IsFiniteSet(Clients \cup Holders)
  BY StyleAssumption, FS_Union
<1>2. /\ Lenders(s) \in SUBSET (Clients \cup Holders)
      /\ Lenders(s)' \in SUBSET (Clients \cup Holders)
  BY DEF Lenders
<1>3. QED BY <1>1, <1>2, FS_Subset, FS_CardinalityType

\* The elements of a list with one more at its end.
LEMMA ElementsOfAppend ==
    ASSUME NEW S, NEW q \in Seq(S), NEW x \in S
    PROVE  {Append(q, x)[i] : i \in DOMAIN Append(q, x)} = {q[i] : i \in DOMAIN q} \cup {x}
<1>1. /\ Len(q) \in Nat /\ DOMAIN q = 1 .. Len(q)
      /\ DOMAIN Append(q, x) = 1 .. Len(q) + 1
      /\ Append(q, x)[Len(q) + 1] = x
      /\ \A i \in 1 .. Len(q) : Append(q, x)[i] = q[i]
  OBVIOUS
<1>2. 1 .. Len(q) + 1 = (1 .. Len(q)) \cup {Len(q) + 1}
  BY <1>1
<1>3. QED BY <1>1, <1>2

\* A style that a step does not concern.
LEMMA RefsUntouched ==
    ASSUME NEW s, RefsOf(s), Lenders(s)' = Lenders(s), ref_count'[s] = ref_count[s],
           s \in allocated' <=> s \in allocated,
           \A t \in Holders : last'[t] = s <=> last[t] = s
    PROVE  RefsOf(s)'
<1>1. Cardinality(Lenders(s)') = Cardinality(Lenders(s))
  OBVIOUS
<1>2. QED BY <1>1 DEF RefsOf

\* Whoever lists a style or is about to release it knows that it is allocated.
LEMMA ListedAllocated ==
    ASSUME StylesInv, NEW c \in Clients, NEW s \in Listed(c)
    PROVE  s \in StyleObjects /\ s \in allocated /\ c \in Lenders(s)
<1>1. s \in StyleObjects
  <2>1. fallback[c] \in Seq(StyleObjects)
    BY DEF StylesInv, StyleTypes
  <2>2. QED BY <2>1 DEF Listed
<1>2. c \in Lenders(s)
  BY DEF Lenders
<1>3. QED BY <1>1, <1>2 DEF StylesInv, RefsOf

\* Fresh is a style object that is not in use: nobody refers to it.
LEMMA FreshIsUnused ==
    ASSUME StylesInv, StyleObjects \ allocated # {}
    PROVE  /\ Fresh \in StyleObjects /\ Fresh \notin allocated
           /\ Lenders(Fresh) = {} /\ \A t \in Holders : last[t] # Fresh
           /\ \A c \in Clients : Fresh \notin Listed(c)
<1>1. StyleObjects \ allocated \in SUBSET Nat
  BY StyleAssumption
<1>2. Fresh \in StyleObjects \ allocated
  BY <1>1, MinIsLeast DEF Fresh
<1>3. QED BY <1>2, ListedAllocated DEF StylesInv, RefsOf

-----------------------------------------------------------------------------
(* The length of a list *)

\* Each style of a list answers a query that none before it does, so there are no
\* more of them than queries.
LEMMA ListsShort ==
    ASSUME StylesInv, NEW c \in Clients
    PROVE  /\ Len(fallback[c]) \in Nat /\ Cardinality(Queries) \in Nat
           /\ Len(fallback[c]) <= Cardinality(Queries)
<1> DEFINE n == Len(fallback[c])
           First(j, q) == /\ Provides(class_of[fallback[c][j]], q)
                          /\ \A i \in 1 .. j - 1 : ~Provides(class_of[fallback[c][i]], q)
           f == [j \in 1 .. n |-> CHOOSE q \in Queries : First(j, q)]
<1>1. n \in Nat /\ DOMAIN fallback[c] = 1 .. n
  BY DEF StylesInv, StyleTypes
<1>2. \A j \in 1 .. n : \E q \in Queries : First(j, q)
  BY <1>1 DEF StylesInv, FallbacksNeeded
<1>3. \A j \in 1 .. n : f[j] \in Queries /\ First(j, f[j])
  <2> HIDE DEF First
  <2>1. QED BY <1>2
<1>4. \A i, j \in 1 .. n : i < j => f[i] # f[j]
  <2> SUFFICES ASSUME NEW i \in 1 .. n, NEW j \in 1 .. n, i < j, f[i] = f[j] PROVE FALSE
    OBVIOUS
  <2>1. i \in 1 .. j - 1
    BY <1>1
  <2> HIDE DEF f
  <2>2. QED BY <1>3, <2>1
<1> HIDE DEF f, n
<1>5. f \in [1 .. n -> Queries]
  BY <1>3 DEF f
<1>6. \A i, j \in 1 .. n : f[i] = f[j] => i = j
  <2> SUFFICES ASSUME NEW i \in 1 .. n, NEW j \in 1 .. n, f[i] = f[j], i # j PROVE FALSE
    OBVIOUS
  <2>1. i < j \/ j < i
    BY <1>1
  <2>2. QED BY <1>4, <2>1
<1>7. f \in Injection(1 .. n, Queries)
  BY <1>5, <1>6, Fun_IsInj
<1>8. Cardinality(1 .. n) <= Cardinality(Queries)
  BY <1>7, StyleAssumption, FS_Injection
<1>9. Cardinality(1 .. n) = n
  BY <1>1, FS_Interval
<1>10. QED
  BY <1>1, <1>8, <1>9, StyleAssumption, FS_CardinalityType DEF n

\* So the capacity of a list that grows does not wrap, and has room for one more.
LEMMA GrownHasRoom ==
    ASSUME StylesInv, NEW c \in Clients
    PROVE  /\ Grown(c).capacity \in 0 .. Wrap - 1 /\ Grown(c).room = Grown(c).capacity
           /\ Len(fallback[c]) + 1 <= Grown(c).room
<1> DEFINE n == Len(fallback[c])
           v == capacity[c]
<1>1. /\ n \in Nat /\ Cardinality(Queries) \in Nat /\ n <= Cardinality(Queries)
      /\ v \in 0 .. Wrap - 1 /\ room[c] = v /\ n <= v
      /\ Increment \in Nat \ {0} /\ Wrap \in Nat /\ Wrap > Cardinality(Queries) + Increment
  BY ListsShort, StyleAssumption DEF StylesInv, StyleTypes, ListHasRoom
<1>2. CASE Full(c)
  <2>1. v < n + 1 /\ v + Increment \in 0 .. Wrap - 1
    BY <1>1, <1>2 DEF Full
  <2>2. (v + Increment) % Wrap = v + Increment
    <3> DEFINE r == v + Increment
    <3>1. r \in 0 .. Wrap - 1 /\ r \in Nat /\ Wrap \in Nat \ {0}
      BY <1>1, <2>1
    <3>2. r = Wrap * 0 + r
      BY <3>1
    <3> HIDE DEF r
    <3>3. r % Wrap = r
      BY <3>1, <3>2, ModUnique
    <3>4. QED BY <3>3 DEF r
  <2>3. /\ Grown(c).capacity = (v + Increment) % Wrap
        /\ Grown(c).room = v + Increment
    BY <1>2 DEF Grown
  <2> HIDE DEF n, v
  <2>4. QED BY <1>1, <2>1, <2>2, <2>3 DEF n
<1>3. CASE ~Full(c)
  <2>1. v >= n + 1
    BY <1>1, <1>3 DEF Full
  <2>2. Grown(c) = [capacity |-> v, room |-> room[c]]
    BY <1>3 DEF Grown
  <2>3. QED BY <1>1, <2>1, <2>2
<1>4. QED BY <1>2, <1>3
-----------------------------------------------------------------------------
(* The steps *)

\* A list that keeps its styles, and they their classes, needs them as before.
LEMMA NeedsKept ==
    ASSUME StylesInv, NEW c \in Clients, fallback'[c] = fallback[c],
           \A s \in Listed(c) : class_of'[s] = class_of[s]
    PROVE  \A j \in DOMAIN fallback'[c] :
               \E q \in Queries :
                   /\ Provides(class_of'[fallback'[c][j]], q)
                   /\ \A i \in 1 .. j - 1 : ~Provides(class_of'[fallback'[c][i]], q)
<1>1. DOMAIN fallback[c] = 1 .. Len(fallback[c]) /\ Len(fallback[c]) \in Nat
  BY DEF StylesInv, StyleTypes
<1>2. \A i \in DOMAIN fallback[c] : class_of'[fallback[c][i]] = class_of[fallback[c][i]]
  BY DEF Listed
<1>3. \A j \in DOMAIN fallback[c] : \A i \in 1 .. j - 1 : i \in DOMAIN fallback[c]
  BY <1>1
<1>4. QED BY <1>2, <1>3 DEF StylesInv, FallbacksNeeded

\* A style created for a list gets one reference and answers what none before it
\* does; the list has grown before it gets longer.
LEMMA AddFallbackStep ==
    ASSUME StylesInv, NEW c \in Clients, NEW q \in Queries, NEW k \in Classes,
           AddFallback(c, q, k)
    PROVE  StylesInv'
<1> DEFINE n == Len(fallback[c])
<1>0. PICK f : f = Fresh
  OBVIOUS
<1>1. /\ f \in StyleObjects /\ f \notin allocated /\ Lenders(f) = {}
      /\ \A t \in Holders : last[t] # f
      /\ \A d \in Clients : f \notin Listed(d)
  BY <1>0, FreshIsUnused DEF AddFallback
<1>2. /\ fallback' = [fallback EXCEPT ![c] = Append(fallback[c], f)]
      /\ capacity' = [capacity EXCEPT ![c] = Grown(c).capacity]
      /\ room' = [room EXCEPT ![c] = Grown(c).room]
      /\ allocated' = allocated \cup {f} /\ class_data' = class_data \cup {f}
      /\ class_of' = [class_of EXCEPT ![f] = k]
      /\ ref_count' = [ref_count EXCEPT ![f] = 1]
      /\ holds' = holds /\ last' = last
  BY <1>0 DEF AddFallback, threads
<1>3. /\ Grown(c).capacity \in 0 .. Wrap - 1 /\ Grown(c).room = Grown(c).capacity
      /\ Len(fallback[c]) + 1 <= Grown(c).room
  BY GrownHasRoom
<1>4. /\ fallback[c] \in Seq(StyleObjects) /\ n \in Nat /\ DOMAIN fallback[c] = 1 .. n
      /\ Append(fallback[c], f) \in Seq(StyleObjects)
      /\ DOMAIN Append(fallback[c], f) = 1 .. n + 1 /\ Len(Append(fallback[c], f)) = n + 1
      /\ Append(fallback[c], f)[n + 1] = f
      /\ \A i \in 1 .. n : Append(fallback[c], f)[i] = fallback[c][i]
  BY <1>1 DEF StylesInv, StyleTypes
<1>5. /\ fallback'[c] = Append(fallback[c], f)
      /\ \A d \in Clients : d # c => fallback'[d] = fallback[d]
  BY <1>2 DEF StylesInv, StyleTypes
<1>6. StyleTypes'
  BY <1>1, <1>2, <1>3, <1>4 DEF StylesInv, StyleTypes
<1>7. OneAtATime'
  BY <1>2 DEF StylesInv, OneAtATime
<1>8. \A s \in StyleObjects : RefsOf(s)'
  <2>1. Listed(c)' = Listed(c) \cup {f}
    BY <1>1, <1>4, <1>5, ElementsOfAppend DEF Listed
  <2>2. \A d \in Clients : d # c => Listed(d)' = Listed(d)
    BY <1>5 DEF Listed
  <2>3. Lenders(f)' = {c}
    BY <1>1, <1>2, <2>1, <2>2 DEF Lenders
  <2>4. RefsOf(f)'
    <3>1. Cardinality(Lenders(f)') = 1
      BY <2>3, FS_Singleton
    <3>2. ref_count'[f] = 1 /\ f \in allocated'
      BY <1>1, <1>2 DEF StylesInv, StyleTypes
    <3>3. QED BY <1>1, <1>2, <2>3, <3>1, <3>2 DEF RefsOf
  <2>5. ASSUME NEW s \in StyleObjects, s # f
        PROVE  RefsOf(s)'
    <3>1. Lenders(s)' = Lenders(s)
      BY <1>2, <2>1, <2>2, <2>5 DEF Lenders
    <3>2. /\ ref_count'[s] = ref_count[s]
          /\ s \in allocated' <=> s \in allocated
          /\ \A t \in Holders : last'[t] = s <=> last[t] = s
      BY <1>2, <2>5 DEF StylesInv, StyleTypes
    <3>3. QED BY <3>1, <3>2, RefsUntouched DEF StylesInv
  <2>6. QED BY <2>4, <2>5
<1>9. ClassDataLives'
  BY <1>2 DEF StylesInv, ClassDataLives
<1>10. FallbacksNeeded'
  <2>1. /\ class_of'[f] = k
        /\ \A d \in Clients : \A s \in Listed(d) : class_of'[s] = class_of[s]
    BY <1>1, <1>2, ListedAllocated DEF StylesInv, StyleTypes
  <2>2. \A i \in 1 .. n : class_of'[fallback[c][i]] = class_of[fallback[c][i]]
    BY <1>4, <2>1 DEF Listed
  <2>3. ASSUME NEW j \in 1 .. n + 1
        PROVE  \E r \in Queries :
                   /\ Provides(class_of'[fallback'[c][j]], r)
                   /\ \A i \in 1 .. j - 1 : ~Provides(class_of'[fallback'[c][i]], r)
    <3>1. CASE j = n + 1
      <4>1. Provides(k, q) /\ \A s \in Listed(c) : ~Provides(class_of[s], q)
        BY DEF AddFallback, Found
      <4>2. \A i \in 1 .. n : fallback[c][i] \in Listed(c)
        BY <1>4 DEF Listed
      <4>3. \A i \in 1 .. j - 1 : ~Provides(class_of'[fallback'[c][i]], q)
        BY <1>4, <1>5, <2>2, <3>1, <4>1, <4>2
      <4>4. QED BY <1>4, <1>5, <2>1, <3>1, <4>1, <4>3
    <3>2. CASE j \in 1 .. n
      <4>1. PICK r \in Queries :
                /\ Provides(class_of[fallback[c][j]], r)
                /\ \A i \in 1 .. j - 1 : ~Provides(class_of[fallback[c][i]], r)
        BY <1>4, <3>2 DEF StylesInv, FallbacksNeeded
      <4>2. \A i \in 1 .. j - 1 : i \in 1 .. n
        BY <1>4, <3>2
      <4>3. QED BY <1>4, <1>5, <2>2, <3>2, <4>1, <4>2
    <3>3. j = n + 1 \/ j \in 1 .. n
      BY <1>4
    <3>4. QED BY <3>1, <3>2, <3>3
  <2>4. QED BY <1>4, <1>5, <2>1, <2>3, NeedsKept DEF FallbacksNeeded
<1>11. ListHasRoom'
  BY <1>2, <1>3, <1>4, <1>5 DEF StylesInv, StyleTypes, ListHasRoom
<1>12. QED BY <1>6, <1>7, <1>8, <1>9, <1>10, <1>11 DEF StylesInv

\* A list that has grown in vain keeps its room.
LEMMA AddFallbackFailsStep ==
    ASSUME StylesInv, NEW c \in Clients, NEW q \in Queries, NEW k \in Classes, NEW step,
           AddFallbackFails(c, q, k, step)
    PROVE  StylesInv'
<1>1. /\ fallback' = fallback /\ UNCHANGED objects /\ UNCHANGED threads
      /\ \/ capacity' = capacity /\ room' = room
         \/ /\ capacity' = [capacity EXCEPT ![c] = Grown(c).capacity]
            /\ room' = [room EXCEPT ![c] = Grown(c).room]
  BY DEF AddFallbackFails
<1>2. /\ Grown(c).capacity \in 0 .. Wrap - 1 /\ Grown(c).room = Grown(c).capacity
      /\ Len(fallback[c]) + 1 <= Grown(c).room /\ Len(fallback[c]) \in Nat
  BY GrownHasRoom, ListsShort
<1>3. StyleTypes'
  <2>1. capacity' \in [Clients -> 0 .. Wrap - 1] /\ room' \in [Clients -> Nat]
    BY <1>1, <1>2 DEF StylesInv, StyleTypes
  <2>2. QED BY <1>1, <2>1 DEF StylesInv, StyleTypes, objects, threads
<1>4. ListHasRoom'
  BY <1>1, <1>2 DEF StylesInv, StyleTypes, ListHasRoom
<1>5. \A s \in StyleObjects : RefsOf(s)'
  <2>1. \A s : Lenders(s)' = Lenders(s)
    BY <1>1 DEF Lenders, Listed, threads
  <2>2. QED BY <1>1, <2>1, RefsUntouched DEF StylesInv, objects, threads
<1>6. OneAtATime' /\ ClassDataLives'
  BY <1>1 DEF StylesInv, OneAtATime, ClassDataLives, objects, threads
<1>7. FallbacksNeeded'
  BY <1>1 DEF StylesInv, FallbacksNeeded, objects
<1>8. QED BY <1>3, <1>4, <1>5, <1>6, <1>7 DEF StylesInv
\* The application's own style has one reference, of the thread it is for.
LEMMA CreateStyleStep ==
    ASSUME StylesInv, NEW t \in Holders, NEW k \in Classes, CreateStyle(t, k)
    PROVE  StylesInv'
<1>0. PICK f : f = Fresh
  OBVIOUS
<1>1. /\ f \in StyleObjects /\ f \notin allocated /\ Lenders(f) = {}
      /\ \A u \in Holders : last[u] # f
      /\ \A d \in Clients : f \notin Listed(d)
  BY <1>0, FreshIsUnused DEF CreateStyle
<1>2. /\ fallback' = fallback /\ capacity' = capacity /\ room' = room
      /\ allocated' = allocated \cup {f} /\ class_data' = class_data \cup {f}
      /\ class_of' = [class_of EXCEPT ![f] = k]
      /\ ref_count' = [ref_count EXCEPT ![f] = 1]
      /\ holds' = [holds EXCEPT ![t] = f] /\ last' = last
      /\ holds[t] = NoStyle /\ last[t] = NoStyle
  BY <1>0 DEF CreateStyle, lists
<1>3. StyleTypes'
  BY <1>1, <1>2 DEF StylesInv, StyleTypes
<1>4. OneAtATime'
  BY <1>2 DEF StylesInv, OneAtATime, StyleTypes
<1>5. \A s \in StyleObjects : RefsOf(s)'
  <2>1. \A d \in Clients : Listed(d)' = Listed(d)
    BY <1>2 DEF Listed
  <2>2. /\ holds'[t] = f /\ f # NoStyle
        /\ \A u \in Holders : u # t => holds'[u] = holds[u]
    BY <1>1, <1>2, StyleAssumption DEF StylesInv, StyleTypes
  <2>3. Lenders(f)' = {t}
    BY <1>1, <2>1, <2>2 DEF Lenders
  <2>4. RefsOf(f)'
    <3>1. Cardinality(Lenders(f)') = 1
      BY <2>3, FS_Singleton
    <3>2. ref_count'[f] = 1 /\ f \in allocated'
      BY <1>1, <1>2 DEF StylesInv, StyleTypes
    <3>3. QED BY <1>1, <1>2, <2>3, <3>1, <3>2 DEF RefsOf
  <2>5. ASSUME NEW s \in StyleObjects, s # f
        PROVE  RefsOf(s)'
    <3>1. s # NoStyle
      BY StyleAssumption
    <3>2. Lenders(s)' = Lenders(s)
      BY <1>2, <2>1, <2>2, <2>5, <3>1 DEF Lenders
    <3>3. /\ ref_count'[s] = ref_count[s]
          /\ s \in allocated' <=> s \in allocated
          /\ \A u \in Holders : last'[u] = s <=> last[u] = s
      BY <1>2, <2>5 DEF StylesInv, StyleTypes
    <3>4. QED BY <3>2, <3>3, RefsUntouched DEF StylesInv
  <2>6. QED BY <2>4, <2>5
<1>6. ClassDataLives'
  BY <1>2 DEF StylesInv, ClassDataLives
<1>7. FallbacksNeeded'
  <2>1. \A d \in Clients : \A s \in Listed(d) : class_of'[s] = class_of[s]
    BY <1>1, <1>2, ListedAllocated DEF StylesInv, StyleTypes
  <2>2. QED BY <1>2, <2>1, NeedsKept DEF FallbacksNeeded
<1>8. ListHasRoom'
  BY <1>2 DEF StylesInv, ListHasRoom
<1>9. QED BY <1>3, <1>4, <1>5, <1>6, <1>7, <1>8 DEF StylesInv

\* A step of a thread on its reference, when neither lists nor memory change.
LEMMA ThreadFrame ==
    ASSUME StylesInv, StyleTypes', OneAtATime', \A s \in StyleObjects : RefsOf(s)',
           UNCHANGED <<lists, allocated, class_of, class_data>>
    PROVE  StylesInv'
BY DEF StylesInv, ClassDataLives, FallbacksNeeded, ListHasRoom, lists

\* Retaining adds one reference and one to the count, of a style somebody has.
LEMMA RetainStep ==
    ASSUME StylesInv, NEW t \in Holders, NEW s \in StyleObjects, Retain(t, s)
    PROVE  StylesInv'
<1>1. /\ UNCHANGED <<lists, allocated, class_of, class_data, last>>
      /\ ref_count' = [ref_count EXCEPT ![s] = ref_count[s] + 1]
      /\ holds' = [holds EXCEPT ![t] = s]
      /\ holds[t] = NoStyle /\ last[t] = NoStyle /\ Lenders(s) # {}
  BY DEF Retain
<1>2. /\ s # NoStyle /\ holds'[t] = s
      /\ \A u \in Holders : u # t => holds'[u] = holds[u]
  BY <1>1, StyleAssumption DEF StylesInv, StyleTypes
<1>3. \A d \in Clients : Listed(d)' = Listed(d)
  BY <1>1 DEF Listed, lists
<1>4. StyleTypes'
  BY <1>1 DEF StylesInv, StyleTypes, lists
<1>5. OneAtATime'
  BY <1>1, <1>2 DEF StylesInv, OneAtATime
<1>6. RefsOf(s)'
  <2>1. Lenders(s)' = Lenders(s) \cup {t} /\ t \notin Lenders(s)
    BY <1>1, <1>2, <1>3, StyleAssumption DEF Lenders
  <2>2. Cardinality(Lenders(s)') = Cardinality(Lenders(s)) + 1
    BY <2>1, LendersFinite, FS_AddElement
  <2>3. ref_count'[s] = ref_count[s] + 1
    BY <1>1 DEF StylesInv, StyleTypes
  <2>4. QED BY <1>1, <2>1, <2>2, <2>3 DEF StylesInv, RefsOf
<1>7. ASSUME NEW r \in StyleObjects, r # s
      PROVE  RefsOf(r)'
  <2>1. r # NoStyle
    BY StyleAssumption
  <2>2. Lenders(r)' = Lenders(r)
    BY <1>1, <1>2, <1>3, <1>7, <2>1 DEF Lenders
  <2>3. ref_count'[r] = ref_count[r]
    BY <1>1, <1>7 DEF StylesInv, StyleTypes
  <2>4. QED BY <1>1, <2>2, <2>3, RefsUntouched DEF StylesInv
<1>8. QED BY <1>1, <1>4, <1>5, <1>6, <1>7, ThreadFrame

\* Releasing takes one reference and one from the count; whoever takes the last
\* is the only one to free the style.
LEMMA ReleaseStep ==
    ASSUME StylesInv, NEW t \in Holders, Release(t)
    PROVE  StylesInv'
<1>0. PICK s : s = holds[t]
  OBVIOUS
<1>1. /\ UNCHANGED <<lists, allocated, class_of, class_data>>
      /\ s # NoStyle /\ s \in StyleObjects
      /\ ref_count' = [ref_count EXCEPT ![s] = ref_count[s] - 1]
      /\ holds' = [holds EXCEPT ![t] = NoStyle]
      /\ last' = [last EXCEPT ![t] = IF ref_count[s] = 1 THEN s ELSE NoStyle]
  BY <1>0 DEF Release, StylesInv, StyleTypes
<1>2. /\ last[t] = NoStyle /\ holds'[t] = NoStyle
      /\ last'[t] = IF ref_count[s] = 1 THEN s ELSE NoStyle
      /\ \A u \in Holders : u # t => holds'[u] = holds[u] /\ last'[u] = last[u]
  BY <1>0, <1>1 DEF StylesInv, StyleTypes, OneAtATime
<1>3. \A d \in Clients : Listed(d)' = Listed(d)
  BY <1>1 DEF Listed, lists
<1>4. StyleTypes'
  BY <1>1 DEF StylesInv, StyleTypes, lists
<1>5. OneAtATime'
  BY <1>2 DEF StylesInv, OneAtATime
<1>6. RefsOf(s)'
  <2>1. Lenders(s)' = Lenders(s) \ {t} /\ t \in Lenders(s)
    BY <1>0, <1>1, <1>2, <1>3, StyleAssumption DEF Lenders
  <2>2. Cardinality(Lenders(s)') = Cardinality(Lenders(s)) - 1
    BY <2>1, LendersFinite, FS_RemoveElement
  <2>3. ref_count'[s] = ref_count[s] - 1 /\ ref_count[s] = Cardinality(Lenders(s))
    BY <1>1 DEF StylesInv, StyleTypes, RefsOf
  <2>4. ref_count[s] = 1 <=> Lenders(s)' = {}
    BY <2>2, <2>3, LendersFinite, FS_EmptySet
  <2>5. s \in allocated /\ \A u \in Holders : last[u] # s
    BY <1>1, <2>1 DEF StylesInv, RefsOf
  <2>6. /\ last'[t] = s <=> Lenders(s)' = {}
        /\ \A u \in Holders : u # t => last'[u] # s
    BY <1>1, <1>2, <2>4, <2>5
  <2>7. QED BY <1>1, <2>2, <2>3, <2>5, <2>6 DEF RefsOf
<1>7. ASSUME NEW r \in StyleObjects, r # s
      PROVE  RefsOf(r)'
  <2>1. r # NoStyle
    BY StyleAssumption
  <2>2. Lenders(r)' = Lenders(r)
    BY <1>0, <1>2, <1>3, <1>7, <2>1 DEF Lenders
  <2>3. ref_count'[r] = ref_count[r] /\ \A u \in Holders : last'[u] = r <=> last[u] = r
    BY <1>1, <1>2, <1>7, <2>1 DEF StylesInv, StyleTypes
  <2>4. QED BY <1>1, <2>2, <2>3, RefsUntouched DEF StylesInv
<1>8. QED BY <1>1, <1>4, <1>5, <1>6, <1>7, ThreadFrame

\* What is freed nobody has a reference to, in a list or elsewhere.
LEMMA FreeStep ==
    ASSUME StylesInv, NEW t \in Holders, Free(t)
    PROVE  StylesInv'
<1>0. PICK s : s = last[t]
  OBVIOUS
<1>1. /\ UNCHANGED <<lists, ref_count, holds>>
      /\ s # NoStyle /\ s \in StyleObjects
      /\ allocated' = allocated \ {s} /\ class_data' = class_data \ {s}
      /\ class_of' = [class_of EXCEPT ![s] = AnyClass]
      /\ last' = [last EXCEPT ![t] = NoStyle]
  BY <1>0 DEF Free, StylesInv, StyleTypes
<1>2. /\ last'[t] = NoStyle
      /\ \A u \in Holders : u # t => last'[u] = last[u]
  BY <1>1 DEF StylesInv, StyleTypes
<1>3. Lenders(s) = {} /\ \A u \in Holders : u # t => last[u] # s
  BY <1>0, <1>1 DEF StylesInv, RefsOf
<1>4. \A r : Lenders(r)' = Lenders(r)
  BY <1>1 DEF Lenders, Listed, lists
<1>5. StyleTypes'
  <2>1. AnyClass \in Classes
    BY StyleAssumption DEF AnyClass
  <2>2. QED BY <1>1, <2>1 DEF StylesInv, StyleTypes, lists
<1>6. OneAtATime'
  BY <1>1, <1>2 DEF StylesInv, OneAtATime
<1>7. RefsOf(s)'
  <2>1. \A u \in Holders : last'[u] # s
    BY <1>1, <1>2, <1>3
  <2>2. s \notin allocated' /\ ref_count'[s] = ref_count[s] /\ Lenders(s)' = {}
    BY <1>1, <1>3, <1>4
  <2>3. ref_count[s] = Cardinality(Lenders(s)')
    BY <1>1, <1>4 DEF StylesInv, RefsOf
  <2>4. QED BY <2>1, <2>2, <2>3 DEF RefsOf
<1>8. ASSUME NEW r \in StyleObjects, r # s
      PROVE  RefsOf(r)'
  <2>1. r # NoStyle
    BY StyleAssumption
  <2>2. /\ ref_count'[r] = ref_count[r]
        /\ r \in allocated' <=> r \in allocated
        /\ \A u \in Holders : last'[u] = r <=> last[u] = r
    BY <1>0, <1>1, <1>2, <1>8, <2>1
  <2>3. QED BY <1>4, <2>2, RefsUntouched DEF StylesInv
<1>9. ClassDataLives' /\ ListHasRoom'
  BY <1>1 DEF StylesInv, ClassDataLives, ListHasRoom, lists
<1>10. FallbacksNeeded'
  <2>1. \A d \in Clients : \A r \in Listed(d) : r # s
    BY <1>3 DEF Lenders
  <2>2. \A d \in Clients : \A r \in Listed(d) : class_of'[r] = class_of[r]
    BY <1>1, <2>1, ListedAllocated DEF StylesInv, StyleTypes
  <2>3. QED BY <1>1, <2>2, NeedsKept DEF FallbacksNeeded, lists
<1>11. QED BY <1>5, <1>6, <1>7, <1>8, <1>9, <1>10 DEF StylesInv

\* A client that goes frees exactly what nobody else has: a style that another
\* client lists or a thread holds has a count of at least two.
LEMMA ReleaseListStep ==
    ASSUME StylesInv, NEW c \in Clients, ReleaseList(c)
    PROVE  StylesInv'
<1>0. PICK mine, dropped : /\ mine = Listed(c)
                           /\ dropped = {s \in Listed(c) : ref_count[s] = 1}
  OBVIOUS
<1>1. /\ fallback' = [fallback EXCEPT ![c] = <<>>]
      /\ capacity' = [capacity EXCEPT ![c] = 0] /\ room' = [room EXCEPT ![c] = 0]
      /\ ref_count' = [s \in StyleObjects |-> ref_count[s] - (IF s \in mine THEN 1 ELSE 0)]
      /\ allocated' = allocated \ dropped /\ class_data' = class_data \ dropped
      /\ class_of' = [s \in StyleObjects |-> IF s \in dropped THEN AnyClass ELSE class_of[s]]
      /\ holds' = holds /\ last' = last
  BY <1>0 DEF ReleaseList, threads
<1>2. /\ fallback'[c] = <<>>
      /\ \A d \in Clients : d # c => fallback'[d] = fallback[d]
  BY <1>1 DEF StylesInv, StyleTypes
<1>3. /\ Listed(c)' = {}
      /\ \A d \in Clients : d # c => Listed(d)' = Listed(d)
  BY <1>2 DEF Listed
<1>4. \A s \in StyleObjects : /\ s \in mine => c \in Lenders(s)
                              /\ Lenders(s)' = Lenders(s) \ {c}
                              /\ s \notin mine => c \notin Lenders(s)
  BY <1>0, <1>1, <1>3, StyleAssumption DEF Lenders
<1>5. \A s \in StyleObjects : s \in dropped <=> s \in mine /\ Lenders(s)' = {}
  <2> SUFFICES ASSUME NEW s \in StyleObjects, s \in mine
               PROVE  ref_count[s] = 1 <=> Lenders(s)' = {}
    BY <1>0
  <2>1. Lenders(s)' = Lenders(s) \ {c} /\ c \in Lenders(s)
    BY <1>4
  <2>2. Cardinality(Lenders(s)') = Cardinality(Lenders(s)) - 1
    BY <2>1, LendersFinite, FS_RemoveElement
  <2>3. ref_count[s] = Cardinality(Lenders(s))
    BY DEF StylesInv, RefsOf
  <2>4. QED BY <2>2, <2>3, LendersFinite, FS_EmptySet
<1>6. StyleTypes'
  <2>1. AnyClass \in Classes
    BY StyleAssumption DEF AnyClass
  <2>2. fallback' \in [Clients -> Seq(StyleObjects)]
    BY <1>1 DEF StylesInv, StyleTypes
  <2>3. capacity' \in [Clients -> 0 .. Wrap - 1] /\ room' \in [Clients -> Nat]
    BY <1>1, StyleAssumption DEF StylesInv, StyleTypes
  <2>4. ref_count' \in [StyleObjects -> Int]
    BY <1>1 DEF StylesInv, StyleTypes
  <2>5. class_of' \in [StyleObjects -> Classes]
    BY <1>1, <2>1 DEF StylesInv, StyleTypes
  <2>6. QED BY <1>1, <2>2, <2>3, <2>4, <2>5 DEF StylesInv, StyleTypes
<1>7. OneAtATime'
  BY <1>1 DEF StylesInv, OneAtATime
<1>8. ASSUME NEW s \in StyleObjects, s \in mine
      PROVE  RefsOf(s)'
  <2>1. Lenders(s)' = Lenders(s) \ {c} /\ c \in Lenders(s)
    BY <1>4, <1>8
  <2>2. Cardinality(Lenders(s)') = Cardinality(Lenders(s)) - 1
    BY <2>1, LendersFinite, FS_RemoveElement
  <2>3. /\ ref_count[s] = Cardinality(Lenders(s)) /\ s \in allocated
        /\ \A t \in Holders : last[t] # s
    BY <2>1 DEF StylesInv, RefsOf
  <2>4. ref_count'[s] = ref_count[s] - 1
    BY <1>1, <1>8
  <2>5. s \in allocated' <=> Lenders(s)' # {}
    BY <1>1, <1>5, <1>8, <2>3
  <2>6. QED BY <1>1, <2>2, <2>3, <2>4, <2>5 DEF RefsOf
<1>9. ASSUME NEW s \in StyleObjects, s \notin mine
      PROVE  RefsOf(s)'
  <2>1. Lenders(s)' = Lenders(s)
    BY <1>4, <1>9
  <2>2. /\ ref_count'[s] = ref_count[s]
        /\ s \in allocated' <=> s \in allocated
        /\ \A t \in Holders : last'[t] = s <=> last[t] = s
    BY <1>0, <1>1, <1>9 DEF StylesInv, StyleTypes
  <2>3. QED BY <2>1, <2>2, RefsUntouched DEF StylesInv
<1>10. ClassDataLives'
  BY <1>1 DEF StylesInv, ClassDataLives
<1>11. FallbacksNeeded'
  <2>1. ASSUME NEW d \in Clients, d # c, NEW s \in Listed(d)
        PROVE  class_of'[s] = class_of[s]
    <3>1. s \in StyleObjects /\ d \in Lenders(s)
      BY ListedAllocated
    <3>2. d \in Lenders(s)'
      BY <1>4, <2>1, <3>1
    <3>3. QED BY <1>1, <1>5, <3>1, <3>2
  <2>2. DOMAIN fallback'[c] = {}
    BY <1>2
  <2>3. QED BY <1>2, <2>1, <2>2, NeedsKept DEF FallbacksNeeded
<1>12. ListHasRoom'
  BY <1>1, <1>2 DEF StylesInv, StyleTypes, ListHasRoom
<1>13. QED BY <1>6, <1>7, <1>8, <1>9, <1>10, <1>11, <1>12 DEF StylesInv

-----------------------------------------------------------------------------
(* All of them together *)

\* Nothing is listed and nothing held at first.
LEMMA StylesInvInit == StylesInit => StylesInv
<1> SUFFICES ASSUME StylesInit PROVE StylesInv
  OBVIOUS
<1>1. \A s \in StyleObjects : Lenders(s) = {}
  BY StyleAssumption DEF StylesInit, Lenders, Listed
<1>2. \A s \in StyleObjects : RefsOf(s)
  BY <1>1, StyleAssumption, FS_EmptySet DEF StylesInit, RefsOf
<1>3. StyleTypes /\ OneAtATime
  <2>1. AnyClass \in Classes
    BY StyleAssumption DEF AnyClass
  <2>2. 0 \in 0 .. Wrap - 1
    <3>1. Cardinality(Queries) \in Nat
      BY StyleAssumption, FS_CardinalityType
    <3>2. QED BY <3>1, StyleAssumption
  <2>3. fallback \in [Clients -> Seq(StyleObjects)]
    <3>1. <<>> \in Seq(StyleObjects)
      OBVIOUS
    <3>2. QED BY <3>1 DEF StylesInit
  <2>4. capacity \in [Clients -> 0 .. Wrap - 1] /\ room \in [Clients -> Nat]
    BY <2>2 DEF StylesInit
  <2>5. class_of \in [StyleObjects -> Classes] /\ ref_count \in [StyleObjects -> Int]
    BY <2>1 DEF StylesInit
  <2>6. QED BY <2>3, <2>4, <2>5 DEF StylesInit, StyleTypes, OneAtATime
<1>4. ClassDataLives /\ FallbacksNeeded /\ ListHasRoom
  BY DEF StylesInit, ClassDataLives, FallbacksNeeded, ListHasRoom
<1>5. QED BY <1>2, <1>3, <1>4 DEF StylesInv

\* Whatever is done with styles, in whatever order, keeps the invariant.
THEOREM StylesPreserved ==
    ASSUME StylesInv, StyleStep \/ UNCHANGED style_vars
    PROVE  StylesInv'
<1>1. CASE UNCHANGED style_vars
  <2>1. \A s : Lenders(s)' = Lenders(s)
    BY <1>1 DEF Lenders, Listed, style_vars, lists, threads
  <2>2. \A s \in StyleObjects : RefsOf(s)'
    BY <1>1, <2>1, RefsUntouched DEF StylesInv, style_vars, objects, threads
  <2>3. QED
    BY <1>1, <2>2 DEF StylesInv, StyleTypes, OneAtATime, ClassDataLives, FallbacksNeeded,
                      ListHasRoom, style_vars, lists, objects, threads
<1>2. CASE StyleStep
  BY <1>2, AddFallbackStep, AddFallbackFailsStep, ReleaseListStep, CreateStyleStep,
     RetainStep, ReleaseStep, FreeStep DEF StyleStep, HolderStep
<1>3. QED BY <1>1, <1>2

\* The invariant is stronger than the properties.
LEMMA StylesProperties ==
    ASSUME StylesInv
    PROVE  StylesTypeOK /\ RefsCounted /\ ClassDataLives /\ FallbacksNeeded /\ ListHasRoom
<1>1. StylesTypeOK
  <2>1. fallback \in [Clients -> Seq(allocated)]
    <3> SUFFICES ASSUME NEW c \in Clients PROVE fallback[c] \in Seq(allocated)
      BY DEF StylesInv, StyleTypes
    <3>1. fallback[c] \in Seq(StyleObjects)
      BY DEF StylesInv, StyleTypes
    <3>2. \A i \in 1 .. Len(fallback[c]) : fallback[c][i] \in allocated
      BY <3>1, ListedAllocated DEF Listed
    <3>3. QED BY <3>1, <3>2
  <2>2. ref_count \in [StyleObjects -> Nat]
    BY LendersFinite DEF StylesInv, StyleTypes, RefsOf
  <2>3. QED BY <2>1, <2>2 DEF StylesInv, StyleTypes, StylesTypeOK, ClassDataLives
<1>2. RefsCounted
  BY DEF StylesInv, RefsOf, RefsCounted
<1>3. QED BY <1>1, <1>2 DEF StylesInv
=============================================================================
