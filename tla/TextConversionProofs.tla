------------------------ MODULE TextConversionProofs ------------------------
(***************************************************************************)
(* Lemmas about TextConversion, for texts of any length and any size of    *)
(* the buffer on the stack.                                                *)
(***************************************************************************)
EXTENDS TextConversion, NumberLemmas, FiniteSetTheorems, SequenceTheorems

-----------------------------------------------------------------------------
(* Sequences of sequences *)

\* joined[i] is the first i of the sequences, one after the other.
IsJoin(joined, seqs) ==
    joined[0] = <<>> /\ \A i \in 1 .. Len(seqs) : joined[i] = joined[i - 1] \o seqs[i]

\* There is one: the joining starts with nothing and adds them one by one.
LEMMA JoinExists ==
    ASSUME NEW S, NEW seqs \in Seq(Seq(S))
    PROVE  \E joined \in [0 .. Len(seqs) -> Seq(S)] : IsJoin(joined, seqs)
<1>1. PICK Q : Q = Seq(S)
  OBVIOUS
<1>2. PICK n \in Nat : n = Len(seqs)
  BY LenProperties
<1>3. \A i \in 1 .. n : seqs[i] \in Q
  BY <1>1, <1>2, ElementOfSeq
<1>4. <<>> \in Q /\ \A s, t \in Q : s \o t \in Q
  BY <1>1, EmptySeq, ConcatProperties
<1> DEFINE prev == [i \in 1 .. n |-> i - 1]
           step == [i \in 1 .. n |-> [s \in Q |-> s \o seqs[i]]]
<1>5. \A i \in 1 .. n, s \in Q : step[i][s] = s \o seqs[i] /\ s \o seqs[i] \in Q
  BY <1>3, <1>4
<1>6. \A i \in 1 .. n : prev[i] = i - 1 /\ prev[i] \in 0 .. i - 1
  OBVIOUS
<1> HIDE DEF prev, step
<1>7. Descends(n, prev) /\ Preserves(n, Q, step)
  BY <1>5, <1>6 DEF Descends, Preserves
<1>8. PICK g \in [0 .. n -> Q] : IsRecursive(g, n, <<>>, prev, step)
  BY <1>4, <1>7, RecursionExists
<1>9. ASSUME NEW i \in 1 .. n PROVE g[i] = g[i - 1] \o seqs[i]
  <2>1. i - 1 \in 0 .. n
    OBVIOUS
  <2>2. g[i - 1] \in Q
    BY <1>8, <2>1
  <2>3. g[i] = step[i][g[prev[i]]] /\ prev[i] = i - 1
    BY <1>6, <1>8 DEF IsRecursive
  <2>4. QED BY <1>5, <2>2, <2>3
<1>10. IsJoin(g, seqs)
  BY <1>2, <1>8, <1>9 DEF IsJoin, IsRecursive
<1>11. QED BY <1>1, <1>2, <1>8, <1>10

\* And that is what FlattenSeq gives.
LEMMA FlattenJoins ==
    ASSUME NEW S, NEW seqs \in Seq(Seq(S)), NEW joined \in [0 .. Len(seqs) -> Seq(S)],
           IsJoin(joined, seqs)
    PROVE  FlattenSeq(seqs) = joined[Len(seqs)]
<1>1. PICK Q : Q = Seq(S)
  OBVIOUS
<1>2. PICK n \in Nat : n = Len(seqs)
  BY LenProperties
<1>3. CASE n = 0
  <2>1. seqs = <<>>
    BY <1>2, <1>3, EmptySeq
  <2>2. FlattenSeq(seqs) = seqs /\ joined[n] = <<>>
    BY <1>2, <1>3 DEF FlattenSeq, IsJoin
  <2>3. QED BY <1>2, <2>1, <2>2
<1>4. CASE n # 0
  <2> DEFINE Eq(f) == f = [i \in 1 .. n |-> IF i = 1 THEN seqs[i] ELSE f[i - 1] \o seqs[i]]
             flat == CHOOSE f : Eq(f)
  <2>1. FlattenSeq(seqs) = flat[n]
    BY <1>2, <1>4 DEF FlattenSeq
  <2>2. \A i \in 1 .. n : joined[i] = joined[i - 1] \o seqs[i] /\ seqs[i] \in Q
    BY <1>1, <1>2, ElementOfSeq DEF IsJoin
  <2>3. joined[0] = <<>> /\ \A s \in Q : <<>> \o s = s
    BY <1>1, ConcatEmptySeq DEF IsJoin
  <2>4. joined[1] = seqs[1]
    <3>1. 1 \in 1 .. n /\ 1 - 1 = 0
      BY <1>2, <1>4
    <3>2. joined[1] = joined[0] \o seqs[1] /\ seqs[1] \in Q
      BY <2>2, <3>1
    <3>3. QED BY <2>3, <3>2
  <2>5. PICK f : f = [i \in 1 .. n |-> joined[i]]
    OBVIOUS
  <2>6. ASSUME NEW i \in 1 .. n
        PROVE  f[i] = IF i = 1 THEN seqs[i] ELSE f[i - 1] \o seqs[i]
    <3>1. CASE i = 1
      BY <2>4, <2>5, <3>1
    <3>2. CASE i # 1
      <4>1. i - 1 \in 1 .. n
        BY <1>2, <3>2
      <4>2. QED BY <2>2, <2>5, <3>2, <4>1
    <3>3. QED BY <3>1, <3>2
  <2>7. Eq(flat)
    <3>1. Eq(f)
      BY <2>5, <2>6
    <3>2. QED BY <3>1
  <2> HIDE DEF flat
  <2>8. \A i \in 1 .. n : flat[i] = IF i = 1 THEN seqs[i] ELSE flat[i - 1] \o seqs[i]
    BY <2>7
  <2> DEFINE T == {i \in 0 .. n : i = 0 \/ flat[i] = joined[i]}
  <2>9. ASSUME NEW i \in 0 .. n, \A j \in 0 .. i - 1 : j \in T PROVE i \in T
    <3>1. CASE i = 0
      BY <3>1
    <3>2. CASE i = 1
      BY <1>2, <1>4, <2>4, <2>8, <3>2
    <3>3. CASE i > 1
      <4>1. i - 1 \in T /\ i - 1 # 0 /\ i \in 1 .. n /\ i # 1
        BY <1>2, <2>9, <3>3
      <4>2. flat[i] = flat[i - 1] \o seqs[i] /\ joined[i] = joined[i - 1] \o seqs[i]
        BY <2>2, <2>8, <4>1
      <4>3. flat[i] = joined[i]
        BY <4>1, <4>2
      <4>4. QED BY <4>3
    <3>4. QED BY <1>2, <3>1, <3>2, <3>3
  <2> HIDE DEF T
  <2>10. \A i \in 0 .. n : i \in T
    BY <1>2, <2>9, RangeInduction
  <2>11. n \in T
    BY <1>2, <2>10
  <2>12. QED BY <1>2, <1>4, <2>1, <2>11 DEF T
<1>5. QED BY <1>3, <1>4

\* Joining sequences of elements of S gives one of them.
LEMMA FlattenTypes ==
    ASSUME NEW S, NEW seqs \in Seq(Seq(S)) PROVE FlattenSeq(seqs) \in Seq(S)
<1>1. PICK joined \in [0 .. Len(seqs) -> Seq(S)] : IsJoin(joined, seqs)
  BY JoinExists
<1>2. Len(seqs) \in 0 .. Len(seqs)
  BY LenProperties
<1>3. joined[Len(seqs)] \in Seq(S)
  BY <1>1, <1>2
<1>4. QED BY <1>1, <1>3, FlattenJoins

\* The first k of the sequences join to what the joining has after k of them.
LEMMA FlattenPrefix ==
    ASSUME NEW S, NEW seqs \in Seq(Seq(S)), NEW joined \in [0 .. Len(seqs) -> Seq(S)],
           IsJoin(joined, seqs), NEW k \in 0 .. Len(seqs)
    PROVE  FlattenSeq(SubSeq(seqs, 1, k)) = joined[k]
<1>1. PICK Q : Q = Seq(S)
  OBVIOUS
<1>2. PICK n \in Nat : n = Len(seqs) /\ k \in 0 .. n
  BY LenProperties
<1>3. PICK first : first = SubSeq(seqs, 1, k)
  OBVIOUS
<1>4. first \in Seq(Q) /\ Len(first) = k /\ \A i \in 1 .. k : first[i] = seqs[i]
  <2>1. \A i \in 1 .. k : seqs[i] \in Q
    BY <1>1, <1>2, ElementOfSeq
  <2>2. /\ first \in Seq(Q) /\ Len(first) = (IF 1 <= k THEN k - 1 + 1 ELSE 0)
        /\ \A i \in 1 .. k - 1 + 1 : first[i] = seqs[1 + i - 1]
    BY <1>2, <1>3, <2>1, SubSeqProperties
  <2>3. QED BY <1>2, <2>2
<1>5. PICK f : f = [i \in 0 .. k |-> joined[i]]
  OBVIOUS
<1>6. joined \in [0 .. n -> Q] /\ joined[0] = <<>>
      /\ \A i \in 1 .. n : joined[i] = joined[i - 1] \o seqs[i]
  BY <1>1, <1>2 DEF IsJoin
<1>7. f \in [0 .. k -> Q]
  <2>1. \A i \in 0 .. k : joined[i] \in Q
    BY <1>2, <1>6
  <2>2. QED BY <1>5, <2>1
<1>8. IsJoin(f, first)
  <2>1. f[0] = <<>>
    BY <1>2, <1>5, <1>6
  <2>2. ASSUME NEW i \in 1 .. k PROVE f[i] = f[i - 1] \o first[i]
    <3>1. i \in 1 .. n /\ i - 1 \in 0 .. k /\ i \in 0 .. k
      BY <1>2
    <3>2. f[i] = joined[i] /\ f[i - 1] = joined[i - 1]
      BY <1>5, <3>1
    <3>3. QED BY <1>4, <1>6, <3>1, <3>2
  <2>3. QED BY <1>4, <2>1, <2>2 DEF IsJoin
<1>9. FlattenSeq(first) = f[k]
  BY <1>1, <1>4, <1>7, <1>8, FlattenJoins
<1>10. QED BY <1>2, <1>3, <1>5, <1>9

\* Taken from behind: rest[k] is what comes after the first k of the sequences.
IsRest(rest, seqs) ==
    rest[Len(seqs)] = <<>> /\ \A k \in 1 .. Len(seqs) : rest[k - 1] = seqs[k] \o rest[k]

\* The sequences that are joined, in two parts, at every place between two of them.
IsSplit(joined, rest, seqs) ==
    /\ IsJoin(joined, seqs) /\ IsRest(rest, seqs)
    /\ \A k \in 0 .. Len(seqs) : FlattenSeq(seqs) = joined[k] \o rest[k]

\* The sequences taken from behind join to the same.
LEMMA FlattenFromBehind ==
    ASSUME NEW S, NEW seqs \in Seq(Seq(S))
    PROVE  \E joined \in [0 .. Len(seqs) -> Seq(S)], rest \in [0 .. Len(seqs) -> Seq(S)] :
              IsSplit(joined, rest, seqs)
<1>1. PICK Q : Q = Seq(S)
  OBVIOUS
<1>2. PICK n \in Nat : n = Len(seqs)
  BY LenProperties
<1>3. PICK joined \in [0 .. n -> Q] : IsJoin(joined, seqs) /\ FlattenSeq(seqs) = joined[n]
  BY <1>1, <1>2, JoinExists, FlattenJoins
<1>4. \A i \in 1 .. n : seqs[i] \in Q
  BY <1>1, <1>2, ElementOfSeq
<1>5. /\ <<>> \in Q /\ \A s \in Q : s \o <<>> = s
      /\ \A s, t \in Q : s \o t \in Q
      /\ \A s, t, u \in Q : (s \o t) \o u = s \o (t \o u)
  BY <1>1, EmptySeq, ConcatProperties, ConcatEmptySeq, ConcatAssociative
<1> DEFINE prev == [j \in 1 .. n |-> j - 1]
           step == [j \in 1 .. n |-> [s \in Q |-> seqs[n + 1 - j] \o s]]
<1>6. \A j \in 1 .. n : prev[j] = j - 1 /\ \A s \in Q : step[j][s] = seqs[n + 1 - j] \o s
  OBVIOUS
<1> HIDE DEF prev, step
<1>7. Descends(n, prev) /\ Preserves(n, Q, step)
  <2>1. ASSUME NEW j \in 1 .. n, NEW s \in Q PROVE step[j][s] \in Q
    <3>1. n + 1 - j \in 1 .. n
      BY <1>2
    <3>2. PICK a \in Q : a = seqs[n + 1 - j]
      BY <1>4, <3>1
    <3>3. step[j][s] = a \o s
      BY <1>6, <3>2
    <3>4. QED BY <1>5, <3>3
  <2>2. \A j \in 1 .. n : prev[j] \in 0 .. j - 1
    BY <1>2, <1>6
  <2>3. QED BY <2>1, <2>2 DEF Descends, Preserves
<1>8. PICK g \in [0 .. n -> Q] : IsRecursive(g, n, <<>>, prev, step)
  BY <1>2, <1>5, <1>7, RecursionExists
<1>9. PICK rest : rest = [k \in 0 .. n |-> g[n - k]]
  OBVIOUS
<1>10. rest \in [0 .. n -> Q] /\ rest[n] = <<>>
  <2>1. \A k \in 0 .. n : n - k \in 0 .. n
    BY <1>2
  <2>2. n \in 0 .. n /\ n - n = 0
    BY <1>2
  <2>3. QED BY <1>8, <1>9, <2>1, <2>2 DEF IsRecursive
<1>11. ASSUME NEW k \in 1 .. n PROVE rest[k - 1] = seqs[k] \o rest[k]
  <2>1. PICK j \in 1 .. n : j = n - (k - 1)
    <3>1. n - (k - 1) \in 1 .. n
      BY <1>2
    <3>2. QED BY <3>1
  <2>2. /\ j - 1 = n - k /\ n + 1 - j = k
        /\ k - 1 \in 0 .. n /\ j - 1 \in 0 .. n /\ k \in 0 .. n
    BY <1>2, <2>1
  <2>3. g[j - 1] \in Q
    BY <1>8, <2>2
  <2>4. g[j] = seqs[k] \o g[j - 1]
    BY <1>6, <1>8, <2>2, <2>3 DEF IsRecursive
  <2>5. rest[k - 1] = g[j] /\ rest[k] = g[j - 1]
    BY <1>9, <2>1, <2>2
  <2>6. QED BY <2>4, <2>5
<1>12. IsRest(rest, seqs)
  BY <1>2, <1>10, <1>11 DEF IsRest
<1> DEFINE T == {j \in 0 .. n : joined[n] = joined[n - j] \o rest[n - j]}
<1>13. ASSUME NEW j \in 0 .. n, \A i \in 0 .. j - 1 : i \in T PROVE j \in T
  <2>1. CASE j = 0
    <3>1. joined[n] = joined[n] \o <<>>
      BY <1>2, <1>3, <1>5
    <3>2. n - j = n
      BY <1>2, <2>1
    <3>3. QED BY <1>10, <3>1, <3>2
  <2>2. CASE j # 0
    <3>1. PICK k \in 1 .. n : k = n - (j - 1)
      <4>1. n - (j - 1) \in 1 .. n
        BY <1>2, <2>2
      <4>2. QED BY <4>1
    <3>2. /\ k - 1 = n - j /\ j - 1 \in 0 .. j - 1
          /\ k - 1 \in 0 .. n /\ k \in 0 .. n
      BY <1>2, <2>2, <3>1
    <3>3. joined[n] = joined[k] \o rest[k]
      BY <1>13, <3>1, <3>2
    <3>4. joined[k] = joined[k - 1] \o seqs[k] /\ rest[k - 1] = seqs[k] \o rest[k]
      BY <1>2, <1>3, <1>11 DEF IsJoin
    <3>5. joined[k - 1] \in Q /\ rest[k] \in Q /\ seqs[k] \in Q
      BY <1>3, <1>4, <1>10, <3>2
    <3>6. joined[n] = joined[k - 1] \o rest[k - 1]
      <4>1. PICK a \in Q, b \in Q, c \in Q :
                a = joined[k - 1] /\ b = seqs[k] /\ c = rest[k]
        BY <3>5
      <4>2. joined[n] = (a \o b) \o c /\ rest[k - 1] = b \o c
        BY <3>3, <3>4, <4>1
      <4>3. (a \o b) \o c = a \o (b \o c)
        BY <1>5
      <4>4. QED BY <4>1, <4>2, <4>3
    <3>7. QED BY <3>2, <3>6
  <2>3. QED BY <2>1, <2>2
<1> HIDE DEF T
<1>14. \A j \in 0 .. n : j \in T
  BY <1>2, <1>13, RangeInduction
<1>15. ASSUME NEW k \in 0 .. n PROVE FlattenSeq(seqs) = joined[k] \o rest[k]
  <2>1. n - k \in T /\ n - (n - k) = k
    BY <1>2, <1>14
  <2>2. QED BY <1>3, <2>1 DEF T
<1>16. IsSplit(joined, rest, seqs)
  BY <1>2, <1>3, <1>12, <1>15 DEF IsSplit
<1>17. QED BY <1>1, <1>2, <1>3, <1>10, <1>16

-----------------------------------------------------------------------------
(* Texts *)

\* A text is a sequence of bytes.
LEMMA BytesAreBytes ==
    ASSUME NEW S, NEW chars \in Seq(S), \A i \in DOMAIN chars : IsCharacter(chars[i])
    PROVE  Bytes(chars) \in Seq(1 .. 255)
<1>1. PICK seqs : seqs = [i \in DOMAIN chars |-> chars[i].bytes]
  OBVIOUS
<1>2. \A i \in DOMAIN chars : chars[i].bytes \in Seq(1 .. 255)
  <2>1. ASSUME NEW i \in DOMAIN chars PROVE chars[i].bytes \in Seq(1 .. 255)
    <3>1. PICK ch : ch = chars[i]
      OBVIOUS
    <3>2. IsCharacter(ch)
      BY <3>1
    <3>3. QED BY <3>1, <3>2 DEF IsCharacter
  <2>2. QED BY <2>1
<1>3. DOMAIN chars = 1 .. Len(chars) /\ Len(chars) \in Nat
  OBVIOUS
<1>4. seqs \in Seq(Seq(1 .. 255))
  BY <1>1, <1>2, <1>3
<1>5. QED BY <1>1, <1>4, FlattenTypes DEF Bytes

-----------------------------------------------------------------------------
(* Items *)

\* An item uses at least one byte and no more than there are.
LEMMA DecodeUses ==
    ASSUME NEW s \in Seq(1 .. 255), s # <<>> PROVE Decode(s).used \in 1 .. Len(s)
<1> DEFINE n == Len(s)
           first == Announced(s[1])
           good == {k \in 1 .. first.bytes : \A i \in 2 .. k : i <= n /\ IsContinuation(s[i])}
           cp == Codepoint(s, first)
<1>1. n \in Nat /\ n >= 1
  BY SMT
<1>2. first.bytes \in 0 .. 4
  BY DEF Announced
<1>3. Decode(s).used = IF first.bytes = 0 THEN 1
                       ELSE IF first.bytes \notin good THEN Cardinality(good)
                       ELSE first.bytes
  <2>1. Decode(s) =
            IF first.bytes = 0 THEN Broken(1)
            ELSE IF first.bytes \notin good THEN Broken(Cardinality(good))
            ELSE IF cp \in Surrogates \/ cp > MaxCodepoint THEN Broken(first.bytes)
            ELSE [cp |-> cp, used |-> first.bytes, valid |-> cp >= first.least]
    BY DEF Decode
  <2>2. \A k : Broken(k).used = k
    BY DEF Broken
  <2>3. PICK surrogate : surrogate = (cp \in Surrogates \/ cp > MaxCodepoint)
    OBVIOUS
  <2>4. PICK item : item = [cp |-> cp, used |-> first.bytes, valid |-> cp >= first.least]
    OBVIOUS
  <2>5. item.used = first.bytes
    BY <2>4
  <2> HIDE DEF first, good, cp, n
  <2>6. Decode(s) = IF first.bytes = 0 THEN Broken(1)
                    ELSE IF first.bytes \notin good THEN Broken(Cardinality(good))
                    ELSE IF surrogate THEN Broken(first.bytes) ELSE item
    BY <2>1, <2>3, <2>4
  <2>7. QED BY <2>2, <2>5, <2>6
<1> HIDE DEF first, n
<1>4. good \subseteq 1 .. n
  BY <1>1, <1>2
<1>5. Cardinality(good) \in 0 .. n /\ (1 \in good => Cardinality(good) \in 1 .. n)
  <2>1. IsFiniteSet(1 .. n) /\ Cardinality(1 .. n) = n
    BY <1>1, FS_Interval
  <2>2. IsFiniteSet(good) /\ Cardinality(good) <= n
    BY <1>4, <2>1, FS_Subset
  <2>3. Cardinality(good) \in Nat /\ (Cardinality(good) = 0 => good = {})
    BY <2>2, FS_CardinalityType, FS_EmptySet
  <2>4. QED BY <1>1, <2>2, <2>3
<1>6. first.bytes # 0 => 1 \in good
  BY <1>2
<1> HIDE DEF good
<1>7. first.bytes = 0 \/ first.bytes \in good \/ Cardinality(good) \in 1 .. n
  BY <1>5, <1>6
<1>8. Decode(s).used \in 1 .. n
  <2>1. CASE first.bytes = 0
    BY <1>1, <1>3, <2>1
  <2>2. CASE first.bytes # 0 /\ first.bytes \notin good
    BY <1>3, <1>7, <2>2
  <2>3. CASE first.bytes # 0 /\ first.bytes \in good
    BY <1>3, <1>4, <2>3
  <2>4. QED BY <2>1, <2>2, <2>3
<1>9. QED BY <1>8 DEF n

\* The rest of a text from one of its bytes on.
LEMMA SubTypes ==
    ASSUME NEW S, NEW s \in Seq(S), NEW i \in 1 .. Len(s)
    PROVE  /\ SubSeq(s, i, Len(s)) \in Seq(S)
           /\ Len(SubSeq(s, i, Len(s))) = Len(s) + 1 - i
           /\ SubSeq(s, i, Len(s)) # <<>>
<1>1. Len(s) \in Nat
  OBVIOUS
<1>2. PICK q : q = SubSeq(s, i, Len(s))
  OBVIOUS
<1>3. q \in Seq(S) /\ Len(q) = Len(s) + 1 - i
  BY <1>1, <1>2
<1>4. Len(q) # 0
  BY <1>1, <1>3
<1>5. QED BY <1>2, <1>3, <1>4

Item == {Decode(s) : s \in Seq(1 .. 255) \ {<<>>}}

\* The item at a place of a text, and the items from each place on.
ItemAt(text, i) == Decode(SubSeq(text, i, Len(text)))

IsWalk(from, text) ==
    \A i \in 1 .. Len(text) + 1 :
        from[i] = IF i > Len(text) THEN <<>>
                  ELSE <<ItemAt(text, i)>> \o from[i + ItemAt(text, i).used]

\* An item ends within the text.
LEMMA ItemTypes ==
    ASSUME NEW text \in Seq(1 .. 255), NEW i \in 1 .. Len(text)
    PROVE  ItemAt(text, i) \in Item /\ ItemAt(text, i).used \in 1 .. Len(text) + 1 - i
<1>1. PICK s : s = SubSeq(text, i, Len(text))
  OBVIOUS
<1>2. s \in Seq(1 .. 255) /\ Len(s) = Len(text) + 1 - i /\ s # <<>>
  BY <1>1, SubTypes
<1>3. QED BY <1>1, <1>2, DecodeUses DEF Item, ItemAt

\* The walk over a text ends, since every item in it has at least one byte.
LEMMA ItemsWalk ==
    ASSUME NEW text \in Seq(1 .. 255)
    PROVE  \E from : IsWalk(from, text) /\ Items(text) = from[1]
<1> DEFINE n == Len(text)
           item(i) == ItemAt(text, i)
           Eq(f) == f = [i \in 1 .. n + 1 |-> IF i > n THEN <<>>
                                              ELSE <<item(i)>> \o f[i + item(i).used]]
           from == CHOOSE f : Eq(f)
<1>1. n \in Nat
  OBVIOUS
<1>2. Items(text) = from[1]
  BY DEF Items, ItemAt
<1>3. ASSUME NEW i \in 1 .. n PROVE item(i) \in Item /\ item(i).used \in 1 .. n + 1 - i
  BY ItemTypes
<1> HIDE DEF item, n
<1>4. PICK Q : Q = Seq(Item)
  OBVIOUS
<1>5. /\ <<>> \in Q /\ Len(<<>>) = 0
      /\ \A e \in Item, q \in Q : /\ <<e>> \o q \in Q
                                  /\ Len(<<e>> \o q) = Len(q) + 1 /\ Len(q) \in Nat
  BY <1>4
<1> DEFINE prev == [j \in 1 .. n |-> j - item(n + 1 - j).used]
           step == [j \in 1 .. n |-> [q \in Q |-> <<item(n + 1 - j)>> \o q]]
<1>6. ASSUME NEW j \in 1 .. n
      PROVE  /\ prev[j] = j - item(n + 1 - j).used /\ prev[j] \in 0 .. j - 1
             /\ \A q \in Q : step[j][q] = <<item(n + 1 - j)>> \o q /\ step[j][q] \in Q
  <2>1. n + 1 - j \in 1 .. n
    BY <1>1
  <2>2. item(n + 1 - j).used \in 1 .. j /\ item(n + 1 - j) \in Item
    BY <1>1, <1>3, <2>1
  <2>3. QED BY <1>5, <2>2
<1> HIDE DEF prev, step
<1>7. PICK g \in [0 .. n -> Q] : IsRecursive(g, n, <<>>, prev, step)
  <2>1. Descends(n, prev) /\ Preserves(n, Q, step)
    BY <1>6 DEF Descends, Preserves
  <2>2. QED BY <1>1, <1>5, <2>1, RecursionExists
<1>8. PICK f : f = [i \in 1 .. n + 1 |-> g[n + 1 - i]]
  OBVIOUS
<1>9. ASSUME NEW i \in 1 .. n + 1
      PROVE  f[i] = IF i > n THEN <<>> ELSE <<item(i)>> \o f[i + item(i).used]
  <2>1. f[i] = g[n + 1 - i]
    BY <1>8
  <2>2. CASE i > n
    <3>1. n + 1 - i = 0
      BY <1>1, <2>2
    <3>2. QED BY <1>7, <2>1, <2>2, <3>1 DEF IsRecursive
  <2>3. CASE i <= n
    <3>1. PICK j : j = n + 1 - i
      OBVIOUS
    <3>2. j \in 1 .. n /\ n + 1 - j = i /\ i \in 1 .. n
      BY <1>1, <2>3, <3>1
    <3>3. prev[j] \in 0 .. j - 1 /\ prev[j] = j - item(i).used
      BY <1>6, <3>2
    <3>4. g[prev[j]] \in Q
      <4>1. prev[j] \in 0 .. n
        BY <1>1, <3>2, <3>3
      <4>2. QED BY <1>7, <4>1
    <3>5. g[j] = <<item(i)>> \o g[prev[j]]
      BY <1>6, <1>7, <3>2, <3>4 DEF IsRecursive
    <3>6. PICK k : k = i + item(i).used
      OBVIOUS
    <3>7. k \in 1 .. n + 1 /\ n + 1 - k = prev[j]
      BY <1>1, <1>3, <3>1, <3>2, <3>3, <3>6
    <3>8. f[k] = g[prev[j]]
      BY <1>8, <3>7
    <3>9. f[i] = <<item(i)>> \o f[k]
      BY <2>1, <3>1, <3>5, <3>8
    <3>10. ~(i > n)
      BY <1>1, <3>2
    <3>11. QED BY <3>6, <3>9, <3>10
  <2>4. QED BY <1>1, <2>2, <2>3
<1>10. Eq(f)
  BY <1>8, <1>9
<1>11. Eq(from)
  BY <1>10
<1> HIDE DEF from
<1>12. \A i \in 1 .. n + 1 :
           from[i] = IF i > n THEN <<>> ELSE <<item(i)>> \o from[i + item(i).used]
  BY <1>11
<1>13. QED BY <1>2, <1>12 DEF IsWalk, item, n

\* Every item of a text is one, and there are no more of them than bytes.
LEMMA ItemsTypes ==
    ASSUME NEW text \in Seq(1 .. 255)
    PROVE  Items(text) \in Seq(Item) /\ Len(Items(text)) <= Len(text)
<1> DEFINE n == Len(text)
           item(i) == ItemAt(text, i)
<1>1. n \in Nat
  OBVIOUS
<1>2. PICK from : IsWalk(from, text) /\ Items(text) = from[1]
  BY ItemsWalk
<1>3. ASSUME NEW i \in 1 .. n PROVE item(i) \in Item /\ item(i).used \in 1 .. n + 1 - i
  BY ItemTypes
<1> HIDE DEF item, n
<1>4. PICK Q : Q = Seq(Item)
  OBVIOUS
<1>5. /\ <<>> \in Q /\ Len(<<>>) = 0
      /\ \A e \in Item, q \in Q : /\ <<e>> \o q \in Q
                                  /\ Len(<<e>> \o q) = Len(q) + 1 /\ Len(q) \in Nat
  BY <1>4
<1>6. \A i \in 1 .. n + 1 :
           from[i] = IF i > n THEN <<>> ELSE <<item(i)>> \o from[i + item(i).used]
  BY <1>2 DEF IsWalk, item, n
<1> DEFINE T == {j \in 0 .. n : from[n + 1 - j] \in Q /\ Len(from[n + 1 - j]) <= j}
<1>7. ASSUME NEW j \in 0 .. n, \A m \in 0 .. j - 1 : m \in T PROVE j \in T
  <2>1. PICK i : i = n + 1 - j
    OBVIOUS
  <2>2. i \in 1 .. n + 1 /\ n + 1 - i = j
    BY <1>1, <2>1
  <2>3. CASE i > n
    <3>1. from[i] = <<>>
      BY <1>6, <2>2, <2>3
    <3>2. QED BY <1>5, <2>1, <2>2, <3>1
  <2>4. CASE i <= n
    <3>1. PICK u : u = item(i).used
      OBVIOUS
    <3>2. PICK k : k = i + u
      OBVIOUS
    <3>3. PICK m : m = n + 1 - k
      OBVIOUS
    <3>4. i \in 1 .. n /\ item(i) \in Item /\ u \in 1 .. j
      BY <1>1, <1>3, <2>1, <2>2, <2>4, <3>1
    <3>5. m \in 0 .. j - 1 /\ n + 1 - m = k /\ k \in 1 .. n + 1
      <4>1. j \in Int /\ u \in Int /\ i = n + 1 - j /\ k = i + u /\ m = n + 1 - k
        BY <2>1, <3>2, <3>3, <3>4
      <4>2. 1 <= u /\ u <= j /\ 0 <= j /\ j <= n
        BY <1>1, <3>4
      <4>3. m = j - u
        BY <1>1, <4>1
      <4>4. QED BY <1>1, <4>1, <4>2, <4>3
    <3>6. m \in T
      BY <1>7, <3>5
    <3>7. from[k] \in Q /\ Len(from[k]) <= m
      BY <3>5, <3>6
    <3>8. from[i] = <<item(i)>> \o from[k]
      <4>1. ~(i > n)
        BY <1>1, <2>2, <2>4
      <4>2. QED BY <1>6, <2>2, <3>1, <3>2, <4>1
    <3>9. from[i] \in Q /\ Len(from[i]) = Len(from[k]) + 1 /\ Len(from[k]) \in Nat
      BY <1>5, <3>4, <3>7, <3>8
    <3>10. Len(from[i]) <= j
      BY <3>5, <3>7, <3>9
    <3>11. QED BY <2>1, <3>9, <3>10
  <2>5. QED BY <1>1, <2>2, <2>3, <2>4
<1> HIDE DEF T
<1>8. \A j \in 0 .. n : j \in T
  BY <1>1, <1>7, RangeInduction
<1>9. n \in T
  BY <1>1, <1>8
<1>10. from[1] \in Q /\ Len(from[1]) <= n
  <2>1. n + 1 - n = 1
    BY <1>1
  <2>2. QED BY <1>9, <2>1 DEF T
<1>11. QED BY <1>2, <1>4, <1>10 DEF n

\* Bytes are numbers.
LEMMA BytesAreNumbers ==
    ASSUME NEW s \in Seq(1 .. 255) PROVE \A i \in 1 .. Len(s) : s[i] \in Nat
<1>1. PICK S : S = 1 .. 255
  OBVIOUS
<1>2. s \in Seq(S) /\ \A b \in S : b \in Nat
  BY <1>1
<1>3. \A i \in 1 .. Len(s) : s[i] \in S
  BY <1>2
<1>4. QED BY <1>2, <1>3

\* The bits of a sequence of at most four bytes: six more with each byte.
LEMMA CodepointBits ==
    ASSUME NEW s, NEW first, first.bytes \in 1 .. 4, NEW two, NEW three, NEW four,
           two = 64 * first.bits + (s[2] % 64), three = 64 * two + (s[3] % 64),
           four = 64 * three + (s[4] % 64)
    PROVE  /\ first.bytes = 1 => Codepoint(s, first) = first.bits
           /\ first.bytes = 2 => Codepoint(s, first) = two
           /\ first.bytes = 3 => Codepoint(s, first) = three
           /\ first.bytes = 4 => Codepoint(s, first) = four
<1>1. PICK n \in 1 .. 4 : n = first.bytes
  OBVIOUS
<1> DEFINE Eq(f) == f = [i \in 1 .. n |-> IF i = 1 THEN first.bits ELSE 64 * f[i - 1] + (s[i] % 64)]
           bits == CHOOSE f : Eq(f)
           one == first.bits
           g == [i \in 1 .. n |-> IF i = 1 THEN one ELSE IF i = 2 THEN two
                                  ELSE IF i = 3 THEN three ELSE four]
<1>2. Codepoint(s, first) = bits[n]
  BY <1>1 DEF Codepoint
<1>3. Eq(g)
  <2>1. ASSUME NEW i \in 1 .. n
        PROVE  g[i] = IF i = 1 THEN one ELSE 64 * g[i - 1] + (s[i] % 64)
    <3>1. i = 1 \/ i = 2 \/ i = 3 \/ i = 4
      OBVIOUS
    <3>2. /\ g[1] = one /\ (n >= 2 => g[2] = two) /\ (n >= 3 => g[3] = three)
          /\ (n >= 4 => g[4] = four)
      OBVIOUS
    <3> HIDE DEF one, g
    <3>3. CASE i = 1
      BY <3>2, <3>3
    <3>4. CASE i = 2
      BY <3>2, <3>4 DEF one
    <3>5. CASE i = 3
      BY <3>2, <3>5
    <3>6. CASE i = 4
      BY <3>2, <3>6
    <3>7. QED BY <3>1, <3>3, <3>4, <3>5, <3>6
  <2> HIDE DEF one, g
  <2>2. g = [i \in 1 .. n |-> g[i]]
    BY DEF g
  <2>3. QED BY <2>1, <2>2 DEF one
<1>4. Eq(bits)
  BY <1>3
<1> HIDE DEF bits
<1>5. \A i \in 1 .. n : bits[i] = IF i = 1 THEN one ELSE 64 * bits[i - 1] + (s[i] % 64)
  BY <1>4
<1> HIDE DEF one
<1>6. bits[1] = one
  BY <1>5
<1>7. n >= 2 => bits[2] = two
  <2>1. n >= 2 => bits[2] = 64 * bits[1] + (s[2] % 64)
    BY <1>5
  <2>2. QED BY <1>6, <2>1 DEF one
<1>8. n >= 3 => bits[3] = three
  <2>1. n >= 3 => bits[3] = 64 * bits[2] + (s[3] % 64)
    BY <1>5
  <2>2. QED BY <1>7, <2>1
<1>9. n >= 4 => bits[4] = four
  <2>1. n >= 4 => bits[4] = 64 * bits[3] + (s[4] % 64)
    BY <1>5
  <2>2. QED BY <1>8, <2>1
<1>10. QED BY <1>1, <1>2, <1>6, <1>7, <1>8, <1>9 DEF one

\* They are a number.
LEMMA CodepointIsNumber ==
    ASSUME NEW s \in Seq(1 .. 255), NEW first, first.bytes \in 1 .. 4, first.bytes <= Len(s),
           first.bits \in Nat
    PROVE  Codepoint(s, first) \in Nat
<1>1. PICK n \in 1 .. 4 : n = first.bytes
  OBVIOUS
<1>2. \A i \in 1 .. n : s[i] % 64 \in Nat
  <2>1. ASSUME NEW i \in 1 .. n PROVE s[i] \in Nat
    <3>1. i \in 1 .. Len(s)
      BY <1>1, SMT
    <3>2. QED BY <3>1, BytesAreNumbers
  <2>2. QED BY <2>1
<1>3. PICK two, three, four :
          /\ two = 64 * first.bits + (s[2] % 64) /\ three = 64 * two + (s[3] % 64)
          /\ four = 64 * three + (s[4] % 64)
  OBVIOUS
<1>4. /\ n = 1 => Codepoint(s, first) = first.bits
      /\ n = 2 => Codepoint(s, first) = two
      /\ n = 3 => Codepoint(s, first) = three
      /\ n = 4 => Codepoint(s, first) = four
  BY <1>1, <1>3, CodepointBits
<1>5. /\ n >= 2 => s[2] % 64 \in Nat
      /\ n >= 3 => s[3] % 64 \in Nat
      /\ n >= 4 => s[4] % 64 \in Nat
  BY <1>2
<1>6. \A a, t : a \in Nat /\ t \in Nat => 64 * a + t \in Nat
  OBVIOUS
<1>7. n >= 2 => two \in Nat
  BY <1>3, <1>5, <1>6
<1>8. n >= 3 => three \in Nat
  BY <1>3, <1>5, <1>6, <1>7
<1>9. n >= 4 => four \in Nat
  BY <1>3, <1>5, <1>6, <1>8
<1>10. n = 1 \/ n = 2 \/ n = 3 \/ n = 4
  OBVIOUS
<1>11. QED BY <1>4, <1>7, <1>8, <1>9, <1>10

\* The largest code point, for proofs in which its value matters.
LEMMA CodepointRange ==
    /\ MaxCodepoint \in Nat /\ Replacement \in Nat /\ MaxUnit \in Nat
    /\ Replacement <= MaxCodepoint /\ MaxCodepoint <= 1114111 /\ 65535 <= MaxUnit
BY SMT DEF MaxCodepoint, Replacement, MaxUnit

\* What the first byte announces is a number of bytes, and bits.
LEMMA AnnouncedTypes ==
    ASSUME NEW b \in Nat
    PROVE  Announced(b).bytes \in 0 .. 4 /\ Announced(b).bits \in Nat
<1>1. b % 32 \in Nat /\ b % 16 \in Nat /\ b % 8 \in Nat
  OBVIOUS
<1> DEFINE Right(a) == a.bytes \in 0 .. 4 /\ a.bits \in Nat
<1>2. \A n \in 0 .. 4, bits \in Nat :
          \A least : Right([bytes |-> n, bits |-> bits, least |-> least])
  OBVIOUS
<1>3. /\ Right([bytes |-> 1, bits |-> b, least |-> 0])
      /\ Right([bytes |-> 2, bits |-> b % 32, least |-> 128])
      /\ Right([bytes |-> 3, bits |-> b % 16, least |-> 2048])
      /\ Right([bytes |-> 4, bits |-> b % 8, least |-> 65536])
      /\ Right([bytes |-> 0, bits |-> 0, least |-> 0])
  BY <1>1, <1>2, SMT
<1> HIDE DEF Right
<1>4. Right(Announced(b))
  BY <1>3, SMT DEF Announced
<1>5. QED BY <1>4 DEF Right

\* Whatever the bytes, an item has a code point of Unicode.
LEMMA DecodesToUnicode ==
    ASSUME NEW s \in Seq(1 .. 255), s # <<>> PROVE Decode(s).cp \in 0 .. MaxCodepoint
<1> DEFINE n == Len(s)
           first == Announced(s[1])
           good == {k \in 1 .. first.bytes : \A i \in 2 .. k : i <= n /\ IsContinuation(s[i])}
           cp == Codepoint(s, first)
<1>1. n \in Nat /\ n >= 1 /\ s[1] \in Nat
  <2>1. n \in Nat /\ n >= 1
    BY SMT
  <2>2. 1 \in 1 .. n /\ \A i \in 1 .. n : s[i] \in Nat
    BY <2>1, BytesAreNumbers
  <2>3. QED BY <2>1, <2>2
<1>2. first.bytes \in 0 .. 4 /\ first.bits \in Nat
  BY <1>1, AnnouncedTypes
<1> HIDE DEF first
<1>3. first.bytes \in good => first.bytes \in 1 .. 4 /\ first.bytes <= n
  BY <1>1, <1>2
<1>4. first.bytes \in good => cp \in Nat
  BY <1>2, <1>3, CodepointIsNumber
<1>5. Decode(s) =
          IF first.bytes = 0 THEN Broken(1)
          ELSE IF first.bytes \notin good THEN Broken(Cardinality(good))
          ELSE IF cp \in Surrogates \/ cp > MaxCodepoint THEN Broken(first.bytes)
          ELSE [cp |-> cp, used |-> first.bytes, valid |-> cp >= first.least]
  BY DEF Decode, first
<1>6. \A k : Broken(k).cp \in 0 .. MaxCodepoint
  BY CodepointRange DEF Broken
<1>7. PICK item : item = [cp |-> cp, used |-> first.bytes, valid |-> cp >= first.least]
  OBVIOUS
<1>8. item.cp = cp
  BY <1>7
<1>9. PICK surrogate : surrogate = (cp \in Surrogates \/ cp > MaxCodepoint)
  OBVIOUS
<1>10. first.bytes \in good /\ ~surrogate => item.cp \in 0 .. MaxCodepoint
  <2>1. PICK k : k = cp
    OBVIOUS
  <2>2. first.bytes \in good /\ ~surrogate => k \in Nat /\ ~(k > MaxCodepoint)
    BY <1>4, <1>9, <2>1
  <2>3. QED BY <1>8, <2>1, <2>2, CodepointRange
<1> HIDE DEF good, cp
<1>11. Decode(s) = IF first.bytes = 0 THEN Broken(1)
                   ELSE IF first.bytes \notin good THEN Broken(Cardinality(good))
                   ELSE IF surrogate THEN Broken(first.bytes) ELSE item
  BY <1>5, <1>7, <1>9
<1>12. QED BY <1>6, <1>10, <1>11

-----------------------------------------------------------------------------
(* Bytes and code points *)

\* A sequence with all the bytes that were announced.
LEMMA DecodeWhole ==
    ASSUME NEW s \in Seq(1 .. 255), NEW first, first = Announced(s[1]),
           first.bytes \in 1 .. 4, first.bytes <= Len(s),
           \A i \in 2 .. first.bytes : IsContinuation(s[i])
    PROVE  Decode(s) =
               IF Codepoint(s, first) \in Surrogates \/ Codepoint(s, first) > MaxCodepoint
               THEN Broken(first.bytes)
               ELSE [cp |-> Codepoint(s, first), used |-> first.bytes,
                     valid |-> Codepoint(s, first) >= first.least]
<1> DEFINE good == {n \in 1 .. first.bytes : \A i \in 2 .. n : i <= Len(s) /\ IsContinuation(s[i])}
           cp == Codepoint(s, first)
<1>1. Decode(s) =
          IF first.bytes = 0 THEN Broken(1)
          ELSE IF first.bytes \notin good THEN Broken(Cardinality(good))
          ELSE IF cp \in Surrogates \/ cp > MaxCodepoint THEN Broken(first.bytes)
          ELSE [cp |-> cp, used |-> first.bytes, valid |-> cp >= first.least]
  BY DEF Decode
<1>2. Len(s) \in Nat
  BY LenProperties
<1>3. first.bytes \in good /\ first.bytes # 0
  BY <1>2
<1> HIDE DEF good, cp
<1>4. QED BY <1>1, <1>3 DEF cp

\* A sequence of which the bytes after the m-th are missing.
LEMMA DecodeCut ==
    ASSUME NEW s \in Seq(1 .. 255), Announced(s[1]).bytes \in 1 .. 4,
           NEW m \in Nat, m >= 1, m < Announced(s[1]).bytes, m <= Len(s),
           \A i \in 2 .. m : IsContinuation(s[i]),
           m < Len(s) => ~IsContinuation(s[m + 1])
    PROVE  Decode(s) = Broken(m)
<1> DEFINE first == Announced(s[1])
           good == {n \in 1 .. first.bytes : \A i \in 2 .. n : i <= Len(s) /\ IsContinuation(s[i])}
           cp == Codepoint(s, first)
<1>1. Decode(s) =
          IF first.bytes = 0 THEN Broken(1)
          ELSE IF first.bytes \notin good THEN Broken(Cardinality(good))
          ELSE IF cp \in Surrogates \/ cp > MaxCodepoint THEN Broken(first.bytes)
          ELSE [cp |-> cp, used |-> first.bytes, valid |-> cp >= first.least]
  BY DEF Decode
<1>2. Len(s) \in Nat
  BY LenProperties
<1> HIDE DEF first
<1>3. first.bytes \in 1 .. 4 /\ m < first.bytes
  BY DEF first
<1>4. good = 1 .. m
  <2>1. ASSUME NEW n \in 1 .. m PROVE n \in good
    BY <1>2, <1>3
  <2>2. ASSUME NEW n \in good PROVE n <= m
    <3>1. SUFFICES ASSUME n > m PROVE FALSE
      BY <1>3
    <3>2. m + 1 \in 2 .. n
      BY <1>3, <3>1
    <3>3. m + 1 <= Len(s) /\ IsContinuation(s[m + 1])
      BY <3>2
    <3>4. QED BY <1>2, <3>3
  <2>3. \A n \in good : n \in 1 .. m
    BY <1>3, <2>2
  <2> HIDE DEF good
  <2>4. QED BY <2>1, <2>3
<1>5. Cardinality(1 .. m) = m
  BY FS_Interval
<1> HIDE DEF good, cp
<1>6. first.bytes \notin good /\ first.bytes # 0
  BY <1>3, <1>4
<1>7. QED BY <1>1, <1>4, <1>5, <1>6

\* What the first bytes of UTF-8 announce.
LEMMA FirstBytes ==
    \A b \in Nat :
        /\ b < 128 => Announced(b) = [bytes |-> 1, bits |-> b, least |-> 0]
        /\ 192 <= b /\ b <= 223 =>
               Announced(b) = [bytes |-> 2, bits |-> b - 192, least |-> 128]
        /\ 224 <= b /\ b <= 239 =>
               Announced(b) = [bytes |-> 3, bits |-> b - 224, least |-> 2048]
        /\ 240 <= b /\ b <= 247 =>
               Announced(b) = [bytes |-> 4, bits |-> b - 240, least |-> 65536]
        /\ (128 <= b /\ b <= 191) \/ 248 <= b =>
               Announced(b) = [bytes |-> 0, bits |-> 0, least |-> 0]
<1> SUFFICES ASSUME NEW b \in Nat
             PROVE
        /\ b < 128 => Announced(b) = [bytes |-> 1, bits |-> b, least |-> 0]
        /\ 192 <= b /\ b <= 223 =>
               Announced(b) = [bytes |-> 2, bits |-> b - 192, least |-> 128]
        /\ 224 <= b /\ b <= 239 =>
               Announced(b) = [bytes |-> 3, bits |-> b - 224, least |-> 2048]
        /\ 240 <= b /\ b <= 247 =>
               Announced(b) = [bytes |-> 4, bits |-> b - 240, least |-> 65536]
        /\ (128 <= b /\ b <= 191) \/ 248 <= b =>
               Announced(b) = [bytes |-> 0, bits |-> 0, least |-> 0]
  OBVIOUS
<1>1. CASE b < 128
  <2>1. Announced(b) = [bytes |-> 1, bits |-> b, least |-> 0]
    BY <1>1 DEF Announced
  <2>2. QED BY <1>1, <2>1
<1>2. CASE 192 <= b /\ b <= 223
  <2>1. b \in 192 .. 223 /\ ~(b < 128) /\ b % 32 = b - 192
    BY <1>2
  <2>2. Announced(b) = [bytes |-> 2, bits |-> b % 32, least |-> 128]
    BY <2>1 DEF Announced
  <2>3. QED BY <1>2, <2>1, <2>2
<1>3. CASE 224 <= b /\ b <= 239
  <2>1. b \in 224 .. 239 /\ b \notin 192 .. 223 /\ ~(b < 128) /\ b % 16 = b - 224
    BY <1>3
  <2>2. Announced(b) = [bytes |-> 3, bits |-> b % 16, least |-> 2048]
    BY <2>1 DEF Announced
  <2>3. QED BY <1>3, <2>1, <2>2
<1>4. CASE 240 <= b /\ b <= 247
  <2>1. /\ b \in 240 .. 247 /\ b \notin 192 .. 223 /\ b \notin 224 .. 239 /\ ~(b < 128)
        /\ b % 8 = b - 240
    BY <1>4
  <2>2. Announced(b) = [bytes |-> 4, bits |-> b % 8, least |-> 65536]
    BY <2>1 DEF Announced
  <2>3. QED BY <1>4, <2>1, <2>2
<1>5. CASE (128 <= b /\ b <= 191) \/ 248 <= b
  <2>1. b \notin 192 .. 223 /\ b \notin 224 .. 239 /\ b \notin 240 .. 247 /\ ~(b < 128)
    BY <1>5
  <2>2. Announced(b) = [bytes |-> 0, bits |-> 0, least |-> 0]
    BY <2>1 DEF Announced
  <2>3. QED BY <1>5, <2>1, <2>2
<1>6. QED BY <1>1, <1>2, <1>3, <1>4, <1>5

\* The bytes that continue a sequence, and their bits.
LEMMA TrailBytes ==
    /\ \A b \in 1 .. 255 : IsContinuation(b) <=> b \in Trail
    /\ \A b \in Nat : 128 <= b /\ b <= 191 =>
                          b \in Trail /\ b % 64 = b - 128 /\ IsContinuation(b)
<1>1. \A b \in 1 .. 255 : IsContinuation(b) <=> b \in Trail
  BY DEF IsContinuation, Trail
<1>2. \A b \in Nat : 128 <= b /\ b <= 191 =>
                         b \in Trail /\ b % 64 = b - 128 /\ b \div 64 = 2
  BY DEF Trail
<1>3. QED BY <1>1, <1>2 DEF IsContinuation

\* The ranges of the code points, without their elements.
LEMMA Ranges ==
    /\ MaxCodepoint = 1114111 /\ MaxUnit = 65535 /\ Replacement = 65533
    /\ \A x : x \in Surrogates <=> x \in Nat /\ 55296 <= x /\ x <= 57343
    /\ \A x : x \in HighUnits <=> x \in Nat /\ 55296 <= x /\ x <= 56319
    /\ \A x : x \in LowUnits <=> x \in Nat /\ 56320 <= x /\ x <= 57343
    /\ \A x : x \in CodeUnit <=> x \in Nat /\ x <= 65535
<1>1. PICK a \in Nat, b \in Nat, c \in Nat, d \in Nat :
          a = 55296 /\ b = 57343 /\ c = 56319 /\ d = 56320
  BY SMT
<1>2. Surrogates = a .. b /\ HighUnits = a .. c /\ LowUnits = d .. b
  BY <1>1, SMT DEF Surrogates, HighUnits, LowUnits
<1>3. MaxCodepoint = 1114111 /\ MaxUnit = 65535 /\ Replacement = 65533
  BY SMT DEF MaxCodepoint, MaxUnit, Replacement
<1>4. PICK e \in Nat : e = MaxUnit /\ e = 65535
  BY <1>3, SMT
<1>5. CodeUnit = 0 .. e
  BY <1>4, SMT DEF CodeUnit
<1>6. /\ \A x : x \in a .. b <=> x \in Nat /\ a <= x /\ x <= b
      /\ \A x : x \in a .. c <=> x \in Nat /\ a <= x /\ x <= c
      /\ \A x : x \in d .. b <=> x \in Nat /\ d <= x /\ x <= b
      /\ \A x : x \in 0 .. e <=> x \in Nat /\ x <= e
  BY SMT
<1>7. /\ \A x : x \in Surrogates <=> x \in Nat /\ a <= x /\ x <= b
      /\ \A x : x \in HighUnits <=> x \in Nat /\ a <= x /\ x <= c
      /\ \A x : x \in LowUnits <=> x \in Nat /\ d <= x /\ x <= b
      /\ \A x : x \in CodeUnit <=> x \in Nat /\ x <= e
  BY <1>2, <1>5, <1>6, Zenon
<1>8. QED BY <1>1, <1>3, <1>4, <1>7, SMT

\* A code point, six bits at a time.
LEMMA SixBits ==
    ASSUME NEW cp \in Nat, cp < 2097152
    PROVE  /\ cp = 64 * (cp \div 64) + (cp % 64) /\ cp % 64 \in 0 .. 63
           /\ cp \div 64 = 64 * (cp \div 4096) + ((cp \div 64) % 64)
           /\ (cp \div 64) % 64 \in 0 .. 63
           /\ cp \div 4096 = 64 * (cp \div 262144) + ((cp \div 4096) % 64)
           /\ (cp \div 4096) % 64 \in 0 .. 63
           /\ cp \div 64 \in Nat /\ cp \div 4096 \in Nat /\ cp \div 262144 \in 0 .. 7
           /\ cp < 2048 => cp \div 64 \in 0 .. 31
           /\ cp < 65536 => cp \div 4096 \in 0 .. 15
<1>1. \A a \in Nat : a \div 64 \in Nat /\ a % 64 \in 0 .. 63 /\ a = 64 * (a \div 64) + (a % 64)
  BY SMT
<1>2. \A a \in Nat : a \div 4096 = (a \div 64) \div 64
  BY SMT
<1>3. \A a \in Nat : a \div 262144 = (a \div 4096) \div 64
  BY SMT
<1>4. cp \in Nat /\ cp \div 64 \in Nat /\ cp \div 4096 \in Nat /\ cp \div 262144 \in 0 .. 7
  BY SMT
<1>5. (cp < 2048 => cp \div 64 \in 0 .. 31) /\ (cp < 65536 => cp \div 4096 \in 0 .. 15)
  BY SMT
<1>6. PICK q1 \in Nat, q2 \in Nat, q3 \in Nat :
          q1 = cp \div 64 /\ q2 = cp \div 4096 /\ q3 = cp \div 262144
  BY <1>4, SMT
<1>7. cp = 64 * q1 + (cp % 64) /\ cp % 64 \in 0 .. 63
  BY <1>1, <1>6, SMT
<1>8. q1 = 64 * q2 + (q1 % 64) /\ q1 % 64 \in 0 .. 63
  BY <1>1, <1>2, <1>6, SMT
<1>9. q2 = 64 * q3 + (q2 % 64) /\ q2 % 64 \in 0 .. 63
  BY <1>1, <1>3, <1>6, SMT
<1>10. QED BY <1>4, <1>5, <1>6, <1>7, <1>8, <1>9, SMT

\* The units of a character, and its code point.
LEMMA ScalarRange ==
    ASSUME NEW ch, IsCharacter(ch), IsEncoded(ch)
    PROVE  /\ Scalar(ch.units) \in Nat /\ Scalar(ch.units) <= MaxCodepoint
           /\ Scalar(ch.units) \notin Surrogates
           /\ Units(Scalar(ch.units)) = ch.units
<1>1. PICK units : units = ch.units
  OBVIOUS
<1>2. units \in Seq(CodeUnit)
  BY <1>1 DEF IsCharacter
<1>3. CASE Len(units) = 1 /\ units[1] \notin Surrogates
  <2>1. PICK u \in Nat : u = units[1] /\ u <= 65535
    <3>1. units[1] \in CodeUnit
      BY <1>2, <1>3, ElementOfSeq
    <3>2. QED BY <3>1, Ranges, SMT
  <2>2. units = <<u>>
    BY <1>2, <1>3, <2>1, SMT
  <2>3. Scalar(units) = u
    BY <1>3, <2>1, SMT DEF Scalar
  <2>4. u \notin Surrogates /\ ~(u > MaxCodepoint) /\ u <= MaxUnit /\ u <= MaxCodepoint
    BY <1>3, <2>1, Ranges, SMT
  <2>5. Units(u) = <<u>>
    BY <2>4, SMT DEF Units
  <2>6. QED BY <1>1, <2>2, <2>3, <2>4, <2>5, SMT
<1>4. CASE Len(units) = 2 /\ units[1] \in HighUnits /\ units[2] \in LowUnits
  <2>1. PICK h, l : h = units[1] - 55296 /\ l = units[2] - 56320
    BY SMT
  <2>2. /\ h \in Nat /\ h <= 1023 /\ l \in Nat /\ l <= 1023
        /\ units[1] = 55296 + h /\ units[2] = 56320 + l
    <3>1. PICK a \in Nat, b \in Nat : a = units[1] /\ b = units[2]
      BY <1>4, Ranges, SMT
    <3>2. 55296 <= a /\ a <= 56319 /\ 56320 <= b /\ b <= 57343
      BY <1>4, <3>1, Ranges, SMT
    <3>3. QED BY <2>1, <3>1, <3>2, SMT
  <2>3. PICK cp \in Nat : cp = 65536 + 1024 * h + l /\ cp >= 65536 /\ cp <= 1114111
    <3>1. 65536 + 1024 * h + l \in Nat
      BY <2>2, SMT
    <3>2. 65536 + 1024 * h + l >= 65536 /\ 65536 + 1024 * h + l <= 1114111
      BY <2>2, SMT
    <3>3. QED BY <3>1, <3>2, SMT
  <2>4. Scalar(units) = cp
    <3>1. Scalar(units) = 65536 + 1024 * (units[1] - 55296) + (units[2] - 56320)
      BY <1>4, SMT DEF Scalar
    <3>2. QED BY <2>1, <2>3, <3>1, SMT
  <2>5. (cp - 65536) \div 1024 = h /\ (cp - 65536) % 1024 = l
    BY <2>2, <2>3, SMT
  <2>6. cp \notin Surrogates /\ ~(cp > MaxCodepoint) /\ ~(cp <= MaxUnit) /\ cp <= MaxCodepoint
    BY <2>3, Ranges, SMT
  <2>7. Units(cp) = <<55296 + h, 56320 + l>>
    <3>1. Units(cp) = <<55296 + (cp - 65536) \div 1024, 56320 + ((cp - 65536) % 1024)>>
      BY <2>6, SMT DEF Units
    <3>2. QED BY <2>5, <3>1, SMT
  <2>8. units = <<55296 + h, 56320 + l>>
    <3>1. units = <<units[1], units[2]>>
      BY <1>2, <1>4, SMT
    <3>2. QED BY <2>2, <3>1, SMT
  <2>9. QED BY <1>1, <2>3, <2>4, <2>6, <2>7, <2>8, SMT
<1>5. QED BY <1>1, <1>3, <1>4 DEF IsEncoded

\* s begins with b.
Begins(s, b) == Len(b) <= Len(s) /\ \A i \in 1 .. Len(b) : s[i] = b[i]

\* The forms of UTF-8.
LEMMA Utf8Cases ==
    ASSUME NEW cp \in Nat
    PROVE  /\ cp < 128 => Utf8(cp) = <<cp>>
           /\ 128 <= cp /\ cp < 2048 => Utf8(cp) = <<192 + cp \div 64, 128 + (cp % 64)>>
           /\ 2048 <= cp /\ cp < 65536 =>
                 Utf8(cp) = <<224 + cp \div 4096, 128 + ((cp \div 64) % 64), 128 + (cp % 64)>>
           /\ 65536 <= cp =>
                 Utf8(cp) = <<240 + cp \div 262144, 128 + ((cp \div 4096) % 64),
                              128 + ((cp \div 64) % 64), 128 + (cp % 64)>>
<1> DEFINE one == <<cp>>
           two == <<192 + cp \div 64, 128 + (cp % 64)>>
           three == <<224 + cp \div 4096, 128 + ((cp \div 64) % 64), 128 + (cp % 64)>>
           four == <<240 + cp \div 262144, 128 + ((cp \div 4096) % 64),
                              128 + ((cp \div 64) % 64), 128 + (cp % 64)>>
<1>1. Utf8(cp) = CASE cp < 128 -> one [] 128 <= cp /\ cp < 2048 -> two
                   [] 2048 <= cp /\ cp < 65536 -> three [] 65536 <= cp -> four
  BY SMT DEF Utf8
<1> HIDE DEF one, two, three, four
<1>2. cp < 128 => Utf8(cp) = one
  BY <1>1, SMT
<1>3. 128 <= cp /\ cp < 2048 => Utf8(cp) = two
  BY <1>1, SMT
<1>4. 2048 <= cp /\ cp < 65536 => Utf8(cp) = three
  BY <1>1, SMT
<1>5. 65536 <= cp => Utf8(cp) = four
  BY <1>1, SMT
<1>6. QED BY <1>2, <1>3, <1>4, <1>5, SMT DEF one, two, three, four

\* UTF-8 is decoded to the code point it encodes.
LEMMA DecodeUtf8 ==
    ASSUME NEW cp \in Nat, cp <= MaxCodepoint, cp \notin Surrogates,
           NEW s \in Seq(1 .. 255), Begins(s, Utf8(cp))
    PROVE  Decode(s) = [cp |-> cp, used |-> Len(Utf8(cp)), valid |-> TRUE]
<1> DEFINE first == Announced(s[1])
           two == 64 * first.bits + (s[2] % 64)
           three == 64 * two + (s[3] % 64)
           four == 64 * three + (s[4] % 64)
<1>1. PICK b : b = Utf8(cp)
  BY SMT
<1>2. Len(s) \in Nat
  BY LenProperties, SMT
<1>3. cp \notin Surrogates /\ ~(cp > MaxCodepoint)
  BY SMT, Ranges
<1>4. ASSUME first.bytes \in 1 .. 4, first.bytes = Len(b),
             \A i \in 2 .. first.bytes : IsContinuation(s[i]),
             Codepoint(s, first) = cp, cp >= first.least
      PROVE  Decode(s) = [cp |-> cp, used |-> Len(b), valid |-> TRUE]
  <2>1. first.bytes <= Len(s)
    BY <1>1, <1>4, SMT DEF Begins
  <2>2. Decode(s) = IF Codepoint(s, first) \in Surrogates \/ Codepoint(s, first) > MaxCodepoint
                    THEN Broken(first.bytes)
                    ELSE [cp |-> Codepoint(s, first), used |-> first.bytes,
                          valid |-> Codepoint(s, first) >= first.least]
    BY <1>4, <2>1, DecodeWhole, Zenon
  <2>3. Decode(s) = [cp |-> cp, used |-> first.bytes, valid |-> cp >= first.least]
    BY <1>3, <1>4, <2>2, Zenon
  <2>4. (cp >= first.least) = TRUE
    BY <1>4
  <2>5. QED BY <1>4, <2>3, <2>4, Zenon
<1>5. /\ first.bytes = 1 => Codepoint(s, first) = first.bits
      /\ first.bytes = 2 => Codepoint(s, first) = two
      /\ first.bytes = 3 => Codepoint(s, first) = three
      /\ first.bytes = 4 => Codepoint(s, first) = four
  <2>1. first.bytes \notin 1 .. 4 \/ first.bytes \in 1 .. 4
    BY SMT
  <2>2. first.bytes \in 1 .. 4 => /\ first.bytes = 1 => Codepoint(s, first) = first.bits
                                  /\ first.bytes = 2 => Codepoint(s, first) = two
                                  /\ first.bytes = 3 => Codepoint(s, first) = three
                                  /\ first.bytes = 4 => Codepoint(s, first) = four
    BY CodepointBits, SMT
  <2> HIDE DEF first, two, three, four
  <2>3. QED BY <2>1, <2>2, SMT
<1> HIDE DEF first
<1>6. PICK r0, r1, r2, q1, q2, q3 :
          /\ r0 = cp % 64 /\ r1 = (cp \div 64) % 64 /\ r2 = (cp \div 4096) % 64
          /\ q1 = cp \div 64 /\ q2 = cp \div 4096 /\ q3 = cp \div 262144
  BY SMT
<1>7. /\ cp = 64 * q1 + r0 /\ q1 = 64 * q2 + r1 /\ q2 = 64 * q3 + r2
      /\ r0 \in 0 .. 63 /\ r1 \in 0 .. 63 /\ r2 \in 0 .. 63
      /\ q1 \in Nat /\ q2 \in Nat /\ q3 \in 0 .. 7
      /\ (cp < 2048 => q1 \in 0 .. 31) /\ (cp < 65536 => q2 \in 0 .. 15)
  <2>1. cp < 2097152
    BY Ranges, SMT
  <2>2. QED BY <1>6, <2>1, SixBits, SMT
<1>8. r0 \in 0 .. 63 /\ r1 \in 0 .. 63 /\ r2 \in 0 .. 63
  BY <1>7, SMT
<1>9. \A i \in 1 .. Len(b) : s[i] = b[i]
  BY <1>1, SMT DEF Begins
<1>10. \A r, t : r \in 0 .. 63 /\ t = 128 + r => t % 64 = r /\ IsContinuation(t)
  <2>1. ASSUME NEW r \in 0 .. 63, NEW t, t = 128 + r PROVE t % 64 = r /\ IsContinuation(t)
    <3>1. t \in Nat /\ 128 <= t /\ t <= 191 /\ t - 128 = r
      BY <2>1, SMT
    <3>2. t % 64 = t - 128 /\ IsContinuation(t)
      BY <3>1, TrailBytes, Zenon
    <3>3. QED BY <3>1, <3>2, SMT
  <2>2. QED BY <2>1, Zenon
<1>11. CASE cp < 128
  <2>1. b = <<cp>>
    BY <1>1, <1>11, Utf8Cases, SMT
  <2>2. s[1] = cp /\ Len(b) = 1
    BY <1>9, <2>1, SMT
  <2>3. first = [bytes |-> 1, bits |-> cp, least |-> 0]
    BY <1>11, <2>2, FirstBytes, SMT DEF first
  <2>4. first.bytes = 1 /\ first.bits = cp /\ first.least = 0
    BY <2>3, SMT
  <2>5. QED BY <1>1, <1>4, <1>5, <1>11, <2>2, <2>4, SMT
<1>12. CASE 128 <= cp /\ cp < 2048
  <2>1. b = <<192 + q1, 128 + r0>>
    BY <1>1, <1>6, <1>12, Utf8Cases, SMT
  <2>2. s[1] = 192 + q1 /\ s[2] = 128 + r0 /\ Len(b) = 2
    BY <1>9, <2>1, SMT
  <2>3. first = [bytes |-> 2, bits |-> q1, least |-> 128]
    BY <1>7, <1>12, <2>2, FirstBytes, SMT DEF first
  <2>4. first.bytes = 2 /\ first.bits = q1 /\ first.least = 128
    BY <2>3, SMT
  <2>5. s[2] % 64 = r0 /\ IsContinuation(s[2])
    BY <1>10, <1>8, <2>2, Zenon
  <2>6. two = cp
    BY <1>7, <2>4, <2>5, SMT
  <2>7. \A i \in 2 .. 2 : IsContinuation(s[i])
    BY <2>5, SMT
  <2>8. QED BY <1>1, <1>4, <1>5, <1>12, <2>2, <2>4, <2>6, <2>7, SMT
<1>13. CASE 2048 <= cp /\ cp < 65536
  <2>1. b = <<224 + q2, 128 + r1, 128 + r0>>
    BY <1>1, <1>6, <1>13, Utf8Cases, SMT
  <2>2. s[1] = 224 + q2 /\ s[2] = 128 + r1 /\ s[3] = 128 + r0 /\ Len(b) = 3
    BY <1>9, <2>1, SMT
  <2>3. first = [bytes |-> 3, bits |-> q2, least |-> 2048]
    BY <1>7, <1>13, <2>2, FirstBytes, SMT DEF first
  <2>4. first.bytes = 3 /\ first.bits = q2 /\ first.least = 2048
    BY <2>3, SMT
  <2>5. /\ s[2] % 64 = r1 /\ IsContinuation(s[2])
        /\ s[3] % 64 = r0 /\ IsContinuation(s[3])
    BY <1>10, <1>8, <2>2, Zenon
  <2>6. three = cp
    BY <1>7, <2>4, <2>5, SMT
  <2>7. \A i \in 2 .. 3 : IsContinuation(s[i])
    <3>1. \A i \in 2 .. 3 : i = 2 \/ i = 3
      BY SMT
    <3>2. QED BY <2>5, <3>1, SMT
  <2>8. QED BY <1>1, <1>4, <1>5, <1>13, <2>2, <2>4, <2>6, <2>7, SMT
<1>14. CASE 65536 <= cp
  <2>1. b = <<240 + q3, 128 + r2, 128 + r1, 128 + r0>>
    BY <1>1, <1>6, <1>14, Utf8Cases, SMT
  <2>2. s[1] = 240 + q3 /\ s[2] = 128 + r2 /\ s[3] = 128 + r1 /\ s[4] = 128 + r0 /\ Len(b) = 4
    BY <1>9, <2>1, SMT
  <2>3. first = [bytes |-> 4, bits |-> q3, least |-> 65536]
    BY <1>7, <1>14, <2>2, FirstBytes, SMT DEF first
  <2>4. first.bytes = 4 /\ first.bits = q3 /\ first.least = 65536
    BY <2>3, SMT
  <2>5. /\ s[2] % 64 = r2 /\ IsContinuation(s[2])
        /\ s[3] % 64 = r1 /\ IsContinuation(s[3])
        /\ s[4] % 64 = r0 /\ IsContinuation(s[4])
    BY <1>10, <1>8, <2>2, Zenon
  <2>6. four = cp
    BY <1>7, <2>4, <2>5, SMT
  <2>7. \A i \in 2 .. 4 : IsContinuation(s[i])
    <3>1. \A i \in 2 .. 4 : i = 2 \/ i = 3 \/ i = 4
      BY SMT
    <3>2. QED BY <2>5, <3>1, SMT
  <2>8. QED BY <1>1, <1>4, <1>5, <1>14, <2>2, <2>4, <2>6, <2>7, SMT
<1>15. QED BY <1>1, <1>11, <1>12, <1>13, <1>14, SMT

-----------------------------------------------------------------------------
(* Conversion to UTF-16 *)

\* A code point is one unit or two.
LEMMA UnitsTypes ==
    ASSUME NEW codepoint \in 0 .. MaxCodepoint PROVE Units(codepoint) \in Seq(CodeUnit)
<1> DEFINE cp == IF codepoint \in Surrogates \/ codepoint > MaxCodepoint THEN Replacement
                                                                      ELSE codepoint
           high == (cp - 65536) \div 1024
           low == (cp - 65536) % 1024
           a == 55296 + high
           b == 56320 + low
           fits == cp <= MaxUnit
<1>1. cp \in Nat /\ cp <= 1114111
  BY CodepointRange, SMT
<1>2. Units(codepoint) = IF fits THEN <<cp>> ELSE <<a, b>>
  BY SMT DEF Units
<1> HIDE DEF cp
<1>3. fits => cp \in CodeUnit
  BY <1>1, CodepointRange, SMT DEF CodeUnit
<1>4. ~fits => a \in CodeUnit /\ b \in CodeUnit
  <2>1. SUFFICES ASSUME ~fits PROVE a \in CodeUnit /\ b \in CodeUnit
    OBVIOUS
  <2>2. cp - 65536 \in Nat /\ cp - 65536 <= 1048575
    BY <1>1, <2>1, CodepointRange, SMT
  <2>3. high \in 0 .. 1023 /\ low \in 0 .. 1023
    <3>1. PICK rest : rest = cp - 65536
      OBVIOUS
    <3>2. rest \in Nat /\ rest <= 1048575
      BY <2>2, <3>1
    <3>3. /\ rest = 1024 * (rest \div 1024) + (rest % 1024) /\ rest % 1024 \in 0 .. 1023
          /\ rest \div 1024 \in Int
      BY <3>2, SMT
    <3>4. rest \div 1024 \in 0 .. 1023 /\ rest % 1024 \in 0 .. 1023
      BY <3>2, <3>3, SMT
    <3>5. QED BY <3>1, <3>4
  <2> HIDE DEF high, low
  <2>4. a \in Nat /\ a <= 57343 /\ b \in Nat /\ b <= 57343
    BY <2>3, SMT
  <2> HIDE DEF a, b
  <2>5. QED BY <2>4, CodepointRange, SMT DEF CodeUnit
<1> HIDE DEF a, b, fits
<1>5. CASE fits
  <2>1. <<cp>> \in Seq(CodeUnit)
    BY <1>3, <1>5
  <2>2. QED BY <1>2, <1>5, <2>1
<1>6. CASE ~fits
  <2>1. <<a, b>> \in Seq(CodeUnit)
    BY <1>4, <1>6
  <2>2. QED BY <1>2, <1>6, <2>1
<1>7. QED BY <1>5, <1>6

\* The units of a text.
LEMMA Utf16Types ==
    ASSUME NEW items \in Seq(Item) PROVE Utf16(items) \in Seq(CodeUnit)
<1>1. PICK seqs : seqs = [i \in DOMAIN items |-> Units(items[i].cp)]
  OBVIOUS
<1>2. DOMAIN items = 1 .. Len(items) /\ Len(items) \in Nat
  OBVIOUS
<1>3. ASSUME NEW i \in DOMAIN items PROVE Units(items[i].cp) \in Seq(CodeUnit)
  <2>1. PICK item : item = items[i]
    OBVIOUS
  <2>2. item \in Item
    BY <2>1
  <2>3. PICK s \in Seq(1 .. 255) : s # <<>> /\ item = Decode(s)
    BY <2>2 DEF Item
  <2>4. item.cp \in 0 .. MaxCodepoint
    BY <2>3, DecodesToUnicode
  <2>5. QED BY <2>1, <2>4, UnitsTypes
<1>4. seqs \in Seq(Seq(CodeUnit))
  BY <1>1, <1>2, <1>3
<1>5. QED BY <1>1, <1>4, FlattenTypes DEF Utf16

\* A loop ends with an item done or behind the last.
LEMMA StoppedTypes ==
    ASSUME NEW S, NEW items \in Seq(S), NEW done \in 0 .. Len(items),
           NEW refused \in SUBSET (done + 1 .. Len(items)),
           NEW full \in SUBSET (done + 1 .. Len(items)), NEW first \in BOOLEAN
    PROVE  Stopped(items, refused, full, first).done \in done .. Len(items)
<1>1. PICK n \in Nat : n = Len(items)
  OBVIOUS
<1> DEFINE ends == refused \cup full \cup {n + 1}
           least(i) == \A j \in refused \cup full : i <= j
           stop == CHOOSE i \in ends : least(i)
<1>2. ends \in SUBSET Nat /\ ends # {} /\ \A i \in ends : i \in done + 1 .. n + 1
  <2>1. done \in Nat /\ done <= n
    BY <1>1
  <2>2. \A i \in ends : i \in done + 1 .. n + 1
    BY <1>1, <2>1
  <2>3. QED BY <2>1, <2>2
<1>3. \E i \in ends : least(i)
  <2>1. PICK i \in ends : \A j \in ends : i <= j
    BY <1>2, LeastExists
  <2>2. QED BY <2>1
<1>4. stop \in ends
  BY <1>3
<1>5. Stopped(items, refused, full, first).done = stop - 1
  BY <1>1 DEF Stopped
<1> HIDE DEF stop, ends
<1>6. QED BY <1>1, <1>2, <1>4, <1>5

\* So does that of the conversion to UTF-16.
LEMMA Utf16LoopTypes ==
    ASSUME NEW S, NEW items \in Seq(S), NEW done \in 0 .. Len(items), NEW room,
           NEW lossy \in BOOLEAN
    PROVE  Utf16Loop(items, done, room, lossy).done \in done .. Len(items)
<1>1. PICK refused : refused = {i \in done + 1 .. Len(items) : ~lossy /\ ~items[i].valid}
  OBVIOUS
<1>2. PICK full : full = {i \in done + 1 .. Len(items) :
                             UnitCount(items, i) - UnitCount(items, done) > room}
  OBVIOUS
<1>3. /\ refused \in SUBSET (done + 1 .. Len(items)) /\ full \in SUBSET (done + 1 .. Len(items))
      /\ Utf16Loop(items, done, room, lossy) = Stopped(items, refused, full, FALSE)
  BY <1>1, <1>2 DEF Utf16Loop
<1>4. QED BY <1>3, StoppedTypes

\* What the callback is given: so many of the items, and where they end in a
\* buffer of so many places.
LEMMA WithUtf16Types ==
    ASSUME NEW text \in Seq(1 .. 255), NEW lossy \in BOOLEAN, NEW truncate \in BOOLEAN,
           NEW memory \in BOOLEAN
    PROVE  LET call == WithUtf16(text, lossy, truncate, memory) IN
           call.done \in 0 .. Len(Items(text)) /\ call.end \in Nat /\ call.size \in Nat
<1>1. PICK items \in Seq(Item) : items = Items(text)
  BY ItemsTypes
<1>2. PICK n, no_limit : n \in Nat /\ n = Len(items) /\ no_limit = 2 * Len(text)
  BY <1>1
<1> DEFINE loop(done, r) == Utf16Loop(items, done, r, lossy)
           total(k) == UnitCount(items, k)
           first == loop(0, StackSize)
           count == loop(first.done, no_limit)
           size == total(count.done) + 1
           rest == loop(first.done, size - total(first.done) - 1)
           call == WithUtf16(text, lossy, truncate, memory)
<1>3. call =
          IF first.status = "OK" THEN Given(first.done, total(first.done), StackSize)
          ELSE IF first.status # "INSUFFICIENT_BUFFER" THEN Refused(first.status)
          ELSE IF count.status # "OK" THEN Refused(count.status)
          ELSE IF memory /\ rest.status = "OK" THEN Given(rest.done, total(rest.done), size)
          ELSE IF memory THEN Refused(rest.status)
          ELSE IF truncate THEN Given(first.done, total(first.done), StackSize)
          ELSE Refused("OUT_OF_MEMORY")
  BY <1>1, <1>2 DEF WithUtf16, With
<1>4. \A k \in 0 .. n : total(k) \in Nat
  <2>1. ASSUME NEW k \in 0 .. n PROVE total(k) \in Nat
    <3>1. PICK prefix : prefix = SubSeq(items, 1, k)
      OBVIOUS
    <3>2. prefix \in Seq(Item)
      BY <1>2, <3>1
    <3>3. PICK units \in Seq(CodeUnit) : units = Utf16(prefix)
      BY <3>2, Utf16Types
    <3>4. QED BY <3>1, <3>3 DEF UnitCount
  <2>2. QED BY <2>1
<1>5. \A done \in 0 .. n : \A r : loop(done, r).done \in done .. n
  BY <1>2, Utf16LoopTypes
<1> HIDE DEF call, loop, total
<1>6. first.done \in 0 .. n
  BY <1>2, <1>5
<1> HIDE DEF first
<1>7. count.done \in 0 .. n /\ rest.done \in 0 .. n
  BY <1>2, <1>5, <1>6
<1> HIDE DEF count, rest
<1>8. size \in Nat /\ StackSize \in Nat
  BY <1>4, <1>7, StackAssumption
<1> HIDE DEF size
<1> DEFINE Fits(c) == c.done \in 0 .. n /\ c.end \in Nat /\ c.size \in Nat
<1>9. \A status : Fits(Refused(status))
  BY <1>2, <1>8 DEF Refused
<1>10. \A k \in 0 .. n, end \in Nat, places \in Nat : Fits(Given(k, end, places))
  BY DEF Given
<1>11. /\ Fits(Given(first.done, total(first.done), StackSize))
       /\ Fits(Given(rest.done, total(rest.done), size))
  BY <1>4, <1>6, <1>7, <1>8, <1>10
<1> HIDE DEF Fits
<1>12. Fits(call)
  BY <1>3, <1>9, <1>11
<1>13. QED BY <1>1, <1>2, <1>12 DEF Fits, call

-----------------------------------------------------------------------------
(* Conversion to Latin-1 *)

\* A lossy pass refuses nothing: it takes what there is room for.
LEMMA LossyLatin1 ==
    ASSUME NEW S, NEW items \in Seq(S), NEW done \in 0 .. Len(items), NEW room \in Nat
    PROVE  Latin1Loop(items, done, room, TRUE) =
               IF Len(items) <= done + room
               THEN [done |-> Len(items), status |-> "OK"]
               ELSE [done |-> done + room, status |-> "INSUFFICIENT_BUFFER"]
<1>1. PICK n \in Nat : n = Len(items)
  OBVIOUS
<1> DEFINE full == {i \in done + 1 .. n : i > done + room}
           least(i) == \A j \in {} \cup full : i <= j
           stop == CHOOSE i \in {} \cup full \cup {n + 1} : least(i)
<1>2. {i \in done + 1 .. n : ~TRUE /\ ~IsLatin1(items[i])} = {}
  OBVIOUS
<1>3. Latin1Loop(items, done, room, TRUE) =
          [done |-> stop - 1,
           status |-> CASE stop > n -> "OK"
                        [] stop \in full /\ (TRUE \/ stop \notin {}) -> "INSUFFICIENT_BUFFER"
                        [] OTHER -> "INVALID_STRING_ENCODING"]
  BY <1>1, <1>2 DEF Latin1Loop, Stopped
<1>4. CASE n <= done + room
  <2>1. full = {}
    BY <1>4
  <2>2. stop = n + 1
    BY <2>1
  <2> HIDE DEF stop, full
  <2>3. stop > n /\ stop - 1 = n
    BY <2>2
  <2>4. QED BY <1>1, <1>3, <1>4, <2>1, <2>3
<1>5. CASE ~(n <= done + room)
  <2>1. done \in Nat /\ done + room + 1 \in full
    BY <1>1, <1>5
  <2>2. \A j \in full : done + room + 1 <= j
    BY <1>1, <2>1
  <2>3. \E i \in {} \cup full \cup {n + 1} : least(i)
    BY <2>1, <2>2
  <2>4. stop \in {} \cup full \cup {n + 1} /\ least(stop)
    BY <2>3
  <2> HIDE DEF stop
  <2>5. stop <= done + room + 1 /\ stop \in full \cup {n + 1}
    BY <2>1, <2>4
  <2>6. stop = done + room + 1
    BY <1>1, <1>5, <2>1, <2>2, <2>5
  <2>7. ~(stop > n) /\ stop \in full /\ stop - 1 = done + room
    BY <1>1, <1>5, <2>1, <2>6
  <2> HIDE DEF full
  <2>8. QED BY <1>1, <1>3, <1>5, <2>7
<1>6. QED BY <1>4, <1>5

\* What a lossy conversion gives its callback: all of the items, in the buffer on
\* the stack or one on the heap; or what the first holds, or nothing.
LEMMA LossyLatin1Call ==
    ASSUME NEW text \in Seq(1 .. 255), NEW truncate \in BOOLEAN, NEW memory \in BOOLEAN,
           NEW n, n = Len(Items(text))
    PROVE  WithLatin1(text, TRUE, truncate, memory) =
               IF n < StackSize THEN Given(n, n, StackSize)
               ELSE IF memory THEN Given(n, n, n + 1)
               ELSE IF truncate THEN Given(StackSize - 1, StackSize - 1, StackSize)
               ELSE Refused("OUT_OF_MEMORY")
<1>1. PICK items \in Seq(Item) : items = Items(text) /\ Len(items) <= Len(text)
  BY ItemsTypes
<1>2. n \in Nat /\ n = Len(items)
  BY <1>1
<1>3. PICK no_limit \in Nat : no_limit = Len(text) /\ n <= no_limit
  BY <1>1, <1>2
<1>4. PICK room \in Nat : room = StackSize - 1 /\ room < StackSize
  BY StackAssumption
<1> DEFINE loop(done, r) == Latin1Loop(items, done, r, TRUE)
           first == loop(0, room)
           count == loop(first.done, no_limit)
           size == count.done + 1
           rest == loop(first.done, size - first.done - 1)
           call == WithLatin1(text, TRUE, truncate, memory)
<1>5. call =
          IF first.status = "OK" THEN Given(first.done, first.done, StackSize)
          ELSE IF first.status # "INSUFFICIENT_BUFFER" THEN Refused(first.status)
          ELSE IF count.status # "OK" THEN Refused(count.status)
          ELSE IF memory /\ rest.status = "OK" THEN Given(rest.done, rest.done, size)
          ELSE IF memory THEN Refused(rest.status)
          ELSE IF truncate THEN Given(first.done, first.done, StackSize)
          ELSE Refused("OUT_OF_MEMORY")
  BY <1>1, <1>4, <1>3 DEF WithLatin1, With
<1> HIDE DEF call
<1>6. \A done \in 0 .. n, r \in Nat :
          loop(done, r) = IF n <= done + r THEN [done |-> n, status |-> "OK"]
                          ELSE [done |-> done + r, status |-> "INSUFFICIENT_BUFFER"]
  BY <1>1, <1>2, LossyLatin1
<1> HIDE DEF loop
<1>7. CASE n <= room
  <2>1. first = [done |-> n, status |-> "OK"]
    BY <1>2, <1>6, <1>7
  <2> HIDE DEF first, count, size, rest
  <2>2. call = Given(n, n, StackSize)
    BY <1>5, <2>1
  <2>3. n < StackSize
    BY <1>2, <1>4, <1>7, StackAssumption
  <2>4. QED BY <2>2, <2>3 DEF call
<1>8. CASE ~(n <= room)
  <2>1. first = [done |-> room, status |-> "INSUFFICIENT_BUFFER"]
    BY <1>2, <1>6, <1>8
  <2>2. first.done = room /\ first.status = "INSUFFICIENT_BUFFER" /\ room \in 0 .. n
    BY <1>4, <1>8, <2>1
  <2> HIDE DEF first
  <2>3. count = [done |-> n, status |-> "OK"]
    <3>1. loop(room, no_limit) = [done |-> n, status |-> "OK"]
      <4>1. n <= room + no_limit
        BY <1>2, <1>4, <1>3
      <4>2. QED BY <1>2, <1>6, <2>2, <4>1
    <3>2. QED BY <2>2, <3>1
  <2>4. count.done = n /\ count.status = "OK"
    BY <2>3
  <2> HIDE DEF count
  <2>5. size = n + 1 /\ size - first.done - 1 = n - room /\ n - room \in Nat
    BY <2>2, <2>4
  <2> HIDE DEF size
  <2>6. rest = [done |-> n, status |-> "OK"]
    <3>1. PICK r \in Nat : r = n - room /\ n <= room + r /\ room \in 0 .. n
      <4>1. n <= room + (n - room)
        BY <1>2
      <4>2. QED BY <2>2, <2>5, <4>1
    <3>2. loop(room, r) = [done |-> n, status |-> "OK"]
      BY <1>6, <3>1
    <3>3. size - first.done - 1 = r /\ first.done = room
      BY <2>2, <2>5, <3>1
    <3>4. QED BY <3>2, <3>3
  <2>7. rest.done = n /\ rest.status = "OK"
    BY <2>6
  <2> HIDE DEF rest
  <2>8. call = IF memory THEN Given(n, n, n + 1)
               ELSE IF truncate THEN Given(room, room, StackSize) ELSE Refused("OUT_OF_MEMORY")
    BY <1>5, <2>2, <2>4, <2>5, <2>7
  <2>9. ~(n < StackSize)
    BY <1>2, <1>4, <1>8, StackAssumption
  <2>10. QED BY <1>4, <2>8, <2>9 DEF call
<1>9. QED BY <1>7, <1>8

\* Whatever the title, whether the heap gives memory, and whether it is cut then:
\* the place of the terminator is inside the buffer the callback is given.
THEOREM Latin1Terminated ==
    ASSUME NEW text \in Seq(1 .. 255), NEW truncate \in BOOLEAN, NEW memory \in BOOLEAN,
           WithLatin1(text, TRUE, truncate, memory).status = "OK"
    PROVE  WithLatin1(text, TRUE, truncate, memory).end
               < WithLatin1(text, TRUE, truncate, memory).size
<1>1. PICK n \in Nat : n = Len(Items(text))
  BY ItemsTypes, LenProperties
<1>2. PICK call : call = WithLatin1(text, TRUE, truncate, memory)
  OBVIOUS
<1>3. call = IF n < StackSize THEN Given(n, n, StackSize)
             ELSE IF memory THEN Given(n, n, n + 1)
             ELSE IF truncate THEN Given(StackSize - 1, StackSize - 1, StackSize)
             ELSE Refused("OUT_OF_MEMORY")
  BY <1>1, <1>2, LossyLatin1Call
<1>4. /\ \A i, end, places : Given(i, end, places).end = end /\ Given(i, end, places).size = places
      /\ \A status : Refused(status).status = status
  BY DEF Given, Refused
<1>5. SUFFICES call.end < call.size
  BY <1>2
<1>6. call.status = "OK" /\ StackSize \in Nat \ {0}
  BY <1>2, StackAssumption
<1>7. CASE n < StackSize
  <2>1. call.end = n /\ call.size = StackSize
    BY <1>3, <1>4, <1>7
  <2>2. QED BY <1>7, <2>1
<1>8. CASE ~(n < StackSize) /\ memory
  <2>1. call.end = n /\ call.size = n + 1
    BY <1>3, <1>4, <1>8
  <2>2. QED BY <1>1, <2>1
<1>9. CASE ~(n < StackSize) /\ ~memory /\ truncate
  <2>1. call.end = StackSize - 1 /\ call.size = StackSize
    BY <1>3, <1>4, <1>9
  <2>2. QED BY <1>6, <2>1
<1>10. CASE ~(n < StackSize) /\ ~memory /\ ~truncate
  <2>1. call = Refused("OUT_OF_MEMORY")
    BY <1>3, <1>10
  <2>2. call.status = "OUT_OF_MEMORY"
    BY <1>4, <2>1
  <2>3. QED BY <1>6, <2>2
<1>11. QED BY <1>7, <1>8, <1>9, <1>10

\* A lossy conversion to Latin-1 that may be cut succeeds likewise, and gives its
\* callback the whole of the text, or what the buffer holds with a terminator.
THEOREM Latin1WholeOrCut ==
    ASSUME NEW text \in Seq(1 .. 255), NEW memory \in BOOLEAN
    PROVE  LET call == WithLatin1(text, TRUE, TRUE, memory)
           IN  /\ call.status = "OK"
               /\ WholeOrCut(Latin1(SubSeq(Items(text), 1, call.done), 63),
                             Latin1(Items(text), 63), {StackSize - 1})
<1>1. PICK items \in Seq(Item) : items = Items(text)
  BY ItemsTypes
<1>2. PICK n \in Nat : n = Len(items) /\ DOMAIN items = 1 .. n
  BY LenProperties
<1>3. PICK call : call = WithLatin1(text, TRUE, TRUE, memory)
  OBVIOUS
<1>4. PICK room \in Nat : room = StackSize - 1
  BY StackAssumption
<1>5. call = Given(n, n, StackSize) \/ call = Given(n, n, n + 1)
      \/ (~(n < StackSize) /\ call = Given(room, room, StackSize))
  BY <1>1, <1>2, <1>3, <1>4, LossyLatin1Call
<1>6. \A i, end, places : Given(i, end, places).done = i /\ Given(i, end, places).status = "OK"
  BY DEF Given
<1>7. call.status = "OK" /\ (call.done = n \/ (room < n /\ call.done = room))
  <2>1. PICK places : places = n + 1
    OBVIOUS
  <2>2. ~(n < StackSize) => room < n
    BY <1>2, <1>4, StackAssumption
  <2>3. QED BY <1>5, <1>6, <2>1, <2>2
<1>8. CASE call.done = n
  <2>1. SubSeq(items, 1, n) = items
    BY <1>2, SubSeqFull
  <2>2. QED BY <1>1, <1>3, <1>7, <1>8, <2>1 DEF WholeOrCut
<1>9. CASE room < n /\ call.done = room
  <2>1. PICK prefix : prefix = SubSeq(items, 1, room)
    OBVIOUS
  <2>2. /\ prefix \in Seq(Item) /\ Len(prefix) = room /\ DOMAIN prefix = 1 .. room
        /\ \A i \in 1 .. room : prefix[i] = items[i] /\ i \in 1 .. n
    <3>1. \A i \in 1 .. room : i \in 1 .. n
      BY <1>2, <1>4, <1>9
    <3>2. \A i \in 1 .. room : items[i] \in Item
      BY <1>2, <3>1, ElementOfSeq
    <3>3. /\ prefix \in Seq(Item) /\ Len(prefix) = (IF 1 <= room THEN room - 1 + 1 ELSE 0)
          /\ \A i \in 1 .. room - 1 + 1 : prefix[i] = items[1 + i - 1]
      BY <2>1, <3>2, SubSeqProperties
    <3>4. prefix \in Seq(Item) /\ Len(prefix) = room
      BY <3>3
    <3>5. DOMAIN prefix = 1 .. room
      BY <3>4, LenProperties
    <3>6. \A i \in 1 .. room : i \in 1 .. room - 1 + 1 /\ 1 + i - 1 = i
      OBVIOUS
    <3>7. QED BY <3>1, <3>3, <3>4, <3>5, <3>6
  <2>3. PICK got, wanted : got = Latin1(prefix, 63) /\ wanted = Latin1(items, 63)
    OBVIOUS
  <2>4. /\ got = [i \in 1 .. room |-> Latin1Char(prefix[i], 63)]
        /\ wanted = [i \in 1 .. n |-> Latin1Char(items[i], 63)]
    BY <1>2, <2>2, <2>3 DEF Latin1
  <2>5. PICK S : S = {Latin1Char(item, 63) : item \in Item}
    OBVIOUS
  <2>6. \A i \in 1 .. n : items[i] \in Item /\ Latin1Char(items[i], 63) \in S
    BY <1>2, <2>5, ElementOfSeq
  <2>7. wanted \in Seq(S) /\ Len(wanted) = n
    BY <2>4, <2>6
  <2>8. got \in Seq(S) /\ Len(got) = room /\ \A i \in 1 .. room : got[i] = wanted[i]
    <3>1. \A i \in 1 .. room : got[i] = wanted[i] /\ got[i] \in S
      BY <2>2, <2>4, <2>6
    <3>2. got = [i \in 1 .. room |-> got[i]]
      BY <2>4
    <3>3. got \in [1 .. room -> S]
      BY <3>1, <3>2
    <3>4. got \in Seq(S) /\ Len(got) = room
      BY <3>3
    <3>5. QED BY <3>1, <3>4
  <2>9. SubSeq(got, 1, room) = got
    BY <2>8, SubSeqFull
  <2>10. SubSeq(wanted, 1, room) = got
    <3>1. \A i \in 1 .. room : wanted[i] \in S
      BY <2>2, <2>4, <2>6
    <3>2. /\ SubSeq(wanted, 1, room) \in Seq(S)
          /\ Len(SubSeq(wanted, 1, room)) = IF 1 <= room THEN room - 1 + 1 ELSE 0
          /\ \A i \in 1 .. room - 1 + 1 : SubSeq(wanted, 1, room)[i] = wanted[1 + i - 1]
      BY <3>1, SubSeqProperties
    <3>3. PICK front \in Seq(S) : /\ front = SubSeq(wanted, 1, room) /\ Len(front) = room
                                  /\ \A i \in 1 .. room : front[i] = wanted[i]
      <4>1. PICK front : front = SubSeq(wanted, 1, room)
        OBVIOUS
      <4>2. /\ front \in Seq(S) /\ Len(front) = IF 1 <= room THEN room - 1 + 1 ELSE 0
            /\ \A i \in 1 .. room - 1 + 1 : front[i] = wanted[1 + i - 1]
        BY <3>2, <4>1
      <4>3. \A i \in 1 .. room : i \in 1 .. room - 1 + 1 /\ 1 + i - 1 = i
        OBVIOUS
      <4>4. Len(front) = room /\ \A i \in 1 .. room : front[i] = wanted[i]
        BY <4>2, <4>3
      <4>5. QED BY <4>1, <4>2, <4>4
    <3>4. front = got
      BY <2>8, <3>3, SeqEqual
    <3>5. QED BY <3>3, <3>4
  <2>11. IsPrefix(got, wanted) /\ Len(got) \in {StackSize - 1}
    BY <1>4, <1>9, <2>7, <2>8, <2>9, <2>10 DEF IsPrefix
  <2>12. QED BY <1>1, <1>3, <1>7, <1>9, <2>1, <2>3, <2>11 DEF WholeOrCut
<1>10. QED BY <1>7, <1>8, <1>9

-----------------------------------------------------------------------------
(* How far a conversion comes *)

\* A code point is one unit or two.
LEMMA UnitsLength ==
    ASSUME NEW codepoint PROVE Len(Units(codepoint)) = 1 \/ Len(Units(codepoint)) = 2
<1>1. PICK cp, a, b : Units(codepoint) = <<cp>> \/ Units(codepoint) = <<a, b>>
  BY SMT DEF Units
<1>2. \A x : Len(<<x>>) = 1
  OBVIOUS
<1>3. \A x, y : Len(<<x, y>>) = 2
  OBVIOUS
<1>4. QED BY <1>1, <1>2, <1>3

\* Numbers that grow by one or two at every step.
LEMMA GrowsByUnits ==
    ASSUME NEW n \in Nat, NEW c \in [0 .. n -> Nat],
           \A k \in 1 .. n : c[k] = c[k - 1] + 1 \/ c[k] = c[k - 1] + 2
    PROVE  \A b \in 0 .. n : \A a \in 0 .. b : c[a] <= c[b] /\ c[b] <= c[a] + 2 * (b - a)
<1> DEFINE T == {b \in 0 .. n : \A a \in 0 .. b : c[a] <= c[b] /\ c[b] <= c[a] + 2 * (b - a)}
<1>1. ASSUME NEW b \in 0 .. n, \A i \in 0 .. b - 1 : i \in T PROVE b \in T
  <2>1. ASSUME NEW a \in 0 .. b PROVE c[a] <= c[b] /\ c[b] <= c[a] + 2 * (b - a)
    <3>1. CASE a = b
      BY <3>1
    <3>2. CASE a # b
      <4>1. PICK d \in 0 .. n : d = b - 1 /\ d \in 0 .. b - 1 /\ a \in 0 .. d /\ b \in 1 .. n
        <5>1. b - 1 \in 0 .. n /\ b - 1 \in 0 .. b - 1 /\ a \in 0 .. b - 1 /\ b \in 1 .. n
          BY <3>2
        <5>2. QED BY <5>1
      <4>2. d \in T
        BY <1>1, <4>1
      <4>3. c[a] <= c[d] /\ c[d] <= c[a] + 2 * (d - a)
        BY <4>1, <4>2
      <4>4. c[b] = c[d] + 1 \/ c[b] = c[d] + 2
        BY <4>1
      <4>5. a \in 0 .. n
        OBVIOUS
      <4>6. PICK x \in Nat, y \in Nat, z \in Nat : x = c[a] /\ y = c[d] /\ z = c[b]
        BY <4>5
      <4>7. x <= z /\ z <= x + 2 * (b - a)
        BY <4>1, <4>3, <4>4, <4>6
      <4>8. QED BY <4>6, <4>7
    <3>3. QED BY <3>1, <3>2
  <2>2. QED BY <2>1
<1> HIDE DEF T
<1>2. \A b \in 0 .. n : b \in T
  BY <1>1, RangeInduction
<1>3. QED BY <1>2 DEF T

\* c[k] is the number of units that the first k items take, each of them one or two.
IsCount(c, items) ==
    /\ c \in [0 .. Len(items) -> Nat] /\ c[0] = 0
    /\ \A k \in 0 .. Len(items) : UnitCount(items, k) = c[k]
    /\ \A k \in 1 .. Len(items) : c[k] = c[k - 1] + 1 \/ c[k] = c[k - 1] + 2

\* And with so many units the conversion of all the items begins.
IsBegun(c, items) ==
    \A k \in 0 .. Len(items) :
        /\ Utf16(SubSeq(items, 1, k)) = SubSeq(Utf16(items), 1, c[k])
        /\ c[k] <= Len(Utf16(items))

\* Every sequence of items has such counts.
LEMMA UnitCounts ==
    ASSUME NEW items \in Seq(Item) PROVE \E c : IsCount(c, items) /\ IsBegun(c, items)
<1>1. PICK Q : Q = Seq(CodeUnit)
  OBVIOUS
<1>2. PICK n \in Nat : n = Len(items) /\ DOMAIN items = 1 .. n
  BY LenProperties
<1>3. PICK seqs : seqs = [i \in DOMAIN items |-> Units(items[i].cp)]
  OBVIOUS
<1>4. ASSUME NEW i \in 1 .. n PROVE Units(items[i].cp) \in Q
  <2>1. PICK s \in Seq(1 .. 255) : s # <<>> /\ items[i] = Decode(s)
    <3>1. items[i] \in Item
      BY <1>2, ElementOfSeq
    <3>2. QED BY <3>1 DEF Item
  <2>2. items[i].cp \in 0 .. MaxCodepoint
    BY <2>1, DecodesToUnicode
  <2>3. QED BY <1>1, <2>2, UnitsTypes
<1>5. seqs \in Seq(Q) /\ Len(seqs) = n /\ \A i \in 1 .. n : seqs[i] = Units(items[i].cp)
  BY <1>2, <1>3, <1>4
<1>6. PICK joined \in [0 .. n -> Q], rest \in [0 .. n -> Q] :
          /\ IsJoin(joined, seqs)
          /\ \A k \in 0 .. n : FlattenSeq(seqs) = joined[k] \o rest[k]
  <2>1. seqs \in Seq(Seq(CodeUnit))
    BY <1>1, <1>5
  <2>2. \E joined \in [0 .. Len(seqs) -> Seq(CodeUnit)],
           rest \in [0 .. Len(seqs) -> Seq(CodeUnit)] : IsSplit(joined, rest, seqs)
    BY <2>1, FlattenFromBehind
  <2>3. PICK joined \in [0 .. n -> Q], rest \in [0 .. n -> Q] : IsSplit(joined, rest, seqs)
    BY <1>1, <1>5, <2>2
  <2>4. QED BY <1>5, <2>3 DEF IsSplit
<1>7. PICK units \in Q : units = Utf16(items) /\ units = FlattenSeq(seqs)
  BY <1>1, <1>3, Utf16Types DEF Utf16
<1>8. ASSUME NEW k \in 0 .. n PROVE Utf16(SubSeq(items, 1, k)) = joined[k]
  <2>1. PICK prefix : prefix = SubSeq(items, 1, k)
    OBVIOUS
  <2>2. DOMAIN prefix = 1 .. k /\ \A i \in 1 .. k : prefix[i] = items[i]
    <3>1. \A i \in 1 .. k : items[i] \in Item
      BY <1>2, ElementOfSeq
    <3>2. /\ prefix \in Seq(Item) /\ Len(prefix) = (IF 1 <= k THEN k - 1 + 1 ELSE 0)
          /\ \A i \in 1 .. k - 1 + 1 : prefix[i] = items[1 + i - 1]
      BY <2>1, <3>1, SubSeqProperties
    <3>3. QED BY <3>2, LenProperties
  <2>3. PICK first : first = SubSeq(seqs, 1, k)
    OBVIOUS
  <2>4. first \in Seq(Q) /\ Len(first) = k /\ \A i \in 1 .. k : first[i] = seqs[i]
    <3>1. \A i \in 1 .. k : seqs[i] \in Q
      BY <1>5, ElementOfSeq
    <3>2. /\ first \in Seq(Q) /\ Len(first) = (IF 1 <= k THEN k - 1 + 1 ELSE 0)
          /\ \A i \in 1 .. k - 1 + 1 : first[i] = seqs[1 + i - 1]
      BY <2>3, <3>1, SubSeqProperties
    <3>3. QED BY <3>2
  <2>5. first = [i \in 1 .. k |-> Units(prefix[i].cp)]
    <3>1. first = [i \in 1 .. k |-> first[i]]
      BY <2>4
    <3>2. \A i \in 1 .. k : i \in 1 .. n
      BY <1>2
    <3>3. \A i \in 1 .. k : first[i] = Units(prefix[i].cp)
      BY <1>5, <2>2, <2>4, <3>2
    <3>4. QED BY <3>1, <3>3
  <2>6. Utf16(prefix) = FlattenSeq(first)
    BY <2>2, <2>5 DEF Utf16
  <2>7. FlattenSeq(first) = joined[k]
    <3>1. seqs \in Seq(Seq(CodeUnit)) /\ joined \in [0 .. Len(seqs) -> Seq(CodeUnit)]
          /\ k \in 0 .. Len(seqs)
      BY <1>1, <1>5
    <3>2. IsJoin(joined, seqs)
      BY <1>6
    <3>3. QED BY <2>3, <3>1, <3>2, FlattenPrefix
  <2>8. QED BY <2>1, <2>6, <2>7
<1>9. PICK c : c = [k \in 0 .. n |-> Len(joined[k])]
  OBVIOUS
<1>10. \A k \in 0 .. n : joined[k] \in Q /\ c[k] = Len(joined[k]) /\ c[k] \in Nat
  <2>1. ASSUME NEW k \in 0 .. n PROVE joined[k] \in Q /\ c[k] = Len(joined[k]) /\ c[k] \in Nat
    <3>1. PICK j \in Q : j = joined[k]
      OBVIOUS
    <3>2. Len(j) \in Nat
      BY <1>1, LenProperties
    <3>3. QED BY <1>9, <3>1, <3>2
  <2>2. QED BY <2>1
<1>11. c \in [0 .. n -> Nat]
  BY <1>9, <1>10
<1>12. c[0] = 0
  <2>1. joined[0] = <<>> /\ 0 \in 0 .. n
    BY <1>2, <1>6 DEF IsJoin
  <2>2. QED BY <1>10, <2>1, EmptySeq
<1>13. ASSUME NEW k \in 1 .. n PROVE c[k] = c[k - 1] + 1 \/ c[k] = c[k - 1] + 2
  <2>1. k - 1 \in 0 .. n /\ k \in 0 .. n
    BY <1>2
  <2>2. PICK j \in Q : j = joined[k - 1]
    BY <1>10, <2>1
  <2>3. PICK u \in Q : u = seqs[k] /\ (Len(u) = 1 \/ Len(u) = 2)
    BY <1>4, <1>5, UnitsLength
  <2>4. joined[k] = j \o u
    BY <1>5, <1>6, <2>2, <2>3 DEF IsJoin
  <2>5. Len(j \o u) = Len(j) + Len(u)
    BY <1>1, ConcatProperties
  <2>6. c[k] = Len(j) + Len(u) /\ c[k - 1] = Len(j)
    BY <1>10, <2>1, <2>2, <2>4, <2>5
  <2>7. QED BY <2>3, <2>6
<1>14. ASSUME NEW k \in 0 .. n
       PROVE  joined[k] = SubSeq(units, 1, c[k]) /\ c[k] <= Len(units)
  <2>1. PICK j \in Q : j = joined[k]
    BY <1>10
  <2>2. PICK r \in Q : r = rest[k]
    BY <1>6
  <2>3. units = j \o r
    BY <1>6, <1>7, <2>1, <2>2
  <2>4. /\ Len(units) = Len(j) + Len(r) /\ Len(j) \in Nat /\ Len(r) \in Nat
        /\ j \o r \in Q
    BY <1>1, <2>3, ConcatProperties, LenProperties
  <2>5. c[k] = Len(j) /\ c[k] <= Len(units)
    BY <1>10, <2>1, <2>4
  <2>6. SubSeq(j \o r, 1, Len(j)) = j
    <3>1. CASE Len(j) = 0
      <4>1. j = <<>>
        BY <1>1, <3>1, EmptySeq
      <4>2. SubSeq(j \o r, 1, Len(j)) = <<>>
        BY <3>1, SubSeqEmpty
      <4>3. QED BY <4>1, <4>2
    <3>2. CASE Len(j) # 0
      <4>1. 1 \in 1 .. Len(j) /\ Len(j) \in 1 .. Len(j)
        BY <2>4, <3>2
      <4>2. SubSeq(j \o r, 1, Len(j)) = SubSeq(j, 1, Len(j))
        BY <1>1, <4>1, SubSeqOfConcat1
      <4>3. QED BY <1>1, <4>2, SubSeqFull
    <3>3. QED BY <3>1, <3>2
  <2>7. QED BY <2>1, <2>3, <2>5, <2>6
<1>15. ASSUME NEW k \in 0 .. n
       PROVE  /\ UnitCount(items, k) = c[k]
              /\ Utf16(SubSeq(items, 1, k)) = SubSeq(Utf16(items), 1, c[k])
              /\ c[k] <= Len(Utf16(items))
  BY <1>7, <1>8, <1>10, <1>14 DEF UnitCount
<1>16. IsCount(c, items)
  BY <1>2, <1>11, <1>12, <1>13, <1>15 DEF IsCount
<1>17. IsBegun(c, items)
  BY <1>2, <1>15 DEF IsBegun
<1>18. QED BY <1>16, <1>17

\* A loop either does all of the n items, or stops where the next has no room.
ComesFar(loop, n, c, done, room) ==
    /\ c[n] - c[done] <= room => loop = [done |-> n, status |-> "OK"]
    /\ c[n] - c[done] > room =>
          /\ loop.status = "INSUFFICIENT_BUFFER"
          /\ loop.done \in done .. n - 1
          /\ c[loop.done] - c[done] <= room /\ c[loop.done + 1] - c[done] > room

\* A lossy pass refuses nothing: it comes as far as there is room for whole items.
LEMMA LossyUtf16 ==
    ASSUME NEW items \in Seq(Item), NEW n \in Nat, n = Len(items), NEW c, IsCount(c, items),
           NEW done \in 0 .. n, NEW room \in Nat
    PROVE  ComesFar(Utf16Loop(items, done, room, TRUE), n, c, done, room)
<1>1. PICK loop : loop = Utf16Loop(items, done, room, TRUE)
  OBVIOUS
<1>2. /\ c \in [0 .. n -> Nat] /\ \A k \in 0 .. n : UnitCount(items, k) = c[k]
      /\ \A k \in 1 .. n : c[k] = c[k - 1] + 1 \/ c[k] = c[k - 1] + 2
  BY DEF IsCount
<1> DEFINE full == {i \in done + 1 .. n : c[i] - c[done] > room}
           least(i) == \A j \in {} \cup full : i <= j
           stop == CHOOSE i \in {} \cup full \cup {n + 1} : least(i)
<1>3. {i \in done + 1 .. n : ~TRUE /\ ~items[i].valid} = {}
  OBVIOUS
<1>4. full = {i \in done + 1 .. n : UnitCount(items, i) - UnitCount(items, done) > room}
  <2>1. \A i \in done + 1 .. n : UnitCount(items, i) = c[i]
    BY <1>2
  <2>2. UnitCount(items, done) = c[done]
    BY <1>2
  <2>3. QED BY <2>1, <2>2
<1>5. loop = [done |-> stop - 1,
              status |-> CASE stop > n -> "OK"
                           [] stop \in full /\ (FALSE \/ stop \notin {}) -> "INSUFFICIENT_BUFFER"
                           [] OTHER -> "INVALID_STRING_ENCODING"]
  BY <1>1, <1>3, <1>4 DEF Utf16Loop, Stopped
<1>6. \A b \in 0 .. n : \A a \in 0 .. b : c[a] <= c[b]
  BY <1>2, GrowsByUnits
<1>7. \A i \in 0 .. n : c[i] \in Nat
  BY <1>2
<1>8. ASSUME c[n] - c[done] <= room PROVE loop = [done |-> n, status |-> "OK"]
  <2>1. full = {}
    <3>1. ASSUME NEW i \in done + 1 .. n PROVE ~(c[i] - c[done] > room)
      <4>1. c[i] <= c[n] /\ c[i] \in Nat /\ c[n] \in Nat /\ c[done] \in Nat
        BY <1>6, <1>7
      <4>2. QED BY <1>8, <4>1
    <3>2. QED BY <3>1
  <2>2. stop = n + 1
    BY <2>1
  <2> HIDE DEF stop, full
  <2>3. stop > n /\ stop - 1 = n
    BY <2>2
  <2>4. PICK status : status = CASE stop > n -> "OK"
                [] stop \in full /\ (FALSE \/ stop \notin {}) -> "INSUFFICIENT_BUFFER"
                [] OTHER -> "INVALID_STRING_ENCODING"
    OBVIOUS
  <2>5. status = "OK"
    BY <2>1, <2>3, <2>4
  <2>6. loop = [done |-> n, status |-> status]
    BY <1>5, <2>3, <2>4
  <2>7. QED BY <2>5, <2>6
<1>9. ASSUME c[n] - c[done] > room
      PROVE  /\ loop.status = "INSUFFICIENT_BUFFER"
             /\ loop.done \in done .. n - 1
             /\ c[loop.done] - c[done] <= room /\ c[loop.done + 1] - c[done] > room
  <2>1. done # n
    BY <1>7, <1>9
  <2>2. n \in full
    BY <1>9, <2>1
  <2>3. full \in SUBSET Nat /\ full # {}
    <3>1. \A i \in done + 1 .. n : i \in Nat
      OBVIOUS
    <3>2. \A i \in full : i \in Nat
      BY <3>1
    <3>3. QED BY <2>2, <3>2
  <2>4. \E i \in {} \cup full \cup {n + 1} : least(i)
    <3>1. PICK i \in full : \A j \in full : i <= j
      BY <2>3, LeastExists
    <3>2. QED BY <3>1
  <2>5. stop \in {} \cup full \cup {n + 1} /\ least(stop)
    BY <2>4
  <2>6. \A i \in full : i \in done + 1 .. n /\ c[i] - c[done] > room
    OBVIOUS
  <2>7. \A i \in done + 1 .. n : c[i] - c[done] > room => i \in full
    OBVIOUS
  <2> HIDE DEF stop, full
  <2>8. stop \in full /\ stop <= n
    <3>1. stop <= n
      BY <2>2, <2>5
    <3>2. QED BY <2>5, <3>1
  <2>9. PICK k \in done .. n - 1 : k = stop - 1 /\ k + 1 = stop
    <3>1. stop - 1 \in done .. n - 1 /\ stop - 1 + 1 = stop
      BY <2>6, <2>8
    <3>2. QED BY <3>1
  <2>10. loop.done = k /\ loop.status = "INSUFFICIENT_BUFFER"
    <3>1. ~(stop > n)
      BY <2>6, <2>8
    <3>2. PICK status : status = CASE stop > n -> "OK"
                  [] stop \in full /\ (FALSE \/ stop \notin {}) -> "INSUFFICIENT_BUFFER"
                  [] OTHER -> "INVALID_STRING_ENCODING"
      OBVIOUS
    <3>3. status = "INSUFFICIENT_BUFFER"
      BY <2>8, <3>1, <3>2
    <3>4. loop = [done |-> k, status |-> status]
      BY <1>5, <2>9, <3>2
    <3>5. QED BY <3>3, <3>4
  <2>11. c[k + 1] - c[done] > room
    BY <2>6, <2>8, <2>9
  <2>12. c[k] - c[done] <= room
    <3>1. CASE k = done
      BY <1>7, <3>1
    <3>2. CASE k # done
      <4>1. k \in done + 1 .. n /\ k \in 0 .. n /\ ~(stop <= k)
        BY <2>9, <3>2
      <4>2. k \notin full
        BY <2>5, <4>1
      <4>3. ~(c[k] - c[done] > room)
        BY <2>7, <4>1, <4>2
      <4>4. c[k] \in Nat /\ c[done] \in Nat
        BY <1>7, <4>1
      <4>5. QED BY <4>3, <4>4
    <3>3. QED BY <3>1, <3>2
  <2>13. QED BY <2>10, <2>11, <2>12
<1>10. QED BY <1>1, <1>8, <1>9 DEF ComesFar

\* Whatever the text and whether the heap gives memory: a lossy conversion to
\* UTF-16 that may be cut succeeds, and gives its callback the whole of the text,
\* or what fits into the buffer on the stack but for one unit at most.
THEOREM Utf16WholeOrCut ==
    ASSUME NEW text \in Seq(1 .. 255), NEW memory \in BOOLEAN
    PROVE  LET call == WithUtf16(text, TRUE, TRUE, memory)
           IN  /\ call.status = "OK"
               /\ WholeOrCut(Utf16(SubSeq(Items(text), 1, call.done)), Utf16(Items(text)),
                             {StackSize - 1, StackSize})
<1>1. PICK items \in Seq(Item) : items = Items(text) /\ Len(items) <= Len(text)
  BY ItemsTypes
<1>2. PICK n \in Nat, no_limit \in Nat :
          n = Len(items) /\ no_limit = 2 * Len(text) /\ 2 * n <= no_limit
  <2>1. Len(items) \in Nat /\ Len(text) \in Nat
    BY <1>1, LenProperties
  <2>2. 2 * Len(text) \in Nat /\ 2 * Len(items) <= 2 * Len(text)
    BY <1>1, <2>1
  <2>3. QED BY <2>1, <2>2
<1>3. PICK room \in Nat : room = StackSize
  BY StackAssumption
<1>4. PICK units : units = Utf16(items)
  OBVIOUS
<1>5. PICK c : IsCount(c, items) /\ IsBegun(c, items)
  BY UnitCounts
<1>6. /\ c \in [0 .. n -> Nat] /\ c[0] = 0
      /\ \A k \in 1 .. n : c[k] = c[k - 1] + 1 \/ c[k] = c[k - 1] + 2
      /\ \A k \in 0 .. n : /\ UnitCount(items, k) = c[k]
                           /\ Utf16(SubSeq(items, 1, k)) = SubSeq(units, 1, c[k])
                           /\ c[k] <= Len(units)
  BY <1>2, <1>4, <1>5 DEF IsCount, IsBegun
<1>7. PICK total \in Nat : total = c[n] /\ total <= no_limit
  <2>1. n \in 0 .. n /\ 0 \in 0 .. n
    BY <1>2
  <2>2. c[n] <= c[0] + 2 * (n - 0) /\ c[n] \in Nat
    BY <1>6, <2>1, GrowsByUnits
  <2>3. QED BY <1>2, <1>6, <2>2
<1> DEFINE loop(done, r) == Utf16Loop(items, done, r, TRUE)
           sum(k) == UnitCount(items, k)
           first == loop(0, StackSize)
           count == loop(first.done, no_limit)
           size == sum(count.done) + 1
           rest == loop(first.done, size - sum(first.done) - 1)
           call == WithUtf16(text, TRUE, TRUE, memory)
<1>8. call =
          IF first.status = "OK" THEN Given(first.done, sum(first.done), StackSize)
          ELSE IF first.status # "INSUFFICIENT_BUFFER" THEN Refused(first.status)
          ELSE IF count.status # "OK" THEN Refused(count.status)
          ELSE IF memory /\ rest.status = "OK" THEN Given(rest.done, sum(rest.done), size)
          ELSE IF memory THEN Refused(rest.status)
          ELSE IF TRUE THEN Given(first.done, sum(first.done), StackSize)
          ELSE Refused("OUT_OF_MEMORY")
  BY <1>1, <1>2 DEF WithUtf16, With
<1>9. \A i, end, places : Given(i, end, places).done = i /\ Given(i, end, places).status = "OK"
  BY DEF Given
<1>10. \A k \in 0 .. n : sum(k) = c[k] /\ c[k] \in Nat
  BY <1>6
<1> HIDE DEF call
<1>11. \A done \in 0 .. n, r \in Nat :
           /\ c[n] - c[done] <= r => loop(done, r) = [done |-> n, status |-> "OK"]
           /\ c[n] - c[done] > r =>
                 /\ loop(done, r).status = "INSUFFICIENT_BUFFER"
                 /\ loop(done, r).done \in done .. n - 1
                 /\ c[loop(done, r).done] - c[done] <= r
                 /\ c[loop(done, r).done + 1] - c[done] > r
  <2>1. \A done \in 0 .. n, r \in Nat : ComesFar(loop(done, r), n, c, done, r)
    BY <1>2, <1>5, LossyUtf16
  <2> HIDE DEF loop
  <2>2. QED BY <2>1 DEF ComesFar
<1> HIDE DEF loop, sum
<1>12. Utf16(SubSeq(items, 1, n)) = units
  <2>1. SubSeq(items, 1, n) = items
    BY <1>2, SubSeqFull
  <2>2. QED BY <1>4, <2>1
<1>13. CASE c[n] <= room
  <2>1. 0 \in 0 .. n /\ c[n] - c[0] <= room
    BY <1>2, <1>6, <1>7, <1>13
  <2>2. first = [done |-> n, status |-> "OK"]
    BY <1>3, <1>11, <2>1
  <2>3. first.done = n /\ first.status = "OK"
    BY <2>2
  <2> HIDE DEF first, count, size, rest
  <2>4. call = Given(n, sum(n), StackSize)
    BY <1>8, <2>3
  <2>5. call.done = n /\ call.status = "OK"
    <3>1. PICK end : end = sum(n)
      OBVIOUS
    <3>2. QED BY <1>9, <2>4, <3>1
  <2>6. QED BY <1>1, <1>4, <1>12, <2>5 DEF WholeOrCut, call
<1>14. CASE ~(c[n] <= room)
  <2>1. 0 \in 0 .. n /\ c[n] - c[0] > room
    BY <1>2, <1>3, <1>6, <1>7, <1>14
  <2>2. /\ first.status = "INSUFFICIENT_BUFFER" /\ first.done \in 0 .. n - 1
        /\ c[first.done] - c[0] <= room /\ c[first.done + 1] - c[0] > room
    BY <1>3, <1>11, <2>1
  <2> HIDE DEF first
  <2>3. PICK k \in 0 .. n - 1 : k = first.done
    BY <2>2
  <2>4. PICK x \in Nat : x = c[k] /\ sum(k) = x /\ x <= total
    <3>1. k \in 0 .. n /\ n \in 0 .. n /\ k \in 0 .. n
      BY <1>2
    <3>2. c[k] \in Nat /\ c[k] = sum(k) /\ c[k] <= c[n]
      BY <1>6, <1>10, <3>1, GrowsByUnits
    <3>3. QED BY <1>7, <3>2
  <2>5. x = room - 1 \/ x = room
    <3>1. PICK h \in 1 .. n : h = k + 1 /\ h - 1 = k
      <4>1. k + 1 \in 1 .. n /\ k + 1 - 1 = k
        BY <1>2
      <4>2. QED BY <4>1
    <3>2. c[h] = x + 1 \/ c[h] = x + 2
      BY <1>6, <2>4, <3>1
    <3>3. x - 0 <= room /\ c[h] - 0 > room
      BY <1>6, <2>2, <2>3, <2>4, <3>1
    <3>4. QED BY <1>3, <3>2, <3>3
  <2>6. count = [done |-> n, status |-> "OK"]
    <3>1. k \in 0 .. n /\ c[n] - c[k] <= no_limit
      BY <1>2, <1>7, <2>4
    <3>2. loop(k, no_limit) = [done |-> n, status |-> "OK"]
      BY <1>11, <3>1
    <3>3. QED BY <2>3, <3>2
  <2>7. count.done = n /\ count.status = "OK"
    BY <2>6
  <2> HIDE DEF count
  <2>8. size = total + 1
    <3>1. sum(n) = c[n]
      <4>1. n \in 0 .. n
        BY <1>2
      <4>2. QED BY <1>10, <4>1
    <3>2. QED BY <1>7, <2>7, <3>1
  <2> HIDE DEF size
  <2>9. rest = [done |-> n, status |-> "OK"]
    <3>1. PICK r \in Nat : r = size - sum(first.done) - 1 /\ r = total - x
      <4>1. size - sum(first.done) - 1 = total + 1 - x - 1
        <5>1. PICK z, y : z = size /\ y = sum(first.done)
          OBVIOUS
        <5>2. z = total + 1 /\ y = x
          BY <2>3, <2>4, <2>8, <5>1
        <5>3. QED BY <5>1, <5>2
      <4>2. total + 1 - x - 1 = total - x /\ total - x \in Nat
        BY <2>4
      <4>3. QED BY <4>1, <4>2
    <3>2. k \in 0 .. n /\ c[n] - c[k] <= r
      BY <1>2, <1>7, <2>4, <3>1
    <3>3. loop(k, r) = [done |-> n, status |-> "OK"]
      BY <1>11, <3>2
    <3>4. QED BY <2>3, <3>1, <3>3
  <2>10. rest.done = n /\ rest.status = "OK"
    BY <2>9
  <2> HIDE DEF rest
  <2>11. CASE memory
    <3>1. call = Given(n, sum(n), size)
      BY <1>8, <2>2, <2>7, <2>10, <2>11
    <3>2. call.done = n /\ call.status = "OK"
      <4>1. PICK end, places : end = sum(n) /\ places = size
        OBVIOUS
      <4>2. QED BY <1>9, <3>1, <4>1
    <3>3. QED BY <1>1, <1>4, <1>12, <3>2 DEF WholeOrCut, call
  <2>12. CASE ~memory
    <3>1. call = Given(k, sum(k), StackSize)
      BY <1>8, <2>2, <2>3, <2>7, <2>12
    <3>2. call.done = k /\ call.status = "OK"
      <4>1. PICK end, places : end = sum(k) /\ places = StackSize
        OBVIOUS
      <4>2. QED BY <1>9, <3>1, <4>1
    <3>3. PICK got : got = Utf16(SubSeq(items, 1, k))
      OBVIOUS
    <3>4. got = SubSeq(units, 1, x) /\ x <= Len(units)
      <4>1. k \in 0 .. n
        BY <1>2
      <4>2. QED BY <1>6, <2>4, <3>3, <4>1
    <3>5. Len(got) = x
      <4>1. units \in Seq(CodeUnit)
        BY <1>4, Utf16Types
      <4>2. \A i \in 1 .. x : units[i] \in CodeUnit
        <5>1. Len(units) \in Nat
          BY <4>1, LenProperties
        <5>2. \A i \in 1 .. x : i \in 1 .. Len(units)
          BY <3>4, <5>1
        <5>3. QED BY <4>1, <5>2, ElementOfSeq
      <4>3. Len(SubSeq(units, 1, x)) = IF 1 <= x THEN x - 1 + 1 ELSE 0
        BY <4>2, SubSeqProperties
      <4>4. QED BY <3>4, <4>3
    <3>6. SubSeq(got, 1, Len(got)) = got
      <4>1. SubSeq(items, 1, k) \in Seq(Item)
        <5>1. \A i \in 1 .. k : i \in 1 .. Len(items)
          BY <1>2
        <5>2. \A i \in 1 .. k : items[i] \in Item
          BY <5>1, ElementOfSeq
        <5>3. QED BY <5>2, SubSeqProperties
      <4>2. got \in Seq(CodeUnit)
        BY <3>3, <4>1, Utf16Types
      <4>3. QED BY <4>2, SubSeqFull
    <3>7. IsPrefix(got, units) /\ Len(got) \in {StackSize - 1, StackSize}
      BY <1>3, <2>5, <3>4, <3>5, <3>6 DEF IsPrefix
    <3>8. QED BY <1>1, <1>4, <3>2, <3>3, <3>7 DEF WholeOrCut, call
  <2>13. QED BY <2>11, <2>12
<1>15. QED BY <1>13, <1>14

-----------------------------------------------------------------------------
(* Characters *)

\* What an item becomes is what the character is known to become, '?' standing in.
Means(item, ch) ==
    /\ item.used = Len(ch.bytes)
    /\ Units(item.cp) = ch.units
    /\ Latin1Char(item, 63) = ch.latin1

\* A character of the standard is decoded to what it means, whatever follows it.
LEMMA EncodedMeans ==
    ASSUME NEW ch, IsCharacter(ch), IsEncoded(ch), NEW s \in Seq(1 .. 255), Begins(s, ch.bytes)
    PROVE  Means(Decode(s), ch)
<1>1. PICK cp, b : cp = Scalar(ch.units) /\ b = ch.bytes
  BY SMT
<1>2. /\ cp \in Nat /\ cp <= MaxCodepoint /\ cp \notin Surrogates /\ Units(cp) = ch.units
      /\ b = Utf8(cp) /\ ch.latin1 = IF cp <= 255 THEN cp ELSE 63
  <2>1. /\ cp \in Nat /\ cp <= MaxCodepoint /\ cp \notin Surrogates /\ Units(cp) = ch.units
    BY <1>1, ScalarRange
  <2>2. b = Utf8(cp) /\ ch.latin1 = IF cp <= 255 THEN cp ELSE 63
    BY <1>1, SMT DEF IsEncoded
  <2>3. QED BY <2>1, <2>2
<1>3. PICK item : item = Decode(s)
  BY SMT
<1>4. item = [cp |-> cp, used |-> Len(b), valid |-> TRUE]
  BY <1>1, <1>2, <1>3, DecodeUtf8
<1>5. item.cp = cp /\ item.used = Len(b) /\ item.valid = TRUE
  BY <1>4
<1>6. Latin1Char(item, 63) = IF cp <= 255 THEN cp ELSE 63
  BY <1>5 DEF Latin1Char, IsLatin1
<1>7. QED BY <1>1, <1>2, <1>3, <1>5, <1>6 DEF Means

\* What is not one becomes the replacement.
LEMMA BrokenMeans ==
    ASSUME NEW ch, IsReplaced(ch) PROVE Means(Broken(Len(ch.bytes)), ch)
<1>1. PICK item : item = Broken(Len(ch.bytes))
  BY SMT
<1>2. item.cp = Replacement /\ item.used = Len(ch.bytes) /\ item.valid = FALSE
  BY <1>1 DEF Broken
<1>3. Units(Replacement) = <<Replacement>>
  <2>1. PICK r \in Nat : r = Replacement /\ r = 65533
    BY Ranges, SMT
  <2>2. r \notin Surrogates /\ ~(r > MaxCodepoint) /\ r <= MaxUnit
    BY <2>1, Ranges, SMT
  <2>3. Units(r) = <<r>>
    BY <2>2, SMT DEF Units
  <2>4. QED BY <2>1, <2>3, SMT
<1>4. Latin1Char(item, 63) = 63
  BY <1>2 DEF Latin1Char, IsLatin1
<1>5. ch.units = <<Replacement>> /\ ch.latin1 = 63
  BY DEF IsReplaced
<1>6. QED BY <1>1, <1>2, <1>3, <1>4, <1>5 DEF Means

\* A sequence that ends early: the text ends there, or no trail byte follows.
LEMMA CutMeans ==
    ASSUME NEW ch, IsCharacter(ch), IsReplaced(ch), IsCut(ch),
           NEW s \in Seq(1 .. 255), Begins(s, ch.bytes),
           Len(ch.bytes) < Len(s) => s[Len(ch.bytes) + 1] \notin Trail
    PROVE  Means(Decode(s), ch)
<1>1. PICK b, m : b = ch.bytes /\ m = Len(b)
  OBVIOUS
<1>2. /\ \/ m = 1 /\ b[1] \in 192 .. 247
         \/ m = 2 /\ b[1] \in 224 .. 247
         \/ m = 3 /\ b[1] \in 240 .. 247
      /\ \A i \in 2 .. m : b[i] \in Trail
  BY <1>1 DEF IsCut
<1>3. m \in 1 .. 3
  BY <1>2
<1>4. m <= Len(s) /\ \A i \in 1 .. m : s[i] = b[i]
  BY <1>1 DEF Begins
<1>5. Len(s) \in Nat
  BY LenProperties
<1>6. \A i \in 1 .. Len(s) : s[i] \in 1 .. 255
  BY ElementOfSeq
<1>7. s[1] = b[1]
  BY <1>3, <1>4
<1>8. PICK a : a = Announced(s[1])
  OBVIOUS
<1>9. a.bytes \in 1 .. 4 /\ m < a.bytes
  <2>1. PICK c \in Nat : c = s[1] /\ c <= 247 /\ (m = 1 => 192 <= c)
                           /\ (m = 2 => 224 <= c) /\ (m = 3 => 240 <= c)
    BY <1>2, <1>7
  <2>2. CASE 192 <= c /\ c <= 223
    <3>1. Announced(c).bytes = 2 /\ m = 1
      BY <1>2, <2>1, <2>2, FirstBytes
    <3>2. QED BY <1>8, <2>1, <3>1
  <2>3. CASE 224 <= c /\ c <= 239
    <3>1. Announced(c).bytes = 3 /\ (m = 1 \/ m = 2)
      BY <1>2, <2>1, <2>3, FirstBytes
    <3>2. QED BY <1>8, <2>1, <3>1
  <2>4. CASE 240 <= c
    <3>1. Announced(c).bytes = 4
      BY <2>1, <2>4, FirstBytes
    <3>2. QED BY <1>2, <1>8, <2>1, <3>1
  <2>5. QED BY <1>2, <2>1, <2>2, <2>3, <2>4
<1>10. \A i \in 2 .. m : IsContinuation(s[i])
  <2>1. ASSUME NEW i \in 2 .. m PROVE IsContinuation(s[i])
    <3>1. i \in 1 .. m /\ i \in 1 .. Len(s)
      BY <1>3, <1>4, <1>5
    <3>2. s[i] \in Trail /\ s[i] \in 1 .. 255
      BY <1>2, <1>4, <1>6, <3>1
    <3>3. QED BY <3>2, TrailBytes
  <2>2. QED BY <2>1
<1>11. m < Len(s) => ~IsContinuation(s[m + 1])
  <2>1. SUFFICES ASSUME m < Len(s) PROVE ~IsContinuation(s[m + 1])
    OBVIOUS
  <2>2. m + 1 \in 1 .. Len(s) /\ s[m + 1] \notin Trail
    BY <1>1, <1>3, <1>5, <2>1
  <2>3. s[m + 1] \in 1 .. 255
    BY <1>6, <2>2
  <2>4. QED BY <2>2, <2>3, TrailBytes
<1>12. Decode(s) = Broken(m)
  <2>1. m \in Nat /\ m >= 1
    BY <1>3
  <2>2. Announced(s[1]).bytes \in 1 .. 4 /\ m < Announced(s[1]).bytes
    BY <1>8, <1>9
  <2>3. QED BY <1>4, <1>10, <1>11, <2>1, <2>2, DecodeCut
<1>13. QED BY <1>1, <1>12, BrokenMeans

\* A byte that begins nothing, a surrogate, or a number above the last code point.
LEMMA NoScalarMeans ==
    ASSUME NEW ch, IsCharacter(ch), IsReplaced(ch), IsNoScalar(ch),
           NEW s \in Seq(1 .. 255), Begins(s, ch.bytes)
    PROVE  Means(Decode(s), ch)
<1> DEFINE first == Announced(s[1])
           two == 64 * first.bits + (s[2] % 64)
           three == 64 * two + (s[3] % 64)
           four == 64 * three + (s[4] % 64)
<1>1. PICK b, m : b = ch.bytes /\ m = Len(b)
  OBVIOUS
<1>2. \/ m = 1 /\ b[1] \in Trail \cup 248 .. 255
      \/ m = 3 /\ b[1] = 237 /\ b[2] \in 160 .. 191 /\ b[3] \in Trail
      \/ m = 4 /\ b[1] = 244 /\ b[2] \in 144 .. 191 /\ b[3] \in Trail /\ b[4] \in Trail
      \/ m = 4 /\ b[1] \in 245 .. 247 /\ b[2] \in Trail /\ b[3] \in Trail /\ b[4] \in Trail
  BY <1>1 DEF IsNoScalar
<1>3. m <= Len(s) /\ \A i \in 1 .. m : s[i] = b[i]
  BY <1>1 DEF Begins
<1>4. \A t \in Trail : t \in Nat /\ 128 <= t /\ t <= 191 /\ IsContinuation(t) /\ t % 64 = t - 128
  <2>1. \A t \in Trail : t \in Nat /\ 128 <= t /\ t <= 191
    BY DEF Trail
  <2>2. QED BY <2>1, TrailBytes
<1>5. ASSUME first.bytes \in 1 .. 4, first.bytes = m,
             \A i \in 2 .. m : IsContinuation(s[i]),
             Codepoint(s, first) \in Surrogates \/ Codepoint(s, first) > MaxCodepoint
      PROVE  Decode(s) = Broken(m)
  <2>1. Decode(s) = IF Codepoint(s, first) \in Surrogates \/ Codepoint(s, first) > MaxCodepoint
                    THEN Broken(first.bytes)
                    ELSE [cp |-> Codepoint(s, first), used |-> first.bytes,
                          valid |-> Codepoint(s, first) >= first.least]
    BY <1>3, <1>5, DecodeWhole, Zenon
  <2>2. QED BY <1>5, <2>1, Zenon
<1>6. CASE m = 1 /\ b[1] \in Trail \cup 248 .. 255
  <2>1. PICK c \in Nat : c = s[1] /\ ((128 <= c /\ c <= 191) \/ 248 <= c)
    BY <1>3, <1>6 DEF Trail
  <2>2. Announced(c).bytes = 0
    BY <2>1, FirstBytes
  <2>3. Decode(s) = Broken(1)
    BY <2>1, <2>2 DEF Decode
  <2>4. QED BY <1>1, <1>6, <2>3, BrokenMeans
<1>7. CASE m = 3 /\ b[1] = 237 /\ b[2] \in 160 .. 191 /\ b[3] \in Trail
  <2>1. s[1] = 237 /\ s[2] = b[2] /\ s[3] = b[3] /\ b[2] \in Trail
    <3>1. 1 \in 1 .. m /\ 2 \in 1 .. m /\ 3 \in 1 .. m
      BY <1>7
    <3>2. b[2] \in Trail
      BY <1>7 DEF Trail
    <3>3. QED BY <1>3, <1>7, <3>1, <3>2
  <2>2. first = [bytes |-> 3, bits |-> 13, least |-> 2048]
    <3>1. Announced(237) = [bytes |-> 3, bits |-> 237 - 224, least |-> 2048]
      BY FirstBytes
    <3>2. QED BY <2>1, <3>1
  <2>3. first.bytes = 3 /\ first.bits = 13
    BY <2>2
  <2> HIDE DEF first
  <2>4. PICK y, z : y = s[2] /\ z = s[3]
    OBVIOUS
  <2>5. /\ y \in Nat /\ 160 <= y /\ y <= 191 /\ y % 64 = y - 128
        /\ z \in Nat /\ 128 <= z /\ z <= 191 /\ z % 64 = z - 128
    <3>1. y \in Trail /\ z \in Trail /\ y \in 160 .. 191
      BY <1>7, <2>1, <2>4
    <3>2. 160 <= y
      BY <3>1
    <3>3. QED BY <1>4, <3>1, <3>2
  <2>6. three \in Nat /\ 55296 <= three /\ three <= 57343
    <3>1. two = 832 + (y - 128) /\ three = 64 * two + (z - 128)
      BY <2>3, <2>4, <2>5
    <3> HIDE DEF two, three
    <3>2. 864 <= two /\ two <= 895 /\ two \in Nat
      BY <2>5, <3>1
    <3>3. QED BY <2>5, <3>1, <3>2, SMT
  <2>7. \A i \in 2 .. 3 : IsContinuation(s[i])
    <3>1. \A i \in 2 .. 3 : i = 2 \/ i = 3
      OBVIOUS
    <3>2. QED BY <1>4, <1>7, <2>1, <3>1
  <2>8. Codepoint(s, first) = three
    BY <2>3, CodepointBits
  <2> HIDE DEF three
  <2>9. Codepoint(s, first) \in Surrogates
    BY <2>6, <2>8, Ranges
  <2>10. Decode(s) = Broken(m)
    BY <1>5, <1>7, <2>3, <2>7, <2>9
  <2>11. QED BY <1>1, <2>10, BrokenMeans
<1>8. ASSUME NEW c \in 4 .. 7, m = 4, b[1] = 240 + c,
             b[2] \in Trail, b[2] + 64 * c >= 400, b[3] \in Trail, b[4] \in Trail
      PROVE  Means(Decode(s), ch)
  <2>1. s[1] = 240 + c /\ s[2] = b[2] /\ s[3] = b[3] /\ s[4] = b[4]
    <3>1. 1 \in 1 .. m /\ 2 \in 1 .. m /\ 3 \in 1 .. m /\ 4 \in 1 .. m
      BY <1>8
    <3>2. QED BY <1>3, <1>8, <3>1
  <2>2. first = [bytes |-> 4, bits |-> c, least |-> 65536]
    <3>1. PICK d \in Nat : d = 240 + c /\ 240 <= d /\ d <= 247 /\ d - 240 = c
      BY SMT
    <3>2. Announced(d) = [bytes |-> 4, bits |-> d - 240, least |-> 65536]
      BY <3>1, FirstBytes, SMT
    <3>3. QED BY <2>1, <3>1, <3>2, SMT
  <2>3. first.bytes = 4 /\ first.bits = c
    BY <2>2, SMT
  <2> HIDE DEF first
  <2>4. PICK x, y, z : x = s[2] /\ y = s[3] /\ z = s[4]
    OBVIOUS
  <2>5. /\ x \in Nat /\ 128 <= x /\ x <= 191 /\ x % 64 = x - 128
        /\ y \in Nat /\ 128 <= y /\ y <= 191 /\ y % 64 = y - 128
        /\ z \in Nat /\ 128 <= z /\ z <= 191 /\ z % 64 = z - 128
    <3>1. x \in Trail /\ y \in Trail /\ z \in Trail
      BY <1>8, <2>1, <2>4
    <3>2. QED BY <1>4, <3>1
  <2>6. x + 64 * c >= 400
    BY <1>8, <2>1, <2>4
  <2>7. four \in Nat /\ four >= 1114112
    <3>1. two = 64 * c + (x - 128) /\ three = 64 * two + (y - 128) /\ four = 64 * three + (z - 128)
      BY <2>3, <2>4, <2>5
    <3> HIDE DEF two, three, four
    <3>2. two \in Nat /\ two >= 272
      BY <2>5, <2>6, <3>1
    <3>3. three \in Nat /\ three >= 17408
      BY <2>5, <3>1, <3>2, SMT
    <3>4. QED BY <2>5, <3>1, <3>3, SMT
  <2>8. \A i \in 2 .. 4 : IsContinuation(s[i])
    <3>1. \A i \in 2 .. 4 : i = 2 \/ i = 3 \/ i = 4
      OBVIOUS
    <3>2. QED BY <1>4, <1>8, <2>1, <3>1
  <2>9. Codepoint(s, first) = four
    BY <2>3, CodepointBits
  <2> HIDE DEF four
  <2>10. Codepoint(s, first) > MaxCodepoint
    BY <2>7, <2>9, Ranges, SMT
  <2>11. Decode(s) = Broken(m)
    BY <1>5, <1>8, <2>3, <2>8, <2>10
  <2>12. QED BY <1>1, <2>11, BrokenMeans
<1>9. CASE m = 4 /\ b[1] = 244 /\ b[2] \in 144 .. 191 /\ b[3] \in Trail /\ b[4] \in Trail
  <2>1. PICK t : t = b[2]
    OBVIOUS
  <2>2. t \in 144 .. 191
    BY <1>9, <2>1
  <2>3. t \in Trail /\ t + 64 * 4 >= 400
    BY <2>2 DEF Trail
  <2>4. b[1] = 240 + 4 /\ 4 \in 4 .. 7
    BY <1>9
  <2>5. QED BY <1>8, <1>9, <2>1, <2>3, <2>4
<1>10. CASE /\ m = 4 /\ b[1] \in 245 .. 247
            /\ b[2] \in Trail /\ b[3] \in Trail /\ b[4] \in Trail
  <2>1. PICK c \in 4 .. 7 : b[1] = 240 + c /\ c >= 5
    BY <1>10
  <2>2. PICK t \in Nat : t = b[2] /\ 128 <= t
    BY <1>4, <1>10
  <2>3. b[2] + 64 * c >= 400
    BY <2>1, <2>2
  <2>4. QED BY <1>8, <1>10, <2>1, <2>3
<1>11. QED BY <1>2, <1>6, <1>7, <1>9, <1>10

\* A character that the rest of a text follows.
LEMMA CharacterMeans ==
    ASSUME NEW ch, IsCharacter(ch), IsEncoded(ch) \/ IsReplaced(ch), NEW r \in Seq(1 .. 255),
           IsCut(ch) => r = <<>> \/ r[1] \notin Trail
    PROVE  Means(Decode(ch.bytes \o r), ch)
<1>1. PICK Q : Q = Seq(1 .. 255)
  OBVIOUS
<1>2. PICK b \in Q : b = ch.bytes
  BY <1>1 DEF IsCharacter
<1>3. PICK s : s = b \o r
  OBVIOUS
<1>4. /\ s \in Q /\ Len(s) = Len(b) + Len(r) /\ Len(b) \in Nat /\ Len(r) \in Nat
      /\ \A i \in 1 .. Len(b) + Len(r) : s[i] = IF i <= Len(b) THEN b[i] ELSE r[i - Len(b)]
  BY <1>1, <1>2, <1>3, ConcatProperties, LenProperties
<1>5. Begins(s, ch.bytes)
  <2>1. \A i \in 1 .. Len(b) : i \in 1 .. Len(b) + Len(r) /\ i <= Len(b)
    BY <1>4
  <2>2. QED BY <1>2, <1>4, <2>1 DEF Begins
<1>6. CASE IsEncoded(ch)
  BY <1>1, <1>2, <1>3, <1>4, <1>5, <1>6, EncodedMeans
<1>7. CASE IsReplaced(ch) /\ IsNoScalar(ch)
  BY <1>1, <1>2, <1>3, <1>4, <1>5, <1>7, NoScalarMeans
<1>8. CASE IsReplaced(ch) /\ IsCut(ch)
  <2>1. Len(b) < Len(s) => s[Len(b) + 1] \notin Trail
    <3>1. SUFFICES ASSUME Len(b) < Len(s) PROVE s[Len(b) + 1] \notin Trail
      OBVIOUS
    <3>2. Len(r) # 0 /\ Len(b) + 1 \in 1 .. Len(b) + Len(r) /\ ~(Len(b) + 1 <= Len(b))
          /\ Len(b) + 1 - Len(b) = 1
      BY <1>4, <3>1
    <3>3. r # <<>>
      BY <3>2, EmptySeq
    <3>4. s[Len(b) + 1] = r[1]
      BY <1>4, <3>2
    <3>5. QED BY <1>8, <3>3, <3>4
  <2>2. QED BY <1>1, <1>2, <1>3, <1>4, <1>5, <1>8, <2>1, CutMeans
<1>9. QED BY <1>6, <1>7, <1>8 DEF IsReplaced

\* The rest of a text, behind some of it.
LEMMA RestOfText ==
    ASSUME NEW S, NEW a \in Seq(S), NEW r \in Seq(S), r # <<>>
    PROVE  /\ SubSeq(a \o r, Len(a) + 1, Len(a \o r)) = r
           /\ Len(a) + 1 \in 1 .. Len(a \o r)
<1>1. /\ a \o r \in Seq(S) /\ Len(a \o r) = Len(a) + Len(r)
      /\ Len(a) \in Nat /\ Len(r) \in Nat /\ Len(r) # 0
  BY ConcatProperties, LenProperties, EmptySeq
<1>2. PICK m \in Nat, n \in Nat : m = Len(a) /\ n = Len(r) /\ n # 0
  BY <1>1
<1>3. SubSeq(a \o r, m + 1, m + n) = SubSeq(r, m + 1 - m, m + n - m)
  <2>1. m + 1 \in Len(a) + 1 .. Len(a) + Len(r) /\ m + n \in Len(a) + 1 .. Len(a) + Len(r)
    BY <1>2
  <2>2. SubSeq(a \o r, m + 1, m + n) = SubSeq(r, m + 1 - Len(a), m + n - Len(a))
    BY <2>1, SubSeqOfConcat2
  <2>3. QED BY <1>2, <2>2
<1>4. m + 1 - m = 1 /\ m + n - m = n
  OBVIOUS
<1>5. SubSeq(r, 1, n) = r
  BY <1>2, SubSeqFull
<1>6. SubSeq(a \o r, Len(a) + 1, Len(a \o r)) = r
  <2>1. Len(a \o r) = m + n
    BY <1>1, <1>2
  <2>2. QED BY <1>2, <1>3, <1>4, <1>5, <2>1
<1>7. Len(a) + 1 \in 1 .. Len(a \o r)
  BY <1>1
<1>8. QED BY <1>6, <1>7

\* p[k] is the place behind the first k characters of their text.
IsPlaces(p, chars) ==
    /\ p[0] = 1 /\ p[Len(chars)] = Len(Bytes(chars)) + 1
    /\ \A k \in 1 .. Len(chars) :
           /\ p[k - 1] \in 1 .. Len(Bytes(chars))
           /\ p[k] = p[k - 1] + Len(chars[k].bytes)
           /\ Means(ItemAt(Bytes(chars), p[k - 1]), chars[k])

\* The items of a text of characters begin where the characters begin.
LEMMA PlacesOfCharacters ==
    ASSUME NEW S, NEW chars \in Seq(S), \A i \in DOMAIN chars : IsCharacter(chars[i]),
           IsUnicode(chars)
    PROVE  \E p : IsPlaces(p, chars)
<1>1. PICK B : B = 1 .. 255
  OBVIOUS
<1>2. PICK Q : Q = Seq(B)
  OBVIOUS
<1>3. PICK n \in Nat : n = Len(chars) /\ DOMAIN chars = 1 .. n
  BY LenProperties
<1>4. \A k \in 1 .. n : chars[k].bytes \in Q /\ chars[k].bytes # <<>> /\ IsCharacter(chars[k])
  <2>1. ASSUME NEW k \in 1 .. n
        PROVE  chars[k].bytes \in Q /\ chars[k].bytes # <<>> /\ IsCharacter(chars[k])
    <3>1. PICK ch : ch = chars[k]
      OBVIOUS
    <3>2. IsCharacter(ch)
      BY <1>3, <3>1
    <3>3. QED BY <1>1, <1>2, <3>1, <3>2 DEF IsCharacter
  <2>2. QED BY <2>1
<1>5. PICK seqs : seqs = [i \in DOMAIN chars |-> chars[i].bytes]
  OBVIOUS
<1>6. seqs \in Seq(Q) /\ Len(seqs) = n /\ \A k \in 1 .. n : seqs[k] = chars[k].bytes
  BY <1>3, <1>4, <1>5
<1>7. PICK text : text = Bytes(chars) /\ text = FlattenSeq(seqs)
  BY <1>5 DEF Bytes
<1>8. PICK joined \in [0 .. n -> Q], rest \in [0 .. n -> Q] :
          /\ IsJoin(joined, seqs) /\ IsRest(rest, seqs)
          /\ \A k \in 0 .. n : text = joined[k] \o rest[k]
  <2>1. seqs \in Seq(Seq(B))
    BY <1>2, <1>6
  <2>2. \E joined \in [0 .. Len(seqs) -> Seq(B)], rest \in [0 .. Len(seqs) -> Seq(B)] :
            IsSplit(joined, rest, seqs)
    BY <2>1, FlattenFromBehind
  <2>3. PICK joined \in [0 .. n -> Q], rest \in [0 .. n -> Q] : IsSplit(joined, rest, seqs)
    BY <1>2, <1>6, <2>2
  <2>4. QED BY <1>6, <1>7, <2>3 DEF IsSplit
<1>9. /\ joined[0] = <<>> /\ rest[n] = <<>>
      /\ \A k \in 1 .. n : /\ joined[k] = joined[k - 1] \o chars[k].bytes
                          /\ rest[k - 1] = chars[k].bytes \o rest[k]
  BY <1>6, <1>8 DEF IsJoin, IsRest
<1>10. PICK p : p = [k \in 0 .. n |-> Len(joined[k]) + 1]
  OBVIOUS
<1>11. p[0] = 1 /\ p[n] = Len(text) + 1
  <2>1. 0 \in 0 .. n /\ n \in 0 .. n
    BY <1>3
  <2>2. text = joined[n]
    <3>1. joined[n] \in Q /\ text = joined[n] \o <<>>
      BY <1>8, <1>9, <2>1
    <3>2. QED BY <1>2, <3>1, ConcatEmptySeq
  <2>3. Len(joined[0]) = 0
    BY <1>9, EmptySeq
  <2>4. p[0] = Len(joined[0]) + 1 /\ p[n] = Len(joined[n]) + 1
    BY <1>10, <2>1
  <2>5. QED BY <2>2, <2>3, <2>4
<1>12. ASSUME NEW k \in 1 .. n
       PROVE  /\ p[k - 1] \in 1 .. Len(text)
              /\ p[k] = p[k - 1] + Len(chars[k].bytes)
              /\ Means(ItemAt(text, p[k - 1]), chars[k])
  <2>1. PICK ch : ch = chars[k]
    OBVIOUS
  <2>2. k - 1 \in 0 .. n /\ k \in 0 .. n
    BY <1>3
  <2>3. PICK a \in Q, r \in Q, r1 \in Q : a = joined[k - 1] /\ r = rest[k - 1] /\ r1 = rest[k]
    BY <1>8, <2>2
  <2>4. ch.bytes \in Q /\ ch.bytes # <<>> /\ IsCharacter(ch)
    BY <1>4, <2>1
  <2>5. text = a \o r /\ r = ch.bytes \o r1
    BY <1>8, <1>9, <2>1, <2>2, <2>3
  <2>6. r # <<>>
    <3>1. PICK b \in Q : b = ch.bytes /\ b # <<>>
      BY <2>4
    <3>2. r = b \o r1
      BY <2>5, <3>1
    <3>3. Len(b \o r1) = Len(b) + Len(r1) /\ Len(b) \in Nat \ {0} /\ Len(r1) \in Nat
      BY <1>2, <3>1, ConcatProperties, LenProperties, EmptySeq
    <3>4. Len(r) # 0
      BY <3>2, <3>3
    <3>5. QED BY <3>4, EmptySeq
  <2>7. SubSeq(text, Len(a) + 1, Len(text)) = r /\ Len(a) + 1 \in 1 .. Len(text)
    BY <1>2, <2>5, <2>6, RestOfText
  <2>8. p[k - 1] = Len(a) + 1
    BY <1>10, <2>2, <2>3
  <2>9. p[k] = p[k - 1] + Len(ch.bytes)
    <3>1. p[k] = Len(joined[k]) + 1 /\ joined[k] = a \o ch.bytes
      BY <1>9, <1>10, <2>1, <2>2, <2>3
    <3>2. PICK b \in Q : b = ch.bytes
      BY <2>4
    <3>3. Len(a \o b) = Len(a) + Len(b) /\ Len(a) \in Nat /\ Len(b) \in Nat
      BY <1>2, ConcatProperties, LenProperties
    <3>4. joined[k] = a \o b
      BY <3>1, <3>2
    <3>5. p[k] = Len(a) + Len(b) + 1
      BY <3>1, <3>3, <3>4
    <3>6. PICK la \in Nat, lb \in Nat : la = Len(a) /\ lb = Len(b)
      BY <3>3
    <3>7. p[k - 1] = la + 1 /\ p[k] = la + lb + 1 /\ Len(ch.bytes) = lb
      BY <2>8, <3>2, <3>5, <3>6
    <3>8. QED BY <3>7
  <2>10. IsEncoded(ch) \/ IsReplaced(ch)
    BY <1>3, <2>1 DEF IsUnicode
  <2>11. IsCut(ch) => r1 = <<>> \/ r1[1] \notin Trail
    <3>1. CASE k = n
      BY <1>9, <2>3, <3>1
    <3>2. CASE k # n
      <4>1. PICK h \in 1 .. n : h = k + 1 /\ h - 1 = k /\ k < n /\ h \in 0 .. n
        <5>1. k + 1 \in 1 .. n /\ k + 1 - 1 = k /\ k < n /\ k + 1 \in 0 .. n
          BY <1>3, <3>2
        <5>2. QED BY <5>1
      <4>2. PICK r2 \in Q : r2 = rest[h]
        BY <1>8, <4>1
      <4>3. PICK next : next = chars[h] /\ next.bytes \in Q /\ next.bytes # <<>>
        BY <1>4
      <4>4. r1 = next.bytes \o r2
        <5>1. rest[h - 1] = chars[h].bytes \o rest[h]
          BY <1>9
        <5>2. rest[h - 1] = r1
          BY <2>3, <4>1
        <5>3. QED BY <4>2, <4>3, <5>1, <5>2
      <4>5. r1[1] = next.bytes[1]
        <5>1. PICK b \in Q : b = next.bytes /\ b # <<>> /\ r1 = b \o r2
          BY <4>3, <4>4
        <5>2. /\ Len(b) \in Nat \ {0} /\ Len(r2) \in Nat
              /\ \A i \in 1 .. Len(b) + Len(r2) :
                     (b \o r2)[i] = IF i <= Len(b) THEN b[i] ELSE r2[i - Len(b)]
          BY <1>2, <5>1, EmptySeq, LenProperties, ConcatProperties
        <5>3. 1 \in 1 .. Len(b) + Len(r2) /\ 1 <= Len(b)
          BY <5>2
        <5>4. QED BY <5>1, <5>2, <5>3
      <4>6. IsCut(ch) => next.bytes[1] \notin Trail
        BY <1>3, <2>1, <4>1, <4>3 DEF IsUnicode
      <4>7. QED BY <4>5, <4>6
    <3>3. QED BY <3>1, <3>2
  <2>12. Means(Decode(r), ch)
    BY <1>1, <1>2, <2>4, <2>5, <2>10, <2>11, CharacterMeans
  <2>13. QED BY <2>1, <2>7, <2>8, <2>9, <2>12 DEF ItemAt
<1>13. QED BY <1>3, <1>7, <1>11, <1>12 DEF IsPlaces

\* There is an item for each character, and it is what the character means.
LEMMA ItemsOfCharacters ==
    ASSUME NEW S, NEW chars \in Seq(S), \A i \in DOMAIN chars : IsCharacter(chars[i]),
           IsUnicode(chars)
    PROVE  /\ Items(Bytes(chars)) \in Seq(Item)
           /\ Len(Items(Bytes(chars))) = Len(chars)
           /\ \A i \in 1 .. Len(chars) : Means(Items(Bytes(chars))[i], chars[i])
<1>1. PICK text : text = Bytes(chars)
  OBVIOUS
<1>2. text \in Seq(1 .. 255)
  BY <1>1, BytesAreBytes
<1>3. PICK from : IsWalk(from, text) /\ Items(text) = from[1]
  BY <1>2, ItemsWalk
<1>4. PICK p : IsPlaces(p, chars)
  BY PlacesOfCharacters
<1>5. PICK n \in Nat : n = Len(chars)
  BY LenProperties
<1>6. PICK N \in Nat : N = Len(text)
  BY <1>2, LenProperties
<1>7. PICK Q : Q = Seq(Item)
  OBVIOUS
<1>8. /\ p[0] = 1 /\ p[n] = N + 1
      /\ \A k \in 1 .. n : /\ p[k - 1] \in 1 .. N
                          /\ p[k] = p[k - 1] + Len(chars[k].bytes)
                          /\ Means(ItemAt(text, p[k - 1]), chars[k])
  BY <1>1, <1>4, <1>5, <1>6 DEF IsPlaces
<1>9. \A i \in 1 .. N + 1 : from[i] = IF i > N THEN <<>>
                                     ELSE <<ItemAt(text, i)>> \o from[i + ItemAt(text, i).used]
  BY <1>3, <1>6 DEF IsWalk
<1> DEFINE Right(q, k) == /\ q \in Q /\ Len(q) = n - k
                          /\ \A i \in 1 .. n - k : Means(q[i], chars[k + i])
           T == {j \in 0 .. n : Right(from[p[n - j]], n - j)}
<1>10. Right(from[p[n]], n)
  <2>1. from[p[n]] = <<>>
    <3>1. N + 1 \in 1 .. N + 1 /\ N + 1 > N
      OBVIOUS
    <3>2. from[N + 1] = <<>>
      BY <1>9, <3>1
    <3>3. QED BY <1>8, <3>2
  <2>2. <<>> \in Q /\ Len(<<>>) = n - n /\ 1 .. n - n = {}
    BY <1>5, <1>7, EmptySeq
  <2>3. QED BY <2>1, <2>2
<1>11. ASSUME NEW k \in 1 .. n, Right(from[p[k]], k) PROVE Right(from[p[k - 1]], k - 1)
  <2>1. PICK item : item = ItemAt(text, p[k - 1])
    OBVIOUS
  <2>2. PICK q \in Q : q = from[p[k]]
    BY <1>11
  <2>3. item \in Item /\ Means(item, chars[k])
    BY <1>2, <1>6, <1>8, <2>1, ItemTypes
  <2>4. item.used = Len(chars[k].bytes)
    BY <2>3 DEF Means
  <2>5. from[p[k - 1]] = <<item>> \o q
    <3>1. PICK i \in 1 .. N : i = p[k - 1]
      BY <1>8
    <3>2. i \in 1 .. N + 1 /\ ~(i > N)
      BY <1>6
    <3>3. p[k] = i + item.used
      BY <1>8, <2>4, <3>1
    <3>4. QED BY <1>9, <2>1, <2>2, <3>1, <3>2, <3>3
  <2>6. PICK s : s = <<item>> \o q
    OBVIOUS
  <2>7. Len(q) = n - k /\ Len(q) \in Nat
    BY <1>5, <1>11, <2>2
  <2>8. /\ s \in Q /\ Len(s) = 1 + Len(q) /\ s[1] = item
        /\ \A i \in 1 .. Len(q) : s[i + 1] = q[i]
    <3>1. <<item>> \in Q /\ Len(<<item>>) = 1 /\ <<item>>[1] = item
      BY <1>7, <2>3
    <3>2. PICK one \in Q : one = <<item>> /\ Len(one) = 1 /\ one[1] = item
      BY <3>1
    <3>3. /\ s \in Q /\ Len(s) = 1 + Len(q)
          /\ \A i \in 1 .. 1 + Len(q) : s[i] = IF i <= 1 THEN one[i] ELSE q[i - 1]
      BY <1>7, <2>6, <3>2, ConcatProperties
    <3>4. \A i \in 1 .. Len(q) : i + 1 \in 1 .. 1 + Len(q) /\ ~(i + 1 <= 1) /\ i + 1 - 1 = i
      BY <2>7
    <3>5. 1 \in 1 .. 1 + Len(q)
      BY <2>7
    <3>6. QED BY <3>2, <3>3, <3>4, <3>5
  <2>9. ASSUME NEW i \in 1 .. n - (k - 1) PROVE Means(s[i], chars[k - 1 + i])
    <3>1. CASE i = 1
      <4>1. k - 1 + i = k
        BY <1>5, <3>1
      <4>2. QED BY <2>3, <2>8, <3>1, <4>1
    <3>2. CASE i # 1
      <4>1. PICK h \in 1 .. n - k : i = h + 1
        <5>1. i - 1 \in 1 .. n - k /\ i = i - 1 + 1
          BY <1>5, <3>2
        <5>2. QED BY <5>1
      <4>2. k - 1 + i = k + h
        BY <1>5, <4>1
      <4>3. Means(q[h], chars[k + h])
        BY <1>11, <2>2
      <4>4. s[i] = q[h]
        BY <2>7, <2>8, <4>1
      <4>5. QED BY <4>2, <4>3, <4>4
    <3>3. QED BY <3>1, <3>2
  <2>10. Len(s) = n - (k - 1)
    BY <1>5, <2>7, <2>8
  <2>11. QED BY <2>5, <2>6, <2>8, <2>9, <2>10
<1> HIDE DEF Right
<1>12. ASSUME NEW j \in 0 .. n, \A i \in 0 .. j - 1 : i \in T PROVE j \in T
  <2>1. CASE j = 0
    <3>1. n - j = n
      BY <1>5, <2>1
    <3>2. QED BY <1>10, <3>1
  <2>2. CASE j # 0
    <3>1. PICK k \in 1 .. n : k = n - (j - 1)
      <4>1. n - (j - 1) \in 1 .. n
        BY <1>5, <2>2
      <4>2. QED BY <4>1
    <3>2. k - 1 = n - j /\ j - 1 \in 0 .. j - 1
      BY <1>5, <2>2, <3>1
    <3>3. Right(from[p[k]], k)
      BY <1>12, <3>1, <3>2
    <3>4. Right(from[p[k - 1]], k - 1)
      BY <1>11, <3>3
    <3>5. QED BY <3>2, <3>4
  <2>3. QED BY <2>1, <2>2
<1> HIDE DEF T
<1>13. \A j \in 0 .. n : j \in T
  BY <1>5, <1>12, RangeInduction
<1>14. Right(from[1], 0)
  <2>1. n \in T /\ n - n = 0
    BY <1>5, <1>13
  <2>2. QED BY <1>8, <2>1 DEF T
<1>15. \A i \in 1 .. n : i \in 1 .. n - 0 /\ 0 + i = i
  BY <1>5
<1>16. n - 0 = n
  BY <1>5
<1>17. QED BY <1>1, <1>3, <1>5, <1>7, <1>14, <1>15, <1>16 DEF Right

\* A text is converted to what the standard says its characters are.
THEOREM TextIsUnicode ==
    ASSUME NEW S, NEW chars \in Seq(S), \A i \in DOMAIN chars : IsCharacter(chars[i]),
           IsUnicode(chars)
    PROVE  /\ Utf16(Items(Bytes(chars))) = UnitsOf(chars)
           /\ Latin1(Items(Bytes(chars)), 63) = Latin1Of(chars)
<1>1. PICK items : items = Items(Bytes(chars))
  OBVIOUS
<1>2. PICK n \in Nat : n = Len(chars) /\ DOMAIN chars = 1 .. n
  BY LenProperties
<1>3. items \in Seq(Item) /\ Len(items) = n /\ \A i \in 1 .. n : Means(items[i], chars[i])
  BY <1>1, <1>2, ItemsOfCharacters
<1>4. DOMAIN items = DOMAIN chars
  BY <1>2, <1>3, LenProperties
<1>5. \A i \in DOMAIN chars : /\ Units(items[i].cp) = chars[i].units
                              /\ Latin1Char(items[i], 63) = chars[i].latin1
  BY <1>2, <1>3 DEF Means
<1>6. /\ [i \in DOMAIN items |-> Units(items[i].cp)] = [i \in DOMAIN chars |-> chars[i].units]
      /\ Latin1(items, 63) = Latin1Of(chars)
  BY <1>4, <1>5 DEF Latin1, Latin1Of
<1>7. Utf16(items) = UnitsOf(chars)
  BY <1>6 DEF Utf16, UnitsOf
<1>8. QED BY <1>1, <1>6, <1>7
=============================================================================
