--------------------------- MODULE TextConversion ---------------------------
(***************************************************************************)
(* src/utility/encoding.c: UTF-8 converted to Latin-1 or UTF-16 in a       *)
(* buffer on the stack, or, when that is full, in one on the heap, and     *)
(* handed to a callback with a terminator after it.                        *)
(*                                                                         *)
(* A text is a sequence of bytes, a C string without its final zero.  The  *)
(* conversions work on the items it is decoded to, one per call of         *)
(* decode_utf8_sequence; positions in a buffer are counted from zero.      *)
(***************************************************************************)
EXTENDS Integers, Sequences, FiniteSets, SequencesExt

CONSTANT StackSize \* STACK_BUF_SIZE, in characters or units

ASSUME StackAssumption == StackSize \in Nat \ {0}

Surrogates == 55296 .. 57343
MaxCodepoint == 1114111
Replacement == 65533
MaxUnit == 65535
CodeUnit == 0 .. MaxUnit

-----------------------------------------------------------------------------
(* decode_utf8_sequence *)

\* What a first byte announces: how many bytes, the bits it gives itself and the
\* least code point for which so many bytes are needed.  No byte: not a first one.
Announced(b) ==
    CASE b < 128         -> [bytes |-> 1, bits |-> b, least |-> 0]
      [] b \in 192 .. 223 -> [bytes |-> 2, bits |-> b % 32, least |-> 128]
      [] b \in 224 .. 239 -> [bytes |-> 3, bits |-> b % 16, least |-> 2048]
      [] b \in 240 .. 247 -> [bytes |-> 4, bits |-> b % 8, least |-> 65536]
      [] OTHER            -> [bytes |-> 0, bits |-> 0, least |-> 0]

\* Slip: any byte that is not ASCII continues a sequence.
IsNotAscii(b) == b \div 128 = 1

IsContinuation(b) == b \div 64 = 2

Broken(n) == [cp |-> Replacement, used |-> n, valid |-> FALSE]

\* The bits of a whole sequence: what the first byte gives, then six of each byte.
Codepoint(s, first) ==
    LET bits[n \in 1 .. first.bytes] ==
            IF n = 1 THEN first.bits ELSE 64 * bits[n - 1] + (s[n] % 64)
    IN  bits[first.bytes]

\* The item at the front of s.  One that is longer than it need be is invalid,
\* but keeps its code point.
Decode(s) ==
    LET first == Announced(s[1])
        good == {n \in 1 .. first.bytes :
                    \A i \in 2 .. n : i <= Len(s) /\ IsContinuation(s[i])}
        cp == Codepoint(s, first)
    IN  IF first.bytes = 0 THEN Broken(1)
        ELSE IF first.bytes \notin good THEN Broken(Cardinality(good))
        ELSE IF cp \in Surrogates \/ cp > MaxCodepoint THEN Broken(first.bytes)
        ELSE [cp |-> cp, used |-> first.bytes, valid |-> cp >= first.least]

\* The items of a text, as the loops of both conversions walk over it.
Items(text) ==
    LET from[i \in 1 .. Len(text) + 1] ==
            IF i > Len(text) THEN <<>>
            ELSE LET item == Decode(SubSeq(text, i, Len(text)))
                 IN  <<item>> \o from[i + item.used]
    IN  from[1]

-----------------------------------------------------------------------------
(* What an item becomes *)

IsLatin1(item) == item.valid /\ item.cp <= 255

Latin1Char(item, replacement) == IF IsLatin1(item) THEN item.cp ELSE replacement

\* encode_utf16_sequence
Units(codepoint) ==
    LET cp == IF codepoint \in Surrogates \/ codepoint > MaxCodepoint THEN Replacement
                                                                   ELSE codepoint
        high == (cp - 65536) \div 1024
        low == (cp - 65536) % 1024
    IN  IF cp <= MaxUnit THEN <<cp>> ELSE <<55296 + high, 56320 + low>>

Latin1(items, replacement) == [i \in DOMAIN items |-> Latin1Char(items[i], replacement)]
Utf16(items) == FlattenSeq([i \in DOMAIN items |-> Units(items[i].cp)])

-----------------------------------------------------------------------------
(* The loops: from the items already done, into room characters or units *)

Stopped(items, refused, full, checks_room_first) ==
    LET stop == CHOOSE i \in refused \cup full \cup {Len(items) + 1} :
                    \A j \in refused \cup full : i <= j
    IN  [done |-> stop - 1,
         status |-> CASE stop > Len(items) -> "OK"
                      [] stop \in full /\ (checks_room_first \/ stop \notin refused) ->
                            "INSUFFICIENT_BUFFER"
                      [] OTHER -> "INVALID_STRING_ENCODING"]

Latin1Loop(items, done, room, lossy) ==
    Stopped(items,
            {i \in done + 1 .. Len(items) : ~lossy /\ ~IsLatin1(items[i])},
            {i \in done + 1 .. Len(items) : i > done + room},
            TRUE)

UnitCount(items, n) == Len(Utf16(SubSeq(items, 1, n)))

Utf16Loop(items, done, room, lossy) ==
    Stopped(items,
            {i \in done + 1 .. Len(items) : ~lossy /\ ~items[i].valid},
            {i \in done + 1 .. Len(items) : UnitCount(items, i) - UnitCount(items, done) > room},
            FALSE)

-----------------------------------------------------------------------------
(* autk_with_utf8_to_latin1, autk_with_utf8_to_utf16 *)

Refused(status) == [status |-> status, done |-> 0, end |-> 0, size |-> StackSize]

\* The callback is given the first n items; end is where the terminator goes, in
\* a buffer of so many places.
Given(n, end, size) == [status |-> "OK", done |-> n, end |-> end, size |-> size]

\* Loop(done, room) converts, Total(n) is what n items take, no_limit more than
\* that.  A pass over the stack buffer; if it was too small, one that only
\* counts, and one into the heap buffer.
With(Loop(_, _), Total(_), room, no_limit, truncate, memory) ==
    LET first == Loop(0, room)
        count == Loop(first.done, no_limit)
        size == Total(count.done) + 1
        rest == Loop(first.done, size - Total(first.done) - 1)
    IN  IF first.status = "OK" THEN Given(first.done, Total(first.done), StackSize)
        ELSE IF first.status # "INSUFFICIENT_BUFFER" THEN Refused(first.status)
        ELSE IF count.status # "OK" THEN Refused(count.status)
        ELSE IF memory /\ rest.status = "OK" THEN Given(rest.done, Total(rest.done), size)
        ELSE IF memory THEN Refused(rest.status)
        ELSE IF truncate THEN Given(first.done, Total(first.done), StackSize)
        ELSE Refused("OUT_OF_MEMORY")

\* Slip: no place is kept for the terminator.
WithLatin1Full(text, lossy, truncate, memory) ==
    LET items == Items(text)
        Loop(done, room) == Latin1Loop(items, done, room, lossy)
        Total(n) == n
    IN  With(Loop, Total, StackSize, Len(text), truncate, memory)

WithLatin1(text, lossy, truncate, memory) ==
    LET items == Items(text)
        Loop(done, room) == Latin1Loop(items, done, room, lossy)
        Total(n) == n
    IN  With(Loop, Total, StackSize - 1, Len(text), truncate, memory)

WithUtf16(text, lossy, truncate, memory) ==
    LET items == Items(text)
        Loop(done, room) == Utf16Loop(items, done, room, lossy)
        Total(n) == UnitCount(items, n)
    IN  With(Loop, Total, StackSize, 2 * Len(text), truncate, memory)

-----------------------------------------------------------------------------
(* Texts whose conversions are known, to compare with.  A character is a record
   of its bytes, of the units the Unicode standard gives for them, and of its
   place in Latin-1; bytes that are no character have the replacements. *)

IsCharacter(ch) ==
    /\ ch.bytes \in Seq(1 .. 255) /\ ch.bytes # <<>>
    /\ ch.units \in Seq(CodeUnit) /\ ch.latin1 \in 0 .. 255

\* UTF-8, and the code point that one unit or a pair of units stand for, as the
\* standard defines them.
Utf8(cp) ==
    CASE cp < 128                   -> <<cp>>
      [] 128 <= cp /\ cp < 2048      -> <<192 + cp \div 64, 128 + (cp % 64)>>
      [] 2048 <= cp /\ cp < 65536    -> <<224 + cp \div 4096, 128 + ((cp \div 64) % 64),
                                       128 + (cp % 64)>>
      [] 65536 <= cp                 -> <<240 + cp \div 262144, 128 + ((cp \div 4096) % 64),
                                       128 + ((cp \div 64) % 64), 128 + (cp % 64)>>

HighUnits == 55296 .. 56319
LowUnits == 56320 .. 57343

Scalar(units) ==
    IF Len(units) = 1 THEN units[1]
                      ELSE 65536 + 1024 * (units[1] - 55296) + (units[2] - 56320)

\* A character of the standard; '?' is what Latin-1 has for one that it lacks.
IsEncoded(ch) ==
    /\ \/ Len(ch.units) = 1 /\ ch.units[1] \notin Surrogates
       \/ Len(ch.units) = 2 /\ ch.units[1] \in HighUnits /\ ch.units[2] \in LowUnits
    /\ ch.bytes = Utf8(Scalar(ch.units))
    /\ ch.latin1 = IF Scalar(ch.units) <= 255 THEN Scalar(ch.units) ELSE 63

Trail == 128 .. 191

\* A sequence that ends early.
IsCut(ch) ==
    LET b == ch.bytes IN
    /\ \/ Len(b) = 1 /\ b[1] \in 192 .. 247
       \/ Len(b) = 2 /\ b[1] \in 224 .. 247
       \/ Len(b) = 3 /\ b[1] \in 240 .. 247
    /\ \A i \in 2 .. Len(b) : b[i] \in Trail

\* A byte that begins nothing, a surrogate, or what would be above MaxCodepoint.
IsNoScalar(ch) ==
    LET b == ch.bytes IN
    \/ Len(b) = 1 /\ b[1] \in Trail \cup 248 .. 255
    \/ Len(b) = 3 /\ b[1] = 237 /\ b[2] \in 160 .. 191 /\ b[3] \in Trail
    \/ /\ Len(b) = 4
       /\ \/ b[1] = 244 /\ b[2] \in 144 .. 191
          \/ b[1] \in 245 .. 247 /\ b[2] \in Trail
       /\ b[3] \in Trail /\ b[4] \in Trail

IsReplaced(ch) ==
    ch.units = <<Replacement>> /\ ch.latin1 = 63 /\ (IsCut(ch) \/ IsNoScalar(ch))

\* Any text that has no overlong form divides into such characters.
IsUnicode(chars) ==
    \A i \in DOMAIN chars :
        /\ IsEncoded(chars[i]) \/ IsReplaced(chars[i])
        /\ IsCut(chars[i]) /\ i < Len(chars) => chars[i + 1].bytes[1] \notin Trail

Bytes(chars) == FlattenSeq([i \in DOMAIN chars |-> chars[i].bytes])
UnitsOf(chars) == FlattenSeq([i \in DOMAIN chars |-> chars[i].units])
Latin1Of(chars) == [i \in DOMAIN chars |-> chars[i].latin1]

\* got is the whole of wanted; or, when the heap buffer could not be had, what
\* fitted into the stack buffer, which is one of the lengths.
WholeOrCut(got, wanted, lengths) ==
    got = wanted \/ (IsPrefix(got, wanted) /\ Len(got) \in lengths)
=============================================================================
