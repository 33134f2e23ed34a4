-------------------------- MODULE WindowsLoopProofs -------------------------
(***************************************************************************)
(* Theorems about WindowsLoop, for any number of windows, any titles,      *)
(* sizes, failures, quits and losses, and lemmas about the blocks of       *)
(* Layout, for any alignment and width of a size.                          *)
(***************************************************************************)
EXTENDS WindowsLoop, TextConversionProofs, FiniteSetTheorems

-----------------------------------------------------------------------------
(* Blocks *)

\* The remainder of a number just below zero.
LEMMA ModOfMinusOne ==
    ASSUME NEW n \in Nat \ {0}
    PROVE  (0 - 1) % n = n - 1
<1> DEFINE q == (0 - 1) \div n
           r == (0 - 1) % n
<1>1. q \in Int /\ r \in 0 .. n - 1 /\ 0 - 1 = n * q + r
  OBVIOUS
<1> HIDE DEF q, r
<1>2. n * (q + 1) = (n - 1) - r
  BY <1>1
<1>3. q + 1 = 0
  <2>1. -n < n * (q + 1) /\ n * (q + 1) < n
    BY <1>1, <1>2
  <2>q. QED BY <1>1, <2>1, MulBound
<1>4. r = n - 1
  BY <1>1, <1>2, <1>3
<1>q. QED BY <1>4 DEF r

\* autk_align_up gives the next multiple of the alignment, or zero if that is not
\* a size any more; otherwise it never falls short of what was asked for.
LEMMA AlignUpAligns ==
    ASSUME NEW n \in 0 .. SizeCount - 1
    PROVE  /\ AlignUp(n) \in 0 .. SizeCount - 1
           /\ AlignUp(n) % Align = 0
           /\ AlignUp(n) # 0 => n <= AlignUp(n)
           /\ n \in 1 .. SizeCount - Align => AlignUp(n) # 0
<1>1. PICK count \in Int : SizeCount = Align * count
  <2>1. SizeCount = Align * (SizeCount \div Align) + (SizeCount % Align)
        /\ SizeCount \div Align \in Int
    <3>1. Align \in Nat \ {0} /\ SizeCount \in Nat BY SizeAssumption
    <3>q. QED BY <3>1, DivMod
  <2>2. SizeCount = Align * (SizeCount \div Align)
    BY <2>1, SizeAssumption
  <2>q. QED BY <2>1, <2>2
<1>2. Align \in Nat \ {0} /\ SizeCount \in Nat \ {0} /\ Align < SizeCount
  BY SizeAssumption
<1> DEFINE m == (n - 1) % SizeCount
           q == m \div Align
           r == m % Align
<1>3. m \in 0 .. SizeCount - 1 /\ (n # 0 => m = n - 1) /\ (n = 0 => m = SizeCount - 1)
  <2>1. CASE n = 0
    <3>1. (0 - 1) % SizeCount = SizeCount - 1
      BY <1>2, ModOfMinusOne
    <3>2. SizeCount - 1 \in 0 .. SizeCount - 1
      BY <1>2
    <3>q. QED BY <3>1, <3>2, <2>1
  <2>2. CASE n # 0
    <3>1. n - 1 = SizeCount * 0 + (n - 1) /\ n - 1 \in 0 .. SizeCount - 1 /\ n - 1 \in Nat
      BY <2>2, <1>2
    <3>2. m = n - 1
      BY <3>1, <1>2, ModUnique
    <3>q. QED BY <3>1, <3>2, <2>2
  <2>q. QED BY <2>1, <2>2
<1> HIDE DEF m
<1>4. q \in Int /\ r \in 0 .. Align - 1 /\ m = Align * q + r
  BY <1>2, <1>3, DivMod
<1>5. AlignUp(n) = (q * Align + Align) % SizeCount
  BY DEF AlignUp, m
<1> HIDE DEF q, r
<1>6. q * Align + Align = Align * (q + 1) /\ Align * (q + 1) \in Int /\ m < Align * (q + 1)
  BY <1>2, <1>4
<1>7. Align * (q + 1) <= SizeCount
  <2>1. Align * (count - q) > 0
    BY <1>1, <1>2, <1>3, <1>4
  <2>2. count - q >= 1
    <3>1. ASSUME count - q <= 0 PROVE Align * (count - q) <= 0
      <4>1. Align * (q - count) >= 0 BY <3>1, <1>2, <1>4
      <4>q. QED BY <4>1, <1>2, <1>4
    <3>q. QED BY <3>1, <2>1, <1>2, <1>4
  <2>3. Align * (count - (q + 1)) >= 0
    BY <2>2, <1>2, <1>4
  <2>q. QED BY <2>3, <1>1, <1>2, <1>4
<1>8. CASE Align * (q + 1) = SizeCount
  <2>1. SizeCount % SizeCount = 0
    <3>1. SizeCount = SizeCount * 1 + 0 BY <1>2
    <3>q. QED BY <3>1, <1>2, ModUnique
  <2>2. AlignUp(n) = 0
    BY <2>1, <1>5, <1>6, <1>8
  <2>3. 0 % Align = 0
    <3>1. 0 = Align * 0 + 0 BY <1>2
    <3>q. QED BY <3>1, <1>2, ModUnique
  <2>4. ~(n \in 1 .. SizeCount - Align)
    <3>1. m >= SizeCount - Align
      BY <1>2, <1>4, <1>8
    <3>q. QED BY <3>1, <1>2, <1>3
  <2>q. QED BY <2>2, <2>3, <2>4, <1>2
<1>9. CASE Align * (q + 1) < SizeCount
  <2> DEFINE a == Align * (q + 1)
  <2>1. a \in 0 .. SizeCount - 1 /\ a \in Nat /\ m < a
    BY <1>2, <1>3, <1>6, <1>9
  <2>2. a = Align * (q + 1) + 0 /\ q + 1 \in Int
    BY <1>2, <1>4
  <2> HIDE DEF a
  <2>3. a % SizeCount = a
    <3>1. a = SizeCount * 0 + a BY <2>1, <1>2
    <3>q. QED BY <3>1, <2>1, <1>2, ModUnique
  <2>4. a % Align = 0
    <3>1. PICK k \in Int : k = q + 1 BY <1>4
    <3>2. a = Align * k + 0 BY <3>1, <2>2
    <3>3. Align \in Nat \ {0} /\ 0 \in 0 .. Align - 1 /\ a \in Nat BY <1>2, <2>1
    <3>q. QED BY <3>2, <3>3, ModUnique
  <2>5. AlignUp(n) = a
    BY <2>3, <1>5, <1>6 DEF a
  <2>6. SUFFICES ASSUME n = 0 PROVE FALSE
    BY <2>1, <2>4, <2>5, <1>2, <1>3
  <2>7. m = SizeCount - 1
    BY <2>6, <1>3
  <2>q. QED BY <2>1, <2>7, <1>2
<1>q. QED BY <1>7, <1>8, <1>9, <1>6, <1>2

\* The block of a window: the driver's data, then the application's
\* (autk_window_create).
LEMMA BlockUnfolds ==
    ASSUME NEW object, NEW d, NEW u
    PROVE  Block(object, <<d, u>>) =
               AddRegion(AddRegion([size |-> AlignUp(object), offsets |-> <<>>,
                                    overflow |-> FALSE], d), u)
<1> DEFINE start == [size |-> AlignUp(object), offsets |-> <<>>, overflow |-> FALSE]
           regions == <<d, u>>
           one == AddRegion(start, d)
           two == AddRegion(one, u)
           g == [n \in 0 .. 2 |-> IF n = 0 THEN start ELSE IF n = 1 THEN one ELSE two]
           IsUpto(f) == f = [n \in 0 .. 2 |-> IF n = 0 THEN start
                                              ELSE AddRegion(f[n - 1], regions[n])]
           upto == CHOOSE f : IsUpto(f)
<1>1. Len(regions) = 2 /\ regions[1] = d /\ regions[2] = u
  OBVIOUS
<1>2. Block(object, regions) = upto[2]
  BY <1>1 DEF Block
<1> HIDE DEF start, regions
<1>3. IsUpto(g)
  <2>1. \A n \in 0 .. 2 : g[n] = IF n = 0 THEN start ELSE AddRegion(g[n - 1], regions[n])
    <3>1. g[0] = start /\ g[1] = one /\ g[2] = two
       OBVIOUS
    <3> HIDE DEF g
    <3>2. g[1] = AddRegion(g[0], regions[1]) /\ g[2] = AddRegion(g[1], regions[2])
       BY <3>1, <1>1
    <3>q. QED BY <3>1, <3>2
  <2> HIDE DEF two, one
  <2>q. QED BY <2>1
<1>4. IsUpto(upto)
  BY <1>3
<1> HIDE DEF upto, g
<1>5. /\ upto[0] = start
      /\ upto[1] = AddRegion(upto[0], regions[1])
      /\ upto[2] = AddRegion(upto[1], regions[2])
  BY <1>4
<1>q. QED BY <1>1, <1>2, <1>5 DEF regions, start

\* A region that is taken lies at the old end of the block, and the new end is
\* aligned and behind it (autk_add_alloc_region).
LEMMA RegionFits ==
    ASSUME NEW block, NEW size \in 0 .. SizeCount - 1,
           block = [size |-> block.size, offsets |-> block.offsets, overflow |-> FALSE],
           block.size \in 0 .. SizeCount - 1, block.size % Align = 0,
           ~AddRegion(block, size).overflow
    PROVE  LET added == AddRegion(block, size) IN
           /\ added = [size |-> added.size, offsets |-> Append(block.offsets, block.size),
                       overflow |-> FALSE]
           /\ added.size \in 0 .. SizeCount - 1 /\ added.size % Align = 0
           /\ block.size + size <= added.size
<1> DEFINE aligned == AlignUp(size)
           new == IF size > 0 THEN block.size + aligned ELSE block.size
           added == [size |-> new, offsets |-> Append(block.offsets, block.size),
                     overflow |-> FALSE]
<1>1. aligned \in 0 .. SizeCount - 1 /\ aligned % Align = 0 /\ (aligned # 0 => size <= aligned)
  BY AlignUpAligns
<1>2. Align \in Nat \ {0} /\ SizeCount \in Nat \ {0}
  BY SizeAssumption
<1> HIDE DEF aligned
<1>3. ~(size > 0 /\ (aligned = 0 \/ aligned > SizeCount - 1 - block.size))
  BY <1>1 DEF AddRegion, aligned
<1>4. AddRegion(block, size) = added
  <2>1. PICK s, o : s = block.size /\ o = block.offsets
    OBVIOUS
  <2>2. block = [size |-> s, offsets |-> o, overflow |-> FALSE]
    BY <2>1
  <2>3. AddRegion(block, size)
            = [block EXCEPT !.size = IF size > 0 THEN @ + aligned ELSE @,
                            !.offsets = Append(@, block.size)]
    BY <1>3, <2>2 DEF AddRegion, aligned
  <2>4. ASSUME NEW old, old = [size |-> s, offsets |-> o, overflow |-> FALSE],
               NEW x, NEW y, NEW got, got = [old EXCEPT !.size = x, !.offsets = y]
        PROVE  got = [size |-> x, offsets |-> y, overflow |-> FALSE]
    BY <2>4
  <2>5. AddRegion(block, size) = [block EXCEPT !.size = new, !.offsets = Append(o, s)]
    BY <2>1, <2>3
  <2> HIDE DEF new
  <2>6. PICK y : y = Append(o, s)
    OBVIOUS
  <2>7. AddRegion(block, size) = [size |-> new, offsets |-> y, overflow |-> FALSE]
    BY <2>2, <2>4, <2>5, <2>6
  <2>q. QED BY <2>1, <2>6, <2>7
<1>5. new \in 0 .. SizeCount - 1 /\ block.size + size <= new
  BY <1>1, <1>2, <1>3
<1>6. new % Align = 0
  <2>1. CASE size > 0
    <3>1. PICK k \in Int : block.size = Align * k
      <4>1. /\ block.size = Align * (block.size \div Align) + (block.size % Align)
            /\ block.size \div Align \in Int
        BY <1>2, DivMod
      <4>2. block.size = Align * (block.size \div Align)
        BY <4>1, <1>2
      <4>q. QED BY <4>1, <4>2
    <3>2. PICK l \in Int : aligned = Align * l
      <4>1. /\ aligned = Align * (aligned \div Align) + (aligned % Align)
            /\ aligned \div Align \in Int
        BY <1>1, <1>2, DivMod
      <4>2. aligned = Align * (aligned \div Align)
        BY <4>1, <1>1, <1>2
      <4>q. QED BY <4>1, <4>2
    <3>3. PICK n \in Int : n = k + l
      OBVIOUS
    <3>4. /\ block.size + aligned = Align * n + 0
          /\ 0 \in 0 .. Align - 1 /\ block.size + aligned \in Nat
      BY <3>1, <3>2, <3>3, <1>1, <1>2
    <3>5. (block.size + aligned) % Align = 0
      BY <3>4, <1>2, ModUnique
    <3>q. QED BY <3>5, <2>1
  <2>2. CASE ~(size > 0)
    BY <2>2
  <2>q. QED BY <2>1, <2>2
<1> HIDE DEF new
<1>q. QED BY <1>4, <1>5, <1>6

\* A block that was not refused is sound: every region inside it, aligned, behind
\* what comes before it; and its size is a size.
LEMMA BlockIsSound ==
    ASSUME NEW object \in 1 .. SizeCount - Align,
           NEW d \in 0 .. SizeCount - 1, NEW u \in 0 .. SizeCount - 1,
           ~Block(object, <<d, u>>).overflow
    PROVE  /\ IsSound(Block(object, <<d, u>>), object, <<d, u>>)
           /\ Block(object, <<d, u>>).size \in 0 .. SizeCount - 1
<1> DEFINE start == [size |-> AlignUp(object), offsets |-> <<>>, overflow |-> FALSE]
           one == AddRegion(start, d)
           two == AddRegion(one, u)
<1>1. Block(object, <<d, u>>) = two
  BY BlockUnfolds
<1>2. start.size \in 0 .. SizeCount - 1 /\ start.size % Align = 0 /\ object <= start.size
  <2>1. object \in 0 .. SizeCount - 1
    BY SizeAssumption
  <2>q. QED BY <2>1, AlignUpAligns
<1>3. start = [size |-> start.size, offsets |-> <<>>, overflow |-> FALSE]
      /\ start.offsets = <<>>
  OBVIOUS
<1> HIDE DEF start
<1>4. ~one.overflow
  <2>1. one.overflow => two.overflow
    BY <1>3 DEF AddRegion
  <2>q. QED BY <2>1, <1>1
<1>5. /\ one = [size |-> one.size, offsets |-> Append(start.offsets, start.size),
                overflow |-> FALSE]
      /\ one.size \in 0 .. SizeCount - 1 /\ one.size % Align = 0
      /\ start.size + d <= one.size
  BY <1>2, <1>3, <1>4, RegionFits
<1> HIDE DEF one
<1>6. one.offsets = Append(start.offsets, start.size)
  BY <1>5
<1>7. /\ two = [size |-> two.size, offsets |-> Append(one.offsets, one.size),
                overflow |-> FALSE]
      /\ two.size \in 0 .. SizeCount - 1 /\ two.size % Align = 0
      /\ one.size + u <= two.size
  BY <1>1, <1>5, <1>6, RegionFits
<1> HIDE DEF two
<1>8. two.offsets = Append(one.offsets, one.size)
  BY <1>7
<1>9. two.offsets[1] = start.size /\ two.offsets[2] = one.size
  <2>1. PICK a \in Int : a = start.size
    BY <1>2, SizeAssumption
  <2>2. PICK b \in Int : b = one.size
    BY <1>5, SizeAssumption
  <2>3. ASSUME NEW r, r = <<>>, NEW s, s = Append(r, a), NEW t, t = Append(s, b)
        PROVE  t[1] = a /\ t[2] = b
    BY <2>3
  <2>4. one.offsets = Append(start.offsets, a) /\ two.offsets = Append(one.offsets, b)
    BY <2>1, <2>2, <1>6, <1>8
  <2>q. QED BY <2>1, <2>2, <2>3, <2>4, <1>3
<1>10. IsSound(two, object, <<d, u>>)
  <2>2. SizeCount \in Nat /\ Align \in Nat
    BY SizeAssumption
  <2> DEFINE regions == <<d, u>>
  <2>4. DOMAIN regions = {1, 2} /\ regions[1] = d /\ regions[2] = u
    OBVIOUS
  <2> HIDE DEF regions
  <2>5. \A i \in DOMAIN regions :
            LET begin == two.offsets[i]
                before == IF i = 1 THEN object ELSE two.offsets[i - 1] + regions[i - 1]
            IN  begin % Align = 0 /\ before <= begin /\ begin + regions[i] <= two.size
    <3>1. SUFFICES ASSUME NEW i \in {1, 2}
                   PROVE  LET begin == two.offsets[i]
                              before == IF i = 1 THEN object
                                        ELSE two.offsets[i - 1] + regions[i - 1]
                          IN  /\ begin % Align = 0 /\ before <= begin
                              /\ begin + regions[i] <= two.size
      BY <2>4
    <3>2. CASE i = 1
      BY <3>2, <1>9, <2>2, <2>4, <1>2, <1>5, <1>7
    <3>3. CASE i = 2
      BY <3>3, <1>9, <2>2, <2>4, <1>2, <1>5, <1>7
    <3>q. QED BY <3>2, <3>3
  <2>q. QED BY <2>5 DEF IsSound, regions
<1>q. QED BY <1>1, <1>7, <1>10

-----------------------------------------------------------------------------
(* The record of a window, and what the driver makes of it *)

Fields == {"hwnd", "brush", "exists", "userdata", "visible", "dirty",
           "wanted", "title", "end", "size"}

IsWindow(d) ==
    /\ DOMAIN d = Fields
    /\ d.hwnd \in BOOLEAN /\ d.brush \in BOOLEAN
    /\ d.exists \in BOOLEAN /\ d.userdata \in BOOLEAN

\* d is still what o was to the system and to the object.
SameHandles(d, o) ==
    /\ IsWindow(d)
    /\ d.hwnd = o.hwnd /\ d.brush = o.brush /\ d.exists = o.exists /\ d.userdata = o.userdata

\* A window that has been created points back and has its handle.
IsCreated(d, brush) ==
    IsWindow(d) /\ d.hwnd /\ d.exists /\ d.userdata /\ d.brush = brush

IsBare(d) == IsWindow(d) /\ ~d.hwnd /\ ~d.exists /\ ~d.brush

\* A window that was never created has nothing.
LEMMA BlankIsBare == IsBare(Blank)
BY DEF IsBare, IsWindow, Blank, Fields

\* One that was created and points back has its handle and no brush yet.
LEMMA CreatedPointsBack == IsCreated(PointsBack(Created(Blank)), FALSE)
BY DEF IsCreated, IsWindow, PointsBack, Created, Blank, Fields

\* Whatever becomes of a conversion, only the title changes.
LEMMA TitledKeepsHandles ==
    ASSUME NEW d, IsWindow(d), NEW c PROVE SameHandles(Titled(d, c), d)
BY DEF SameHandles, IsWindow, Titled, Fields

\* The background colour adds the brush.
LEMMA BrushGiven ==
    ASSUME NEW d, IsCreated(d, FALSE), NEW brush \in BOOLEAN
    PROVE  IsCreated([d EXCEPT !.brush = brush], brush)
BY DEF IsCreated, IsWindow, Fields

\* A window that goes takes nothing of the object with it.
LEMMA GoneKeepsObject ==
    ASSUME NEW d, IsWindow(d)
    PROVE  /\ IsWindow(Gone(d)) /\ ~Gone(d).exists
           /\ Gone(d).hwnd = d.hwnd /\ Gone(d).brush = d.brush
BY DEF IsWindow, Gone, Fields

\* fini tells nobody, for the handle is cleared first; the window is gone if the
\* object had its handle.
LEMMA FiniTellsNobody ==
    ASSUME NEW d, IsWindow(d), d.exists => d.hwnd
    PROVE  ~Fini(d).reported /\ Fini(d).deleted = d.brush /\ IsBare(Fini(d).data)
<1>1. PICK cleared : cleared = [d EXCEPT !.hwnd = FALSE, !.brush = FALSE]
  OBVIOUS
<1>2. /\ IsWindow(cleared) /\ ~cleared.hwnd /\ ~cleared.brush
      /\ cleared.exists = d.exists
  BY <1>1 DEF IsWindow, Fields
<1>3. Fini(d) = [data |-> IF d.hwnd THEN Gone(cleared) ELSE cleared,
                 reported |-> d.hwnd /\ Reports(cleared), deleted |-> d.brush]
  BY <1>1 DEF Fini
<1>4. IsBare(Gone(cleared))
  BY <1>2, GoneKeepsObject DEF IsBare
<1>5. ~d.hwnd => IsBare(cleared)
  BY <1>2 DEF IsBare, IsWindow
<1>6. Reports(cleared) = FALSE
  BY <1>2 DEF Reports, IsWindow
<1>7. PICK gone : gone = Gone(cleared)
  OBVIOUS
<1>8. PICK r : r = (d.hwnd /\ Reports(cleared))
  OBVIOUS
<1>9. ~r
  BY <1>6, <1>8
<1>10. PICK e : e = IF d.hwnd THEN gone ELSE cleared
  OBVIOUS
<1>11. IsBare(e)
  BY <1>4, <1>5, <1>7, <1>10
<1>12. Fini(d) = [data |-> e, reported |-> r, deleted |-> d.brush]
  BY <1>3, <1>7, <1>8, <1>10
<1>q. QED BY <1>9, <1>11, <1>12

\* So do the creations that fail on the way.
LEMMA FailedCreationIsBare ==
    /\ ~Fini(Blank).reported /\ IsBare(Fini(Blank).data)
    /\ ~Fini(Created(Blank)).reported /\ IsBare(Fini(Created(Blank)).data)
    /\ ~Fini(PointsBack(Created(Blank))).reported
    /\ IsBare(Fini(PointsBack(Created(Blank))).data)
<1>1. IsWindow(Created(Blank)) /\ Created(Blank).hwnd
  BY DEF IsWindow, Created, Blank, Fields
<1>q. QED BY <1>1, BlankIsBare, CreatedPointsBack, FiniTellsNobody DEF IsBare, IsCreated

-----------------------------------------------------------------------------
(* The invariant *)

Backs == {"out", "wait", "get", "peek"}

ObjectsRight ==
    /\ memory \subseteq Windows /\ given \subseteq memory
    /\ brushes \in Nat
    /\ told \in [Windows -> Nat]

WindowsRight == DOMAIN win = Windows /\ \A w \in Windows : IsWindow(win[w])

\* Blocks of objects that are allocated were not refused.
LayoutsRight ==
    /\ DOMAIN layout = Windows
    /\ \A w \in memory : \E user \in UserSizes :
          LET block == Block(ObjectSize, <<DriverDataSize, user>>) IN
          layout[w] = [block |-> block, user |-> user] /\ ~block.overflow

\* A callback returns to the loop, and invalidated is called when the window of
\* the system is already gone.
CallbacksRight ==
    /\ back \in Backs
    /\ loop = "lost" => subject \in Windows /\ ~win[subject].exists

DriverInv ==
    /\ ObjectsRight /\ WindowsRight /\ LayoutsRight /\ CallbacksRight
    /\ ToldOfLosses /\ HandlesAgree /\ BrushesOwned

Brushed == {w \in memory : win[w].brush}

\* The windows with a brush can be counted.
LEMMA BrushedFinite ==
    ASSUME ObjectsRight PROVE IsFiniteSet(Brushed) /\ Cardinality(Brushed) \in Nat
<1>1. IsFiniteSet(Windows)
  BY WindowsAssumption
<1>2. Brushed \subseteq Windows
  BY DEF ObjectsRight, Brushed
<1>q. QED BY <1>1, <1>2, FS_Subset, FS_CardinalityType

\* When the loop is not telling the application of a loss, a window exists just
\* when its object has the handle.
LEMMA HandleIsWindow ==
    ASSUME DriverInv, NEW w \in Windows, ~(loop = "lost" /\ subject = w)
    PROVE  win[w].hwnd = win[w].exists
BY DEF DriverInv, HandlesAgree, WindowsRight, IsWindow

-----------------------------------------------------------------------------
(* Steps that leave objects and handles alone *)

LoopQuiet ==
    \/ loop' = loop /\ subject' = subject /\ back' = back
    \/ loop # "lost" /\ loop' # "lost" /\ back' \in Backs

WindowsQuiet ==
    /\ DOMAIN win' = Windows
    /\ \A w \in Windows : SameHandles(win'[w], win[w])

\* Such steps keep the invariant.
LEMMA QuietStep ==
    ASSUME DriverInv, LoopQuiet, WindowsQuiet, UNCHANGED <<objects, brushes, told, lost>>
    PROVE  DriverInv'
<1> USE DEF DriverInv
<1>0. UNCHANGED <<memory, given, layout, brushes, told, lost>>
  BY DEF objects
<1>1. ObjectsRight'
  BY <1>0 DEF ObjectsRight
<1>2. WindowsRight'
  BY DEF WindowsRight, WindowsQuiet, SameHandles
<1>3. LayoutsRight'
  BY <1>0 DEF LayoutsRight
<1>4. CallbacksRight'
  BY DEF CallbacksRight, WindowsQuiet, SameHandles, LoopQuiet
<1>5. ToldOfLosses'
  BY <1>0 DEF ToldOfLosses
<1>6. HandlesAgree'
  <2>1. SUFFICES ASSUME NEW w \in Windows
                 PROVE  /\ win'[w].exists => w \in memory' /\ win'[w].userdata
                        /\ win'[w].hwnd # win'[w].exists =>
                              win'[w].hwnd /\ loop' = "lost" /\ subject' = w
    BY DEF HandlesAgree
  <2>2. SameHandles(win'[w], win[w])
    BY DEF WindowsQuiet
  <2>q. QED BY <1>0, <2>2 DEF HandlesAgree, SameHandles, LoopQuiet
<1>7. BrushesOwned'
  <2>1. Brushed' = Brushed
    BY <1>0 DEF Brushed, ObjectsRight, WindowsQuiet, SameHandles
  <2>q. QED BY <1>0, <2>1 DEF BrushesOwned, Brushed
<1>q. QED BY <1>1, <1>2, <1>3, <1>4, <1>5, <1>6, <1>7

\* Steps that leave win alone are quiet.
LEMMA SameWindowsAreQuiet ==
    ASSUME WindowsRight, UNCHANGED win PROVE WindowsQuiet
BY DEF WindowsRight, WindowsQuiet, SameHandles

\* One window changes in something else than its handles.
LEMMA OtherFieldsAreQuiet ==
    ASSUME WindowsRight, NEW w, NEW d, win' = [win EXCEPT ![w] = d],
           w \in Windows => SameHandles(d, win[w])
    PROVE  WindowsQuiet
BY DEF WindowsRight, WindowsQuiet, SameHandles

\* Showing and hiding a window leaves its handle alone.
LEMMA ShownKeepsHandles ==
    ASSUME NEW d, IsWindow(d), NEW v, NEW r
    PROVE  /\ SameHandles([d EXCEPT !.visible = v, !.dirty = r], d)
           /\ SameHandles([d EXCEPT !.dirty = r], d)
BY DEF SameHandles, IsWindow, Fields

\* The actions that are quiet: all of the loop, titles, visibility, messages.
LEMMA QuietActions ==
    ASSUME DriverInv,
           \/ CreateClient \/ DestroyClient \/ Quit \/ Run \/ BeginWaitReturns \/ GetFails
           \/ CloseReturns \/ RedrawReturns
           \/ \E w \in Windows : SetTitle(w) \/ SetVisible(w) \/ UserCloses(w)
                                 \/ SystemInvalidates(w)
    PROVE  DriverInv'
<1> USE DEF Goto
<1>0. WindowsRight /\ back \in Backs /\ Backs \cap {"lost"} = {}
      /\ "out" \in Backs /\ "wait" \in Backs /\ "peek" \in Backs /\ "get" \in Backs
  BY DEF DriverInv, CallbacksRight, Backs
<1>1. CASE CreateClient \/ DestroyClient \/ Quit \/ \E w \in Windows : UserCloses(w)
  <2>1. LoopQuiet /\ UNCHANGED <<win, objects, brushes, told, lost>>
    BY <1>1 DEF CreateClient, DestroyClient, Quit, UserCloses, windows, LoopQuiet
  <2>q. QED BY <2>1, <1>0, SameWindowsAreQuiet, QuietStep
<1>2. CASE Run \/ BeginWaitReturns \/ GetFails \/ CloseReturns
  <2>1. loop # "lost" /\ loop' # "lost" /\ back' = back
    BY <1>0, <1>2 DEF Run, BeginWaitReturns, GetFails, CloseReturns
  <2>2. LoopQuiet /\ UNCHANGED <<win, objects, brushes, told, lost>>
    BY <2>1, <1>0, <1>2 DEF Run, BeginWaitReturns, GetFails, CloseReturns, windows, LoopQuiet
  <2>q. QED BY <2>2, <1>0, SameWindowsAreQuiet, QuietStep
<1>3. CASE RedrawReturns
  <2>1. LoopQuiet /\ UNCHANGED <<objects, brushes, told, lost>>
    BY <1>0, <1>3 DEF RedrawReturns, LoopQuiet
  <2>2. PICK d : d = [win[subject] EXCEPT !.dirty = FALSE]
    OBVIOUS
  <2>3. win' = [win EXCEPT ![subject] = d]
    BY <1>3, <2>2 DEF RedrawReturns
  <2>4. subject \in Windows => SameHandles(d, win[subject])
    BY <1>0, <2>2, ShownKeepsHandles DEF WindowsRight
  <2>5. WindowsQuiet
    BY <2>3, <2>4, <1>0, OtherFieldsAreQuiet
  <2>q. QED BY <2>1, <2>5, QuietStep
<1>4. ASSUME NEW w \in Windows, SetTitle(w) PROVE DriverInv'
  <2>1. LoopQuiet /\ UNCHANGED <<objects, brushes, told, lost>>
    BY <1>4 DEF SetTitle, LoopQuiet
  <2>2. PICK c : win' = [win EXCEPT ![w] = Titled(win[w], c)]
    BY <1>4 DEF SetTitle
  <2>3. SameHandles(Titled(win[w], c), win[w])
    BY <1>0, TitledKeepsHandles DEF WindowsRight
  <2>4. WindowsQuiet
    BY <2>2, <2>3, <1>0, OtherFieldsAreQuiet
  <2>q. QED BY <2>1, <2>4, QuietStep
<1>5. ASSUME NEW w \in Windows, SetVisible(w) PROVE DriverInv'
  <2>1. LoopQuiet /\ UNCHANGED <<objects, brushes, told, lost>>
    BY <1>5 DEF SetVisible, LoopQuiet
  <2>2. PICK v, r : v = ~win[w].visible /\ r = ~win[w].visible
    OBVIOUS
  <2>3. win' = [win EXCEPT ![w] = [win[w] EXCEPT !.visible = v, !.dirty = r]]
    BY <1>5, <2>2 DEF SetVisible
  <2>4. SameHandles([win[w] EXCEPT !.visible = v, !.dirty = r], win[w])
    BY <1>0, ShownKeepsHandles DEF WindowsRight
  <2>5. WindowsQuiet
    BY <2>3, <2>4, <1>0, OtherFieldsAreQuiet
  <2>q. QED BY <2>1, <2>5, QuietStep
<1>6. ASSUME NEW w \in Windows, SystemInvalidates(w) PROVE DriverInv'
  <2>1. LoopQuiet /\ UNCHANGED <<objects, brushes, told, lost>>
    BY <1>6 DEF SystemInvalidates, LoopQuiet
  <2>2. win' = [win EXCEPT ![w] = [win[w] EXCEPT !.dirty = TRUE]]
    BY <1>6 DEF SystemInvalidates
  <2>3. SameHandles([win[w] EXCEPT !.dirty = TRUE], win[w])
    BY <1>0, ShownKeepsHandles DEF WindowsRight
  <2>4. WindowsQuiet
    BY <2>2, <2>3, <1>0, OtherFieldsAreQuiet
  <2>q. QED BY <2>1, <2>4, QuietStep
<1>q. QED BY <1>1, <1>2, <1>3, <1>4, <1>5, <1>6

\* Taking a message from the queue.
LEMMA TakeActions ==
    ASSUME DriverInv, Peek \/ Get
    PROVE  DriverInv'
<1>0. WindowsRight /\ back \in Backs /\ "wait" \in Backs /\ "peek" \in Backs
  BY DEF DriverInv, CallbacksRight, Backs
<1>1. loop \in {"peek", "get"}
  BY DEF Peek, Get
<1>2. UNCHANGED windows
  BY DEF Peek, Get, TakeQuit, TakeClose, TakePaint
<1>3. loop' # "lost" /\ back' \in Backs
  <2>1. \/ loop' \in {"out", "wait"} /\ back' = back
        \/ loop' \in {"close", "paint"} /\ back' \in {"wait", "peek"}
    BY DEF Peek, Get, TakeQuit, TakeClose, TakePaint, Goto, Callback
  <2>q. QED BY <2>1, <1>0
<1>4. LoopQuiet /\ UNCHANGED <<win, objects, brushes, told, lost>>
  BY <1>1, <1>2, <1>3 DEF LoopQuiet, windows
<1>q. QED BY <1>4, <1>0, SameWindowsAreQuiet, QuietStep

-----------------------------------------------------------------------------
(* Windows come and go *)

\* The application has been told and the handle is cleared: now handle and window
\* agree again.
LEMMA InvalidatedReturnsStep ==
    ASSUME DriverInv, InvalidatedReturns
    PROVE  DriverInv'
<1> USE DEF DriverInv
<1>0. /\ UNCHANGED <<memory, given, layout, brushes, told, lost>>
      /\ loop = "lost" /\ loop' = back /\ back' = back /\ subject' = subject
      /\ back \in Backs /\ subject \in Windows /\ ~win[subject].exists
      /\ DOMAIN win = Windows
  BY DEF InvalidatedReturns, Goto, objects, CallbacksRight, WindowsRight
<1>1. loop' # "lost"
  BY <1>0 DEF Backs
<1>2. /\ DOMAIN win' = Windows
      /\ \A w \in Windows :
            /\ IsWindow(win'[w])
            /\ win'[w].exists = win[w].exists /\ win'[w].brush = win[w].brush
            /\ win'[w].userdata = win[w].userdata
            /\ win'[w].hwnd = IF w = subject THEN FALSE ELSE win[w].hwnd
  <2>1. PICK d : d = [win[subject] EXCEPT !.hwnd = FALSE]
    OBVIOUS
  <2>2. win' = [win EXCEPT ![subject] = d]
    BY <2>1 DEF InvalidatedReturns
  <2>3. /\ IsWindow(d) /\ d.hwnd = FALSE
        /\ d.exists = win[subject].exists /\ d.brush = win[subject].brush
        /\ d.userdata = win[subject].userdata
    BY <1>0, <2>1 DEF WindowsRight, IsWindow, Fields
  <2>q. QED BY <1>0, <2>2, <2>3 DEF WindowsRight
<1>3. ObjectsRight' /\ LayoutsRight' /\ ToldOfLosses'
  BY <1>0 DEF ObjectsRight, LayoutsRight, ToldOfLosses
<1>4. WindowsRight'
  BY <1>2 DEF WindowsRight
<1>5. CallbacksRight'
  BY <1>0, <1>1 DEF CallbacksRight
<1>6. HandlesAgree'
  <2>1. SUFFICES ASSUME NEW w \in Windows
                 PROVE  /\ win'[w].exists => w \in memory' /\ win'[w].userdata
                        /\ win'[w].hwnd = win'[w].exists
    BY DEF HandlesAgree
  <2>2. CASE w = subject
    BY <1>0, <1>2, <2>2 DEF HandlesAgree, IsWindow
  <2>3. CASE w # subject
    BY <1>0, <1>2, <2>3, HandleIsWindow DEF HandlesAgree
  <2>q. QED BY <2>2, <2>3
<1>7. BrushesOwned'
  <2>1. Brushed' = Brushed
    BY <1>0, <1>2 DEF Brushed, ObjectsRight
  <2>q. QED BY <1>0, <2>1 DEF BrushesOwned, Brushed
<1>q. QED BY <1>3, <1>4, <1>5, <1>6, <1>7

\* A window the system destroys has its handle, so that its loss is reported.
LEMMA SystemDestroysStep ==
    ASSUME DriverInv, NEW w \in Windows, SystemDestroys(w)
    PROVE  DriverInv'
<1> USE DEF DriverInv
<1>0. /\ UNCHANGED <<memory, given, layout, brushes>>
      /\ loop \in {"peek", "get"} /\ win[w].exists
      /\ win' = [win EXCEPT ![w] = Gone(win[w])]
      /\ lost' = [lost EXCEPT ![w] = @ + 1]
      /\ DOMAIN win = Windows
  BY DEF SystemDestroys, objects, WindowsRight
<1>1. \A x \in Windows : win[x].hwnd = win[x].exists
  BY <1>0, HandleIsWindow
<1>2. Reports(win[w])
  BY <1>0, <1>1 DEF Reports, HandlesAgree
<1>3. /\ loop' = "lost" /\ subject' = w /\ back' = loop
      /\ told' = [told EXCEPT ![w] = @ + 1]
  BY <1>2 DEF SystemDestroys, Callback
<1>4. /\ DOMAIN win' = Windows
      /\ \A x \in Windows :
            /\ IsWindow(win'[x]) /\ win'[x].brush = win[x].brush
            /\ win'[x].hwnd = win[x].hwnd
            /\ x # w => win'[x] = win[x]
            /\ x = w => ~win'[x].exists
  BY <1>0, GoneKeepsObject DEF WindowsRight
<1>5. ObjectsRight'
  BY <1>0, <1>3 DEF ObjectsRight
<1>6. LayoutsRight' /\ ToldOfLosses'
  BY <1>0, <1>3 DEF LayoutsRight, ToldOfLosses
<1>7. WindowsRight'
  BY <1>4 DEF WindowsRight
<1>8. CallbacksRight'
  BY <1>0, <1>3, <1>4 DEF CallbacksRight, Backs
<1>9. HandlesAgree'
  <2>1. SUFFICES ASSUME NEW x \in Windows
                 PROVE  /\ win'[x].exists => x \in memory' /\ win'[x].userdata
                        /\ win'[x].hwnd # win'[x].exists =>
                              win'[x].hwnd /\ loop' = "lost" /\ subject' = x
    BY DEF HandlesAgree
  <2>2. CASE x = w
    BY <1>0, <1>1, <1>3, <1>4, <2>2
  <2>3. CASE x # w
    BY <1>0, <1>1, <1>4, <2>3 DEF HandlesAgree
  <2>q. QED BY <2>2, <2>3
<1>10. BrushesOwned'
  <2>1. Brushed' = Brushed
    BY <1>0, <1>4 DEF Brushed, ObjectsRight
  <2>q. QED BY <1>0, <2>1 DEF BrushesOwned, Brushed
<1>q. QED BY <1>5, <1>6, <1>7, <1>8, <1>9, <1>10

\* An object is allocated and its window exists, handed out or not.
LEMMA CreatedStep ==
    ASSUME DriverInv, NEW w \in Windows, Allocate(w), loop # "lost",
           UNCHANGED <<loop, subject, back, told, lost>>,
           given' \subseteq given \cup {w},
           NEW d, NEW brush \in BOOLEAN, IsCreated(d, brush),
           win' = [win EXCEPT ![w] = d],
           brushes' = brushes + (IF brush THEN 1 ELSE 0)
    PROVE  DriverInv'
<1> USE DEF DriverInv
<1>0. w \notin memory /\ memory' = memory \cup {w} /\ DOMAIN win = Windows /\ brushes \in Nat
  BY DEF Allocate, WindowsRight, ObjectsRight
<1>1. /\ DOMAIN win' = Windows
      /\ win'[w] = d
      /\ \A x \in Windows : x # w => win'[x] = win[x]
  BY <1>0
<1>2. ObjectsRight'
  BY <1>0 DEF ObjectsRight
<1>3. WindowsRight'
  BY <1>1 DEF WindowsRight, IsCreated
<1>4. LayoutsRight'
  <2>1. PICK user \in UserSizes :
            LET block == Block(ObjectSize, <<DriverDataSize, user>>) IN
            /\ ~block.overflow
            /\ layout' = [layout EXCEPT ![w] = [block |-> block, user |-> user]]
    BY DEF Allocate
  <2>2. PICK block : block = Block(ObjectSize, <<DriverDataSize, user>>)
    OBVIOUS
  <2>3. /\ DOMAIN layout' = Windows
        /\ layout'[w] = [block |-> block, user |-> user]
        /\ \A x \in Windows : x # w => layout'[x] = layout[x]
    BY <2>1, <2>2 DEF LayoutsRight
  <2>4. SUFFICES ASSUME NEW x \in memory'
                 PROVE  \E u \in UserSizes :
                            LET b == Block(ObjectSize, <<DriverDataSize, u>>) IN
                            layout'[x] = [block |-> b, user |-> u] /\ ~b.overflow
    BY <2>3 DEF LayoutsRight
  <2>5. CASE x = w
    BY <2>1, <2>2, <2>3, <2>5
  <2>6. CASE x # w
    <3>1. x \in memory /\ layout'[x] = layout[x]
      BY <1>0, <2>3, <2>6 DEF ObjectsRight
    <3>q. QED BY <3>1 DEF LayoutsRight
  <2>q. QED BY <2>5, <2>6
<1>5. CallbacksRight' /\ ToldOfLosses'
  BY DEF CallbacksRight, ToldOfLosses
<1>6. HandlesAgree'
  <2>1. SUFFICES ASSUME NEW x \in Windows
                 PROVE  /\ win'[x].exists => x \in memory' /\ win'[x].userdata
                        /\ win'[x].hwnd = win'[x].exists
    BY DEF HandlesAgree
  <2>2. CASE x = w
    BY <1>0, <1>1, <2>2 DEF IsCreated, IsWindow
  <2>3. CASE x # w
    BY <1>0, <1>1, <2>3, HandleIsWindow DEF HandlesAgree
  <2>q. QED BY <2>2, <2>3
<1>7. BrushesOwned'
  <2>1. \A x \in memory : x # w /\ x \in Windows
    BY <1>0 DEF ObjectsRight
  <2>2. Brushed' = IF brush THEN Brushed \cup {w} ELSE Brushed
    BY <1>0, <1>1, <2>1 DEF Brushed, IsCreated
  <2>3. IsFiniteSet(Brushed) /\ Cardinality(Brushed) = brushes /\ w \notin Brushed
    BY <1>0, BrushedFinite DEF Brushed, BrushesOwned
  <2>4. Cardinality(Brushed') = brushes'
    <3>1. CASE brush
      <4>1. Cardinality(Brushed \cup {w}) = Cardinality(Brushed) + 1
        BY <2>3, FS_AddElement
      <4>q. QED BY <3>1, <4>1, <1>0, <2>2, <2>3
    <3>2. CASE ~brush
      BY <3>2, <1>0, <2>2, <2>3
    <3>q. QED BY <3>1, <3>2
  <2>q. QED BY <2>4 DEF BrushesOwned, Brushed
<1>q. QED BY <1>2, <1>3, <1>4, <1>5, <1>6, <1>7

\* autk_window_create, with the brush or without.
LEMMA CreateWindowStep ==
    ASSUME DriverInv, NEW w \in Windows, CreateWindow(w) \/ CreateWindowBrushFails(w)
    PROVE  DriverInv'
<1>1. Allocate(w) /\ loop # "lost" /\ UNCHANGED <<loop, subject, back, told, lost>>
      /\ given' \subseteq given \cup {w}
  BY DEF CreateWindow, CreateWindowBrushFails
<1>2. ASSUME NEW d \in Initialized PROVE IsCreated(d, FALSE)
  <2>1. PICK blank : blank = PointsBack(Created(Blank)) /\ IsCreated(blank, FALSE)
    BY CreatedPointsBack
  <2>2. CASE d = blank
    BY <2>1, <2>2
  <2>3. ASSUME NEW c \in Conversions, d = Titled(blank, c) PROVE IsCreated(d, FALSE)
    <3>1. SameHandles(d, blank)
      BY <2>1, <2>3, TitledKeepsHandles DEF IsCreated
    <3>2. QED BY <2>1, <3>1 DEF IsCreated, SameHandles
  <2>4. QED BY <2>1, <2>2, <2>3 DEF Initialized
<1>3. CASE CreateWindow(w)
  <2>1. PICK d \in Initialized, opaque \in BOOLEAN :
            /\ win' = [win EXCEPT ![w] = [d EXCEPT !.brush = opaque]]
            /\ brushes' = brushes + (IF opaque THEN 1 ELSE 0)
    BY <1>3 DEF CreateWindow
  <2>2. IsCreated([d EXCEPT !.brush = opaque], opaque)
    BY <1>2, <2>1, BrushGiven
  <2>3. PICK whole : whole = [d EXCEPT !.brush = opaque]
    OBVIOUS
  <2>4. IsCreated(whole, opaque) /\ win' = [win EXCEPT ![w] = whole]
        /\ brushes' = brushes + (IF opaque THEN 1 ELSE 0)
    BY <2>1, <2>2, <2>3
  <2>5. QED BY <1>1, <2>4, CreatedStep
<1>4. CASE CreateWindowBrushFails(w)
  <2>1. PICK d \in Initialized : win' = [win EXCEPT ![w] = d]
    BY <1>4 DEF CreateWindowBrushFails
  <2>2. brushes' = brushes + (IF FALSE THEN 1 ELSE 0)
    BY <1>4 DEF CreateWindowBrushFails, DriverInv, ObjectsRight
  <2>3. IsCreated(d, FALSE)
    BY <1>2, <2>1
  <2>4. QED BY <1>1, <2>1, <2>2, <2>3, CreatedStep
<1>5. QED BY <1>3, <1>4

\* A creation that fails on the way leaves neither a window nor a handle, and
\* nobody has been told of the window that went.
LEMMA CreateWindowFailsStep ==
    ASSUME DriverInv, NEW w \in Windows, CreateWindowFails(w)
    PROVE  DriverInv'
<1> USE DEF DriverInv
<1>0. /\ w \notin memory /\ loop # "lost"
      /\ UNCHANGED <<memory, given, layout, brushes, lost, loop, subject, back>>
      /\ DOMAIN win = Windows
  BY DEF CreateWindowFails, objects, WindowsRight
<1>1. PICK fini : /\ win' = [win EXCEPT ![w] = fini.data]
                  /\ told' = [told EXCEPT ![w] = @ + (IF fini.reported THEN 1 ELSE 0)]
                  /\ ~fini.reported /\ IsBare(fini.data)
  BY FailedCreationIsBare DEF CreateWindowFails
<1>2. UNCHANGED told
  BY <1>1 DEF ObjectsRight
<1>3. /\ DOMAIN win' = Windows
      /\ IsBare(win'[w])
      /\ \A x \in Windows : x # w => win'[x] = win[x]
  BY <1>0, <1>1
<1>4. ObjectsRight' /\ LayoutsRight' /\ ToldOfLosses' /\ CallbacksRight'
  BY <1>0, <1>2 DEF ObjectsRight, LayoutsRight, ToldOfLosses, CallbacksRight
<1>5. WindowsRight'
  BY <1>3 DEF WindowsRight, IsBare
<1>6. HandlesAgree'
  <2>1. SUFFICES ASSUME NEW x \in Windows
                 PROVE  /\ win'[x].exists => x \in memory' /\ win'[x].userdata
                        /\ win'[x].hwnd = win'[x].exists
    BY DEF HandlesAgree
  <2>2. CASE x = w
    BY <1>3, <2>2 DEF IsBare, IsWindow
  <2>3. CASE x # w
    BY <1>0, <1>3, <2>3, HandleIsWindow DEF HandlesAgree
  <2>q. QED BY <2>2, <2>3
<1>7. BrushesOwned'
  <2>1. Brushed' = Brushed
    BY <1>0, <1>3 DEF Brushed, ObjectsRight
  <2>q. QED BY <1>0, <2>1 DEF BrushesOwned, Brushed
<1>q. QED BY <1>4, <1>5, <1>6, <1>7

\* The application destroys a window, also one the system has destroyed before.
LEMMA DestroyWindowStep ==
    ASSUME DriverInv, NEW w \in Windows, DestroyWindow(w)
    PROVE  DriverInv'
<1> USE DEF DriverInv
<1> DEFINE fini == Fini(win[w])
<1>0. /\ w \in memory /\ ~(loop = "lost" /\ subject = w)
      /\ memory' = memory \ {w} /\ given' = given \ {w}
      /\ layout' = [layout EXCEPT ![w] = NoLayout]
      /\ UNCHANGED <<lost, loop, subject, back>>
      /\ DOMAIN win = Windows /\ IsWindow(win[w])
  BY DEF DestroyWindow, WindowsRight, ObjectsRight
<1>1. win[w].hwnd = win[w].exists
  BY <1>0, HandleIsWindow
<1>2. ~fini.reported /\ fini.deleted = win[w].brush /\ IsBare(fini.data)
  BY <1>0, <1>1, FiniTellsNobody
<1>3. /\ win' = [win EXCEPT ![w] = IF fini.data.exists THEN fini.data ELSE Blank]
      /\ brushes' = brushes - (IF fini.deleted THEN 1 ELSE 0)
      /\ told' = [told EXCEPT ![w] = @ + (IF fini.reported THEN 1 ELSE 0)]
  BY DEF DestroyWindow
<1> HIDE DEF fini
<1>4. UNCHANGED told /\ brushes' = brushes - (IF win[w].brush THEN 1 ELSE 0)
  BY <1>2, <1>3 DEF ObjectsRight
<1>5. /\ DOMAIN win' = Windows
      /\ IsBare(win'[w])
      /\ \A x \in Windows : x # w => win'[x] = win[x]
  <2>1. win' = [win EXCEPT ![w] = Blank]
    BY <1>2, <1>3 DEF IsBare
  <2>q. QED BY <1>0, <2>1, BlankIsBare
<1>6. Brushed' = Brushed \ {w} /\ (w \in Brushed <=> win[w].brush)
  BY <1>0, <1>5 DEF Brushed, ObjectsRight
<1>7. Cardinality(Brushed') = brushes' /\ brushes' \in Nat
  <2>1. IsFiniteSet(Brushed) /\ Cardinality(Brushed) = brushes /\ brushes \in Nat
    BY BrushedFinite DEF Brushed, BrushesOwned, ObjectsRight
  <2>2. /\ IsFiniteSet(Brushed \ {w})
        /\ Cardinality(Brushed \ {w}) =
              IF w \in Brushed THEN Cardinality(Brushed) - 1 ELSE Cardinality(Brushed)
    BY <2>1, FS_RemoveElement
  <2>3. Cardinality(Brushed \ {w}) \in Nat
    BY <2>2, FS_CardinalityType
  <2>q. QED BY <2>1, <2>2, <2>3, <1>4, <1>6
<1>8. ObjectsRight'
  BY <1>0, <1>4, <1>7 DEF ObjectsRight
<1>9. WindowsRight'
  BY <1>5 DEF WindowsRight, IsBare
<1>10. LayoutsRight'
  <2>1. /\ DOMAIN layout' = Windows
        /\ \A x \in memory' : x \in memory /\ layout'[x] = layout[x]
    BY <1>0 DEF LayoutsRight, ObjectsRight
  <2>q. QED BY <2>1 DEF LayoutsRight
<1>11. ToldOfLosses'
  BY <1>0, <1>4 DEF ToldOfLosses
<1>12. CallbacksRight'
  BY <1>0, <1>5 DEF CallbacksRight
<1>13. HandlesAgree'
  <2>1. SUFFICES ASSUME NEW x \in Windows
                 PROVE  /\ win'[x].exists => x \in memory' /\ win'[x].userdata
                        /\ win'[x].hwnd # win'[x].exists =>
                              win'[x].hwnd /\ loop' = "lost" /\ subject' = x
    BY DEF HandlesAgree
  <2>2. CASE x = w
    BY <1>5, <2>2 DEF IsBare, IsWindow
  <2>3. CASE x # w
    BY <1>0, <1>5, <2>3 DEF HandlesAgree
  <2>q. QED BY <2>2, <2>3
<1>14. BrushesOwned'
  BY <1>7 DEF BrushesOwned, Brushed
<1>q. QED BY <1>8, <1>9, <1>10, <1>11, <1>12, <1>13, <1>14

-----------------------------------------------------------------------------
(* The theorems *)

\* The invariant holds of every state.
LEMMA DriverInvHolds == Spec => []DriverInv
<1>1. Init => DriverInv
  <2>1. SUFFICES ASSUME Init PROVE DriverInv
    OBVIOUS
  <2> USE <2>1 DEF Init
  <2>2. ObjectsRight /\ LayoutsRight /\ CallbacksRight /\ ToldOfLosses
    BY DEF ObjectsRight, LayoutsRight, CallbacksRight, ToldOfLosses, Backs
  <2>3. DOMAIN win = Windows /\ \A w \in Windows : IsBare(win[w])
    BY BlankIsBare
  <2>4. WindowsRight /\ HandlesAgree
    BY <2>3 DEF WindowsRight, HandlesAgree, IsBare, IsWindow
  <2>5. BrushesOwned
    <3>1. {w \in memory : win[w].brush} = {}
      OBVIOUS
    <3>q. QED BY <3>1, FS_EmptySet DEF BrushesOwned
  <2>q. QED BY <2>2, <2>4, <2>5 DEF DriverInv
<1>2. DriverInv /\ [Next]_vars => DriverInv'
  <2>1. SUFFICES ASSUME DriverInv, [Next]_vars PROVE DriverInv'
    OBVIOUS
  <2>2. CASE UNCHANGED vars
    <3>1. WindowsRight /\ LoopQuiet /\ UNCHANGED <<win, objects, brushes, told, lost>>
      BY <2>1, <2>2 DEF vars, windows, LoopQuiet, DriverInv
    <3>q. QED BY <2>1, <3>1, SameWindowsAreQuiet, QuietStep
  <2>3. CASE \/ CreateClient \/ DestroyClient \/ Quit \/ Run \/ BeginWaitReturns \/ GetFails
             \/ CloseReturns \/ RedrawReturns
             \/ \E w \in Windows : SetTitle(w) \/ SetVisible(w) \/ UserCloses(w)
                                   \/ SystemInvalidates(w)
    BY <2>1, <2>3, QuietActions
  <2>4. CASE Peek \/ Get
    BY <2>1, <2>4, TakeActions
  <2>5. CASE InvalidatedReturns
    BY <2>1, <2>5, InvalidatedReturnsStep
  <2>6. ASSUME NEW w \in Windows, CreateWindow(w) \/ CreateWindowBrushFails(w)
        PROVE  DriverInv'
    BY <2>1, <2>6, CreateWindowStep
  <2>7. ASSUME NEW w \in Windows, CreateWindowFails(w) PROVE DriverInv'
    BY <2>1, <2>7, CreateWindowFailsStep
  <2>8. ASSUME NEW w \in Windows, DestroyWindow(w) PROVE DriverInv'
    BY <2>1, <2>8, DestroyWindowStep
  <2>9. ASSUME NEW w \in Windows, SystemDestroys(w) PROVE DriverInv'
    BY <2>1, <2>9, SystemDestroysStep
  <2>q. QED BY <2>1, <2>2, <2>3, <2>4, <2>5, <2>6, <2>7, <2>8, <2>9 DEF Next, LoopStep
<1>q. QED BY <1>1, <1>2, PTL DEF Spec

\* Of every window the system destroyed the application has been told once, and of
\* none that it destroyed itself or whose creation failed: autk_windows_window_fini
\* clears the handle before DestroyWindow, and WM_DESTROY asks for it.
THEOREM LossesReported == Spec => []ToldOfLosses
<1>1. DriverInv => ToldOfLosses
  BY DEF DriverInv
<1>q. QED BY <1>1, DriverInvHolds, PTL

\* The pointer a window of the system keeps leads to an object that is allocated
\* and has that window's handle, except while it is told of the loss.
THEOREM PointersFindObjects == Spec => []HandlesAgree
<1>1. DriverInv => HandlesAgree
  BY DEF DriverInv
<1>q. QED BY <1>1, DriverInvHolds, PTL

\* No brush is left behind and none is deleted twice, whichever step of a creation
\* fails and whoever destroys the window first.
THEOREM NoBrushLeaks == Spec => []BrushesOwned
<1>1. DriverInv => BrushesOwned
  BY DEF DriverInv
<1>q. QED BY <1>1, DriverInvHolds, PTL

\* In every allocated block the data of driver and application lie inside, aligned
\* and apart, whatever size the application asks for, up to the largest there is.
THEOREM WindowBlocksSound == Spec => []BlocksSound
<1>1. DriverInv => BlocksSound
  <2>1. SUFFICES ASSUME DriverInv, NEW w \in memory
                 PROVE  IsSound(layout[w].block, ObjectSize, <<DriverDataSize, layout[w].user>>)
    BY DEF BlocksSound
  <2>2. PICK user \in UserSizes :
            LET block == Block(ObjectSize, <<DriverDataSize, user>>) IN
            layout[w] = [block |-> block, user |-> user] /\ ~block.overflow
    BY <2>1 DEF DriverInv, LayoutsRight
  <2>3. /\ ObjectSize \in 1 .. SizeCount - Align /\ DriverDataSize \in 0 .. SizeCount - 1
        /\ user \in 0 .. SizeCount - 1
    BY WindowsAssumption
  <2>4. IsSound(Block(ObjectSize, <<DriverDataSize, user>>), ObjectSize, <<DriverDataSize, user>>)
    BY <2>2, <2>3, BlockIsSound
  <2>q. QED BY <2>2, <2>4
<1>q. QED BY <1>1, DriverInvHolds, PTL

-----------------------------------------------------------------------------
(* The queue of messages *)

\* A message that is posted counts if it is a quit.
LEMMA QuitPosted ==
    ASSUME NEW S, NEW queue \in Seq(S), NEW e \in S
    PROVE  /\ IsFiniteSet(QuitsIn(queue)) /\ Cardinality(QuitsIn(queue)) \in Nat
           /\ Cardinality(QuitsIn(Append(queue, e)))
                  = Cardinality(QuitsIn(queue)) + (IF e = "quit" THEN 1 ELSE 0)
<1>1. PICK n \in Nat : n = Len(queue)
  OBVIOUS
<1>2. PICK longer : longer = Append(queue, e)
  OBVIOUS
<1>3. /\ DOMAIN queue = 1 .. n /\ DOMAIN longer = 1 .. n + 1 /\ longer[n + 1] = e
      /\ \A i \in 1 .. n : longer[i] = queue[i]
  BY <1>1, <1>2
<1>4. IsFiniteSet(QuitsIn(queue)) /\ Cardinality(QuitsIn(queue)) \in Nat
  <2>1. QuitsIn(queue) \subseteq 1 .. n
    BY <1>3 DEF QuitsIn
  <2>2. IsFiniteSet(1 .. n)
    BY <1>1, FS_Interval
  <2>3. IsFiniteSet(QuitsIn(queue))
    BY <2>1, <2>2, FS_Subset
  <2>4. QED BY <2>3, FS_CardinalityType
<1>5. QuitsIn(longer) = IF e = "quit" THEN QuitsIn(queue) \cup {n + 1} ELSE QuitsIn(queue)
  BY <1>3 DEF QuitsIn
<1>6. n + 1 \notin QuitsIn(queue)
  BY <1>3 DEF QuitsIn
<1>7. Cardinality(QuitsIn(queue) \cup {n + 1}) = Cardinality(QuitsIn(queue)) + 1
  BY <1>4, <1>6, FS_AddElement
<1>8. QED BY <1>2, <1>4, <1>5, <1>7

\* So does one that is taken.
LEMMA QuitTaken ==
    ASSUME NEW S, NEW queue \in Seq(S), queue # <<>>
    PROVE  /\ Head(queue) \in S /\ Tail(queue) \in Seq(S)
           /\ Cardinality(QuitsIn(queue)) = Cardinality(QuitsIn(Tail(queue)))
                                            + (IF Head(queue) = "quit" THEN 1 ELSE 0)
<1>1. PICK n \in Nat : n = Len(queue) /\ n >= 1
  OBVIOUS
<1>2. PICK rest : rest = Tail(queue)
  OBVIOUS
<1>3. /\ DOMAIN queue = 1 .. n /\ DOMAIN rest = 1 .. n - 1 /\ Head(queue) = queue[1]
      /\ \A i \in 1 .. n - 1 : rest[i] = queue[i + 1]
      /\ rest \in Seq(S) /\ Head(queue) \in S
  BY <1>1, <1>2
<1>4. IsFiniteSet(QuitsIn(rest)) /\ Cardinality(QuitsIn(rest)) \in Nat
  BY <1>3, QuitPosted
<1>5. PICK later : later = QuitsIn(queue) \ {1}
  OBVIOUS
<1>6. PICK f : f = [i \in QuitsIn(rest) |-> i + 1]
  OBVIOUS
<1>7. IsFiniteSet(later) /\ Cardinality(later) = Cardinality(QuitsIn(rest))
  <2>1. /\ \A i \in QuitsIn(rest) : i \in Int /\ i + 1 \in later
        /\ \A j \in later : j - 1 \in QuitsIn(rest) /\ j \in Int
    BY <1>1, <1>3, <1>5 DEF QuitsIn
  <2>2. /\ f \in [QuitsIn(rest) -> later]
        /\ \A i, j \in QuitsIn(rest) : f[i] = f[j] => i = j
        /\ \A j \in later : \E i \in QuitsIn(rest) : f[i] = j
    <3>1. \A i \in QuitsIn(rest) : f[i] = i + 1
      BY <1>6
    <3>2. ASSUME NEW j \in later PROVE \E i \in QuitsIn(rest) : f[i] = j
      <4>1. j - 1 \in QuitsIn(rest) /\ (j - 1) + 1 = j
        BY <2>1
      <4>2. QED BY <3>1, <4>1
    <3>3. QED BY <1>6, <2>1, <3>1, <3>2
  <2>3. ExistsBijection(QuitsIn(rest), later)
    BY <2>2 DEF ExistsBijection, Bijection, Injection, Surjection, IsInjective
  <2>4. QED BY <1>4, <2>3, FS_Bijection
<1>8. QuitsIn(queue) = IF Head(queue) = "quit" THEN later \cup {1} ELSE later
  BY <1>1, <1>3, <1>5 DEF QuitsIn
<1>9. Cardinality(later \cup {1}) = Cardinality(later) + 1
  BY <1>5, <1>7, FS_AddElement
<1>10. QED BY <1>2, <1>3, <1>4, <1>7, <1>8, <1>9

\* The messages to a window that go with it are no quits.
LEMMA WindowTakesNoQuits ==
    ASSUME NEW S, messages \in Seq(S), NEW w, w # "quit"
    PROVE  /\ WithoutMessages(w) \in Seq(S \ {w})
           /\ Cardinality(QuitsIn(WithoutMessages(w))) = Cardinality(QuitsIn(messages))
<1> DEFINE n == Len(messages)
           Next1(f, i) == IF i = 0 THEN <<>>
                          ELSE IF messages[i] = w THEN f[i - 1] ELSE Append(f[i - 1], messages[i])
           Eq(f) == f = [i \in 0 .. n |-> Next1(f, i)]
           kept == CHOOSE f : Eq(f)
<1>1. PICK T, Q : T = S \ {w} /\ Q = Seq(T)
  OBVIOUS
<1>2. n \in Nat /\ DOMAIN messages = 1 .. n /\ \A i \in 1 .. n : messages[i] \in S
  OBVIOUS
<1>3. WithoutMessages(w) = kept[n]
  BY DEF WithoutMessages
<1> HIDE DEF n
<1>4. \A i \in 1 .. n : messages[i] = w \/ messages[i] \in T
  BY <1>1, <1>2
<1>5. <<>> \in Q /\ \A s \in Q, e \in T : Append(s, e) \in Q
  BY <1>1
<1> DEFINE prev == [i \in 1 .. n |-> i - 1]
           step == [i \in 1 .. n |->
                       [s \in Q |-> IF messages[i] = w THEN s ELSE Append(s, messages[i])]]
<1>6. ASSUME NEW i \in 1 .. n
      PROVE  /\ prev[i] = i - 1 /\ prev[i] \in 0 .. i - 1
             /\ \A s \in Q : /\ step[i][s] = IF messages[i] = w THEN s ELSE Append(s, messages[i])
                             /\ step[i][s] \in Q
  BY <1>2, <1>4, <1>5
<1> HIDE DEF prev, step
<1>7. PICK g \in [0 .. n -> Q] : IsRecursive(g, n, <<>>, prev, step)
  <2>1. Descends(n, prev) /\ Preserves(n, Q, step)
    BY <1>6 DEF Descends, Preserves
  <2>2. QED BY <1>2, <1>5, <2>1, RecursionExists
<1>8. ASSUME NEW i \in 0 .. n PROVE g[i] = Next1(g, i)
  <2>1. CASE i = 0
    BY <1>7, <2>1 DEF IsRecursive
  <2>2. CASE i # 0
    <3>1. i \in 1 .. n /\ i - 1 \in 0 .. n
      BY <1>2, <2>2
    <3>2. g[i - 1] \in Q /\ g[i] = step[i][g[i - 1]]
      BY <1>6, <1>7, <3>1 DEF IsRecursive
    <3>3. QED BY <1>6, <2>2, <3>1, <3>2
  <2>3. QED BY <2>1, <2>2
<1>9. Eq(kept)
  <2>1. g = [i \in 0 .. n |-> g[i]]
    BY <1>7
  <2> HIDE DEF Next1
  <2>2. [i \in 0 .. n |-> g[i]] = [i \in 0 .. n |-> Next1(g, i)]
    BY <1>8
  <2>3. Eq(g)
    BY <2>1, <2>2
  <2>4. QED BY <2>3
<1> HIDE DEF kept
<1>10. \A i \in 0 .. n : kept[i] = Next1(kept, i)
  <2> HIDE DEF Next1
  <2>1. QED BY <1>9
<1> DEFINE Before(i) == {j \in 1 .. i : messages[j] = "quit"}
           Holds(i) == /\ kept[i] \in Q /\ IsFiniteSet(Before(i))
                       /\ Cardinality(QuitsIn(kept[i])) = Cardinality(Before(i))
           D == {i \in 0 .. n : Holds(i)}
<1>11. ASSUME NEW i \in 0 .. n, \A j \in 0 .. i - 1 : j \in D PROVE i \in D
  <2>1. CASE i = 0
    <3>1. kept[i] = <<>> /\ Before(i) = {} /\ QuitsIn(<<>>) = {}
      BY <1>10, <2>1 DEF QuitsIn
    <3>2. QED BY <1>5, <3>1, FS_EmptySet
  <2>2. CASE i # 0
    <3>1. i - 1 \in 0 .. i - 1 /\ i \in 1 .. n /\ i - 1 \in 0 .. n
      BY <1>2, <2>2
    <3>2. Holds(i - 1)
      BY <1>11, <3>1
    <3>3. Before(i) = IF messages[i] = "quit" THEN Before(i - 1) \cup {i} ELSE Before(i - 1)
      BY <3>1
    <3>4. i \notin Before(i - 1)
      BY <3>1
    <3>5. PICK before : before = Before(i - 1)
      OBVIOUS
    <3>6. IsFiniteSet(before) /\ Cardinality(QuitsIn(kept[i - 1])) = Cardinality(before)
          /\ kept[i - 1] \in Q
      BY <3>2, <3>5
    <3>7. Cardinality(before \cup {i}) = Cardinality(before) + 1 /\ IsFiniteSet(before \cup {i})
      BY <3>4, <3>5, <3>6, FS_AddElement
    <3>8. kept[i] = IF messages[i] = w THEN kept[i - 1] ELSE Append(kept[i - 1], messages[i])
      BY <1>10, <2>2
    <3>9. PICK now : now = Before(i)
      OBVIOUS
    <3>10. now = IF messages[i] = "quit" THEN before \cup {i} ELSE before
      BY <3>3, <3>5, <3>9
    <3> HIDE DEF Before
    <3>11. CASE messages[i] = w
      BY <3>6, <3>8, <3>9, <3>10, <3>11
    <3>12. CASE messages[i] # w
      <4>1. messages[i] \in T
        BY <1>4, <3>1, <3>12
      <4>2. kept[i - 1] \in Seq(T)
        BY <1>1, <3>6
      <4>3. Cardinality(QuitsIn(kept[i]))
                = Cardinality(before) + (IF messages[i] = "quit" THEN 1 ELSE 0)
        BY <3>6, <3>8, <3>12, <4>1, <4>2, QuitPosted
      <4>4. kept[i] \in Q
        BY <1>5, <3>6, <3>8, <3>12, <4>1
      <4>5. Cardinality(before) \in Nat
        BY <3>6, FS_CardinalityType
      <4>6. IsFiniteSet(now) /\ Cardinality(QuitsIn(kept[i])) = Cardinality(now)
        BY <3>6, <3>7, <3>10, <4>3, <4>5
      <4>7. QED BY <3>9, <4>4, <4>6
    <3>13. QED BY <3>11, <3>12
  <2>3. QED BY <2>1, <2>2
<1> HIDE DEF D
<1>12. \A i \in 0 .. n : i \in D
  BY <1>2, <1>11, RangeInduction
<1>13. Holds(n)
  <2>1. n \in D
    BY <1>2, <1>12
  <2>2. QED BY <2>1 DEF D
<1>14. QuitsIn(messages) = Before(n)
  BY <1>2 DEF QuitsIn
<1> HIDE DEF Before
<1>15. QED BY <1>1, <1>3, <1>13, <1>14

\* What a step does to the queue, and to the objects its messages are for.
QueueStep ==
    \/ UNCHANGED <<messages, posted, ended>> /\ memory \subseteq memory'
    \/ /\ messages' = Append(messages, "quit") /\ posted' = posted + 1
       /\ UNCHANGED <<ended, memory>>
    \/ \E w \in Windows : /\ win[w].visible /\ messages' = Append(messages, w)
                          /\ UNCHANGED <<posted, ended, memory>>
    \/ /\ messages # <<>> /\ messages' = Tail(messages)
       /\ ended' = ended + (IF Head(messages) = "quit" THEN 1 ELSE 0)
       /\ UNCHANGED <<posted, memory>>
    \/ \E w \in Windows : /\ messages' = WithoutMessages(w)
                          /\ UNCHANGED <<posted, ended>> /\ memory' \in {memory, memory \ {w}}

\* Every step is one of these.
LEMMA StepsOfTheQueue ==
    ASSUME [Next]_vars, ended \in Nat PROVE QueueStep
<1> USE DEF QueueStep
<1>1. CASE UNCHANGED vars
  BY <1>1 DEF vars, windows, objects, counts
<1>2. CASE CreateClient \/ DestroyClient \/ Run \/ GetFails
  BY <1>2 DEF CreateClient, DestroyClient, Run, GetFails, windows, objects, counts
<1>3. CASE Quit
  BY <1>3 DEF Quit, windows, objects
<1>4. CASE BeginWaitReturns \/ CloseReturns \/ RedrawReturns \/ InvalidatedReturns
  BY <1>4 DEF BeginWaitReturns, CloseReturns, RedrawReturns, InvalidatedReturns,
              windows, objects, counts
<1>5. CASE Peek \/ Get
  <2>1. CASE TakeQuit
    BY <2>1 DEF TakeQuit, windows, objects
  <2>2. ASSUME NEW next, TakeClose(next) PROVE QueueStep
    <3>1. /\ messages # <<>> /\ messages' = Tail(messages)
          /\ Head(messages) # "quit" /\ UNCHANGED <<posted, ended, memory>>
      BY <2>2 DEF TakeClose, windows, objects, counts
    <3>2. ended' = ended + (IF Head(messages) = "quit" THEN 1 ELSE 0)
      BY <3>1
    <3>3. QED BY <3>1, <3>2
  <2>3. ASSUME NEW next, TakePaint(next) PROVE QueueStep
    BY <2>3 DEF TakePaint, windows, objects, counts
  <2>4. CASE UNCHANGED <<client, class_registered, messages, windows, counts>>
    BY <2>4 DEF windows, objects, counts
  <2>5. QED BY <1>5, <2>1, <2>2, <2>3, <2>4 DEF Peek, Get
<1>6. ASSUME NEW w \in Windows,
             CreateWindow(w) \/ CreateWindowFails(w) \/ CreateWindowBrushFails(w)
      PROVE  QueueStep
  BY <1>6 DEF CreateWindow, CreateWindowFails, CreateWindowBrushFails, Allocate, objects, counts
<1>7. ASSUME NEW w \in Windows, SetTitle(w) \/ SetVisible(w) \/ SystemInvalidates(w)
      PROVE  QueueStep
  BY <1>7 DEF SetTitle, SetVisible, SystemInvalidates, objects, counts
<1>8. ASSUME NEW w \in Windows, UserCloses(w) PROVE QueueStep
  BY <1>8 DEF UserCloses, windows, objects
<1>9. ASSUME NEW w \in Windows, DestroyWindow(w) \/ SystemDestroys(w) PROVE QueueStep
  BY <1>9 DEF DestroyWindow, SystemDestroys, objects, counts
<1>10. QED BY <1>1, <1>2, <1>3, <1>4, <1>5, <1>6, <1>7, <1>8, <1>9 DEF Next, LoopStep

\* The messages posted are quits and windows, and the quits are counted.
QuitsInv ==
    /\ messages \in Seq({"quit"} \cup Windows)
    /\ posted \in Nat /\ ended \in Nat
    /\ OneQuitPerRun

\* Every step keeps it.
LEMMA QuitsStep ==
    ASSUME QuitsInv, QueueStep PROVE QuitsInv'
<1> DEFINE Names == {"quit"} \cup Windows
           quits == Cardinality(QuitsIn(messages))
           later == Cardinality(QuitsIn(messages'))
<1>1. /\ messages \in Seq(Names) /\ posted \in Nat /\ ended \in Nat
      /\ posted = ended + quits /\ "quit" \in Names
      /\ \A w \in Windows : w \in Names /\ w # "quit"
  BY WindowsAssumption DEF QuitsInv, OneQuitPerRun
<1>2. quits \in Nat
  BY <1>1, QuitPosted
<1> SUFFICES /\ messages' \in Seq(Names) /\ posted' \in Nat /\ ended' \in Nat
             /\ posted' = ended' + later
  BY DEF QuitsInv, OneQuitPerRun
<1> HIDE DEF Names
<1>3. CASE UNCHANGED <<messages, posted, ended>>
  BY <1>1, <1>3
<1>4. CASE messages' = Append(messages, "quit") /\ posted' = posted + 1 /\ UNCHANGED ended
  <2>1. messages' \in Seq(Names)
    BY <1>1, <1>4
  <2>2. later = quits + 1
    BY <1>1, <1>4, QuitPosted
  <2>3. QED BY <1>1, <1>2, <1>4, <2>1, <2>2
<1>5. ASSUME NEW w \in Windows, messages' = Append(messages, w), UNCHANGED <<posted, ended>>
      PROVE  /\ messages' \in Seq(Names) /\ posted' \in Nat /\ ended' \in Nat
             /\ posted' = ended' + later
  <2>1. messages' \in Seq(Names)
    BY <1>1, <1>5
  <2>2. later = quits + 0
    BY <1>1, <1>5, QuitPosted
  <2>3. QED BY <1>1, <1>2, <1>5, <2>1, <2>2
<1>6. CASE /\ messages # <<>> /\ messages' = Tail(messages)
           /\ ended' = ended + (IF Head(messages) = "quit" THEN 1 ELSE 0)
           /\ UNCHANGED posted
  <2>1. messages' \in Seq(Names)
    BY <1>1, <1>6, QuitTaken
  <2>2. later \in Nat
    BY <1>1, <2>1, QuitPosted
  <2>3. quits = later + (IF Head(messages) = "quit" THEN 1 ELSE 0)
    BY <1>1, <1>6, QuitTaken
  <2>4. QED BY <1>1, <1>2, <1>6, <2>1, <2>2, <2>3
<1>7. ASSUME NEW w \in Windows, messages' = WithoutMessages(w), UNCHANGED <<posted, ended>>
      PROVE  /\ messages' \in Seq(Names) /\ posted' \in Nat /\ ended' \in Nat
             /\ posted' = ended' + later
  <2>1. messages' \in Seq(Names \ {w}) /\ later = quits
    BY <1>1, <1>7, WindowTakesNoQuits
  <2>2. messages' \in Seq(Names)
    BY <2>1
  <2>3. QED BY <1>1, <1>7, <2>1, <2>2
<1> HIDE DEF quits, later
<1>8. QED BY <1>3, <1>4, <1>5, <1>6, <1>7 DEF QueueStep

\* Whatever callbacks and other threads post, and however windows take their
\* messages along: each quit waits or has ended one run of the loop, and none has
\* ended two (PeekMessageW and GetMessageW both look for WM_QUIT).
THEOREM QuitsEndRuns == Spec => []OneQuitPerRun
<1>1. Init => QuitsInv
  <2>1. SUFFICES ASSUME Init PROVE QuitsInv
    OBVIOUS
  <2>2. messages = <<>> /\ posted = 0 /\ ended = 0
    BY <2>1 DEF Init
  <2>3. QuitsIn(messages) = {}
    BY <2>2 DEF QuitsIn
  <2>4. QED BY <2>2, <2>3, FS_EmptySet DEF QuitsInv, OneQuitPerRun
<1>2. QuitsInv /\ [Next]_vars => QuitsInv'
  BY StepsOfTheQueue, QuitsStep DEF QuitsInv
<1>3. QuitsInv => OneQuitPerRun
  BY DEF QuitsInv
<1>4. QED BY <1>1, <1>2, <1>3, PTL DEF Spec

-----------------------------------------------------------------------------
(* Types *)

\* What a conversion gives: a title of the application, UTF-16 units, and a place
\* in a buffer.
LEMMA ConversionsTyped ==
    ASSUME NEW c \in Conversions
    PROVE  /\ c.wanted \in Titles /\ c.units \in Seq(CodeUnit)
           /\ c.call.end \in Nat /\ c.call.size \in Nat
<1>1. PICK t \in Titles, m \in MemoryAvailable : c = Converted(t, m)
  BY DEF Conversions
<1>2. m \in BOOLEAN
  BY DEF MemoryAvailable
<1>3. PICK text \in Seq(1 .. 255) : text = Bytes(t)
  <2>1. t \in Seq(Range(t)) /\ \A i \in DOMAIN t : IsCharacter(t[i])
    BY WindowsAssumption
  <2>2. QED BY <2>1, BytesAreBytes
<1>4. PICK items \in Seq(Item) : items = Items(text)
  BY ItemsTypes
<1>5. PICK call : call = WithUtf16(text, TRUE, TRUE, m)
  OBVIOUS
<1>6. call.done \in 0 .. Len(items) /\ call.end \in Nat /\ call.size \in Nat
  BY <1>2, <1>4, <1>5, WithUtf16Types
<1>7. PICK done : done = SubSeq(items, 1, call.done)
  OBVIOUS
<1>8. done \in Seq(Item)
  BY <1>4, <1>6, <1>7
<1>9. PICK units \in Seq(CodeUnit) : units = Utf16(done)
  BY <1>8, Utf16Types
<1>10. c = [wanted |-> t, call |-> call, units |-> units]
  BY <1>1, <1>3, <1>4, <1>5, <1>7, <1>9 DEF Converted
<1>11. QED BY <1>6, <1>10

TitlesEncoded == \A t \in Titles : IsUnicode(t)

IsText(d) == WholeOrCut(d.title, UnitsOf(d.wanted), {StackSize - 1, StackSize})

\* What a conversion leaves is the title's text, whole or cut.
LEMMA ConversionsAreText ==
    ASSUME NEW c \in Conversions, TitlesEncoded
    PROVE  WholeOrCut(c.units, UnitsOf(c.wanted), {StackSize - 1, StackSize})
<1>1. PICK t \in Titles, m \in MemoryAvailable : c = Converted(t, m)
  BY DEF Conversions
<1>2. m \in BOOLEAN
  BY DEF MemoryAvailable
<1>3. t \in Seq(Range(t)) /\ (\A i \in DOMAIN t : IsCharacter(t[i])) /\ IsUnicode(t)
  BY WindowsAssumption DEF TitlesEncoded
<1>4. Utf16(Items(Bytes(t))) = UnitsOf(t)
  BY <1>3, TextIsUnicode
<1>5. Bytes(t) \in Seq(1 .. 255)
  BY <1>3, BytesAreBytes
<1>6. PICK done : done = WithUtf16(Bytes(t), TRUE, TRUE, m).done
  OBVIOUS
<1>7. WholeOrCut(Utf16(SubSeq(Items(Bytes(t)), 1, done)), UnitsOf(t),
                 {StackSize - 1, StackSize})
  BY <1>2, <1>4, <1>5, <1>6, Utf16WholeOrCut
<1>8. PICK units : units = Utf16(SubSeq(Items(Bytes(t)), 1, done))
  OBVIOUS
<1>9. c.wanted = t /\ c.units = units
  BY <1>1, <1>6, <1>8 DEF Converted
<1>10. QED BY <1>7, <1>8, <1>9

\* A window without a title shows none.
LEMMA BlankIsText == IsText(Blank)
<1>1. PICK seqs : seqs = [i \in DOMAIN <<>> |-> <<>>[i].units]
  OBVIOUS
<1>2. seqs = <<>>
  BY <1>1
<1>3. UnitsOf(<<>>) = <<>>
  BY <1>1, <1>2 DEF UnitsOf, FlattenSeq
<1>4. Blank.title = <<>> /\ Blank.wanted = <<>>
  BY DEF Blank
<1>5. QED BY <1>3, <1>4 DEF IsText, WholeOrCut

\* A record of a window; only one that exists is shown, and what it shows is the
\* text it was given if the application's titles are Unicode.
IsData(d) == d \in WindowData /\ (d.visible => d.exists) /\ (TitlesEncoded => IsText(d))

\* The changes of a record that the actions make keep it one.
LEMMA DataKept ==
    /\ IsData(Blank) /\ IsData(Created(Blank)) /\ IsData(PointsBack(Created(Blank)))
    /\ \A d : IsData(d) =>
          /\ IsData(Gone(d)) /\ IsData(Fini(d).data)
          /\ IsData([d EXCEPT !.hwnd = FALSE]) /\ IsData([d EXCEPT !.dirty = FALSE])
          /\ IsData([d EXCEPT !.dirty = TRUE])
          /\ \A b \in BOOLEAN : IsData([d EXCEPT !.brush = b])
          /\ d.exists => IsData([d EXCEPT !.visible = ~@, !.dirty = ~d.visible])
          /\ \A c \in Conversions : IsData(Titled(d, c))
<1>1. PICK T, Q : T = Titles \cup {<<>>} /\ Q = Seq(CodeUnit)
  OBVIOUS
<1>2. <<>> \in T /\ <<>> \in Q /\ 0 \in Nat /\ StackSize \in Nat
  BY <1>1, StackAssumption
<1>3. WindowData = [hwnd : BOOLEAN, brush : BOOLEAN, exists : BOOLEAN, userdata : BOOLEAN,
                    visible : BOOLEAN, dirty : BOOLEAN, wanted : T,
                    title : Q, end : Nat, size : Nat]
  BY <1>1 DEF WindowData
<1>4. IsData(Blank) /\ IsData(Created(Blank)) /\ IsData(PointsBack(Created(Blank)))
  <2>1. IsData(Blank)
    BY <1>2, <1>3, BlankIsText DEF IsData, Blank
  <2>2. \A d : IsData(d) => IsData(Created(d)) /\ IsData(PointsBack(d))
    BY <1>3 DEF IsData, IsText, Created, PointsBack
  <2>3. QED BY <2>1, <2>2
<1>5. \A d : IsData(d) => IsData(Gone(d))
  BY <1>3 DEF IsData, IsText, Gone
<1>6. \A d : IsData(d) => IsData(Fini(d).data)
  <2>1. SUFFICES ASSUME NEW d, IsData(d) PROVE IsData(Fini(d).data)
    OBVIOUS
  <2>2. PICK cleared : cleared = [d EXCEPT !.hwnd = FALSE, !.brush = FALSE]
    OBVIOUS
  <2>3. IsData(cleared)
    BY <1>3, <2>1, <2>2 DEF IsData, IsText
  <2>4. PICK gone : gone = Gone(cleared)
    OBVIOUS
  <2>5. PICK r : r = (d.hwnd /\ Reports(cleared))
    OBVIOUS
  <2>6. Fini(d) = [data |-> IF d.hwnd THEN gone ELSE cleared, reported |-> r, deleted |-> d.brush]
    BY <2>2, <2>4, <2>5 DEF Fini
  <2>7. IsData(IF d.hwnd THEN gone ELSE cleared)
    BY <1>5, <2>3, <2>4
  <2>8. QED BY <2>6, <2>7
<1>7. ASSUME NEW d, IsData(d)
      PROVE  /\ IsData([d EXCEPT !.hwnd = FALSE]) /\ IsData([d EXCEPT !.dirty = FALSE])
             /\ IsData([d EXCEPT !.dirty = TRUE])
             /\ \A b \in BOOLEAN : IsData([d EXCEPT !.brush = b])
  BY <1>3, <1>7 DEF IsData, IsText
<1>8. ASSUME NEW d, IsData(d), d.exists
      PROVE  IsData([d EXCEPT !.visible = ~@, !.dirty = ~d.visible])
  <2>1. PICK v \in BOOLEAN : v = ~d.visible
    OBVIOUS
  <2>2. IsData([d EXCEPT !.visible = v, !.dirty = v])
    BY <1>3, <1>8 DEF IsData, IsText
  <2>3. QED BY <2>1, <2>2
<1>9. ASSUME NEW d, IsData(d), NEW c \in Conversions PROVE IsData(Titled(d, c))
  <2>1. PICK wanted, title, end, size :
            wanted = c.wanted /\ title = c.units /\ end = c.call.end /\ size = c.call.size
    OBVIOUS
  <2>2. wanted \in T /\ title \in Q /\ end \in Nat /\ size \in Nat
    BY <1>1, <2>1, ConversionsTyped
  <2>3. PICK e : e = [d EXCEPT !.wanted = wanted, !.title = title, !.end = end, !.size = size]
    OBVIOUS
  <2>4. IsData(e)
    <3>1. e.title = title /\ e.wanted = wanted
      BY <1>3, <1>9, <2>3 DEF IsData
    <3>2. TitlesEncoded => IsText(e)
      BY <2>1, <3>1, ConversionsAreText DEF IsText
    <3>3. e \in WindowData /\ (e.visible => e.exists)
      BY <1>3, <1>9, <2>2, <2>3 DEF IsData
    <3>4. QED BY <3>2, <3>3 DEF IsData
  <2>5. Titled(d, c) = d \/ Titled(d, c) = e
    BY <2>1, <2>3 DEF Titled
  <2>6. QED BY <1>9, <2>4, <2>5
<1>10. QED BY <1>4, <1>5, <1>6, <1>7, <1>8, <1>9

\* So is what the driver's init leaves.
LEMMA InitializedIsData == \A d \in Initialized : IsData(d)
<1>1. PICK blank : blank = PointsBack(Created(Blank)) /\ IsData(blank)
  BY DataKept
<1>2. \A c \in Conversions : IsData(Titled(blank, c))
  BY <1>1, DataKept
<1>3. QED BY <1>1, <1>2 DEF Initialized

WindowsTyped == win \in [Windows -> WindowData] /\ \A w \in Windows : IsData(win[w])

\* Where the client is, and where its loop is and goes on.
PlacesTyped ==
    /\ client \in {"none", "up", "gone"} /\ class_registered \in BOOLEAN
    /\ loop \in {"out", "peek", "wait", "get", "close", "paint", "lost"}
    /\ subject \in Windows /\ back \in Backs /\ events \in Nat

\* Messages are for objects that are allocated.
MessagesTyped == messages \in Seq({"quit"} \cup memory)

\* Records are replaced by records.
LEMMA WindowsTypedStep ==
    ASSUME PlacesTyped, WindowsTyped, [Next]_vars PROVE WindowsTyped'
<1> DEFINE Replaced(w) == \E d : IsData(d) /\ win' = [win EXCEPT ![w] = d]
<1>1. ASSUME NEW w, Replaced(w) PROVE WindowsTyped'
  BY <1>1 DEF WindowsTyped, IsData
<1>2. CASE UNCHANGED win
  BY <1>2 DEF WindowsTyped
<1>3. subject \in Windows /\ \A w \in Windows : IsData(win[w])
  BY DEF PlacesTyped, WindowsTyped
<1>4. CASE \/ UNCHANGED vars \/ CreateClient \/ DestroyClient \/ Quit \/ Run \/ GetFails
           \/ BeginWaitReturns \/ CloseReturns \/ \E w \in Windows : UserCloses(w)
  <2>1. UNCHANGED win
    BY <1>4 DEF vars, windows, CreateClient, DestroyClient, Quit, Run, GetFails,
                BeginWaitReturns, CloseReturns, UserCloses
  <2>2. QED BY <1>2, <2>1
<1>5. CASE Peek \/ Get
  <2>1. UNCHANGED win
    BY <1>5 DEF Peek, Get, TakeQuit, TakeClose, TakePaint, windows
  <2>2. QED BY <1>2, <2>1
<1>6. CASE RedrawReturns \/ InvalidatedReturns
  <2>1. \/ win' = [win EXCEPT ![subject] = [win[subject] EXCEPT !.dirty = FALSE]]
        \/ win' = [win EXCEPT ![subject] = [win[subject] EXCEPT !.hwnd = FALSE]]
    BY <1>6 DEF RedrawReturns, InvalidatedReturns
  <2>2. Replaced(subject)
    BY <1>3, <2>1, DataKept
  <2>3. QED BY <1>1, <2>2
<1>7. ASSUME NEW w \in Windows, CreateWindow(w) PROVE Replaced(w)
  <2>1. PICK d \in Initialized, opaque \in BOOLEAN :
            win' = [win EXCEPT ![w] = [d EXCEPT !.brush = opaque]]
    BY <1>7 DEF CreateWindow
  <2>2. IsData(d)
    BY InitializedIsData
  <2>3. QED BY <2>1, <2>2, DataKept
<1>8. ASSUME NEW w \in Windows, CreateWindowFails(w) \/ CreateWindowBrushFails(w)
      PROVE  Replaced(w)
  <2>1. CASE CreateWindowFails(w)
    <3>1. PICK d : IsData(d) /\ win' = [win EXCEPT ![w] = Fini(d).data]
      BY <2>1, DataKept DEF CreateWindowFails
    <3>2. QED BY <3>1, DataKept
  <2>2. CASE CreateWindowBrushFails(w)
    BY <2>2, InitializedIsData DEF CreateWindowBrushFails
  <2>3. QED BY <1>8, <2>1, <2>2
<1>9. ASSUME NEW w \in Windows, DestroyWindow(w) PROVE Replaced(w)
  <2>1. win' = [win EXCEPT ![w] = Fini(win[w]).data] \/ win' = [win EXCEPT ![w] = Blank]
    BY <1>9 DEF DestroyWindow
  <2>2. QED BY <1>3, <2>1, DataKept
<1>10. ASSUME NEW w \in Windows, SetTitle(w) PROVE Replaced(w)
  <2>1. PICK c \in Conversions : win' = [win EXCEPT ![w] = Titled(win[w], c)]
    BY <1>10 DEF SetTitle
  <2>2. QED BY <1>3, <2>1, DataKept
<1>11. ASSUME NEW w \in Windows, SetVisible(w) PROVE Replaced(w)
  <2>1. PICK d : d = win[w]
    OBVIOUS
  <2>2. win' = [win EXCEPT ![w] = [d EXCEPT !.visible = ~@, !.dirty = ~d.visible]]
        /\ d.exists
    BY <1>11, <2>1 DEF SetVisible
  <2>3. QED BY <1>3, <2>1, <2>2, DataKept
<1>12. ASSUME NEW w \in Windows, SystemInvalidates(w) PROVE Replaced(w)
  <2>1. win' = [win EXCEPT ![w] = [win[w] EXCEPT !.dirty = TRUE]]
    BY <1>12 DEF SystemInvalidates
  <2>2. QED BY <1>3, <2>1, DataKept
<1>13. ASSUME NEW w \in Windows, SystemDestroys(w) PROVE Replaced(w)
  <2>1. win' = [win EXCEPT ![w] = Gone(win[w])]
    BY <1>13 DEF SystemDestroys
  <2>2. QED BY <1>3, <2>1, DataKept
<1> HIDE DEF Replaced
<1>14. QED BY <1>1, <1>4, <1>5, <1>6, <1>7, <1>8, <1>9, <1>10, <1>11, <1>12, <1>13
           DEF Next, LoopStep

\* The loop moves between its places.
LEMMA PlacesTypedStep ==
    ASSUME PlacesTyped, messages \in Seq({"quit"} \cup Windows), [Next]_vars
    PROVE  PlacesTyped'
<1> USE DEF PlacesTyped, Backs, Goto, Callback
<1>1. CASE UNCHANGED vars
  BY <1>1 DEF vars, counts
<1>2. CASE CreateClient \/ DestroyClient \/ Quit \/ Run \/ GetFails
  BY <1>2 DEF CreateClient, DestroyClient, Quit, Run, GetFails, counts
<1>3. CASE BeginWaitReturns \/ CloseReturns \/ RedrawReturns \/ InvalidatedReturns
  BY <1>3 DEF BeginWaitReturns, CloseReturns, RedrawReturns, InvalidatedReturns, counts
<1>4. CASE Peek \/ Get
  <2>1. UNCHANGED <<client, class_registered, events>>
    BY <1>4 DEF Peek, Get, TakeQuit, TakeClose, TakePaint, counts
  <2>2. CASE TakeQuit \/ (Goto("wait") /\ loop = "peek")
    BY <2>1, <2>2 DEF TakeQuit
  <2>3. ASSUME NEW next \in {"wait", "peek"}, TakeClose(next) PROVE PlacesTyped'
    <3>1. Head(messages) \in Windows
      BY <2>3, QuitTaken DEF TakeClose
    <3>2. QED BY <2>1, <2>3, <3>1 DEF TakeClose
  <2>4. ASSUME NEW next \in {"wait", "peek"}, TakePaint(next) PROVE PlacesTyped'
    BY <2>1, <2>4 DEF TakePaint, NeedsPaint
  <2>5. QED BY <1>4, <2>2, <2>3, <2>4 DEF Peek, Get
<1>5. ASSUME NEW w \in Windows,
             CreateWindow(w) \/ CreateWindowFails(w) \/ CreateWindowBrushFails(w)
      PROVE  PlacesTyped'
  BY <1>5 DEF CreateWindow, CreateWindowFails, CreateWindowBrushFails, counts
<1>6. ASSUME NEW w \in Windows,
             DestroyWindow(w) \/ SetTitle(w) \/ SetVisible(w) \/ UserCloses(w)
             \/ SystemInvalidates(w)
      PROVE  PlacesTyped'
  BY <1>6 DEF DestroyWindow, SetTitle, SetVisible, UserCloses, SystemInvalidates, counts
<1>7. ASSUME NEW w \in Windows, SystemDestroys(w) PROVE PlacesTyped'
  BY <1>7 DEF SystemDestroys
<1>8. QED BY <1>1, <1>2, <1>3, <1>4, <1>5, <1>6, <1>7 DEF Next, LoopStep

\* A window the user can close is shown, and so has its object; an object that
\* goes takes its messages along.
LEMMA MessagesTypedStep ==
    ASSUME DriverInv, WindowsTyped, MessagesTyped, QueueStep
    PROVE  MessagesTyped'
<1>1. PICK S : S = {"quit"} \cup memory
  OBVIOUS
<1>2. messages \in Seq(S) /\ "quit" \in S /\ \A w \in memory : w \in S
  BY <1>1 DEF MessagesTyped
<1>3. CASE UNCHANGED messages /\ memory \subseteq memory'
  BY <1>3 DEF MessagesTyped
<1>4. CASE messages' = Append(messages, "quit") /\ UNCHANGED memory
  BY <1>1, <1>2, <1>4 DEF MessagesTyped
<1>5. ASSUME NEW w \in Windows, win[w].visible, messages' = Append(messages, w),
             UNCHANGED memory
      PROVE  MessagesTyped'
  <2>1. w \in S
    BY <1>2, <1>5 DEF WindowsTyped, IsData, DriverInv, HandlesAgree
  <2>2. QED BY <1>1, <1>2, <1>5, <2>1 DEF MessagesTyped
<1>6. CASE messages # <<>> /\ messages' = Tail(messages) /\ UNCHANGED memory
  BY <1>1, <1>2, <1>6, QuitTaken DEF MessagesTyped
<1>7. ASSUME NEW w \in Windows, messages' = WithoutMessages(w), memory' \in {memory, memory \ {w}}
      PROVE  MessagesTyped'
  <2>1. w # "quit"
    BY WindowsAssumption
  <2>2. messages' \in Seq(S \ {w})
    BY <1>2, <1>7, <2>1, WindowTakesNoQuits
  <2>3. S \ {w} \subseteq {"quit"} \cup memory'
    BY <1>1, <1>7
  <2>4. QED BY <2>2, <2>3 DEF MessagesTyped
<1>8. QED BY <1>3, <1>4, <1>5, <1>6, <1>7 DEF QueueStep

\* The quits, and the types of the variables.
TypesInv == QuitsInv /\ PlacesTyped /\ WindowsTyped /\ MessagesTyped

\* They hold together, and with what the driver keeps right.
LEMMA TypesInvHolds == Spec => []TypesInv
<1>1. Init => TypesInv
  <2>1. SUFFICES ASSUME Init PROVE TypesInv
    OBVIOUS
  <2>2. messages = <<>> /\ posted = 0 /\ ended = 0
    BY <2>1 DEF Init
  <2>3. QuitsIn(messages) = {}
    BY <2>2 DEF QuitsIn
  <2>4. QuitsInv
    BY <2>2, <2>3, FS_EmptySet DEF QuitsInv, OneQuitPerRun
  <2>5. WindowsTyped
    <3>1. win = [w \in Windows |-> Blank]
      BY <2>1 DEF Init
    <3>2. Blank \in WindowData /\ IsData(Blank)
      BY DataKept DEF IsData
    <3>3. QED BY <3>1, <3>2 DEF WindowsTyped
  <2>6. PlacesTyped /\ MessagesTyped
    <3>1. /\ client = "none" /\ class_registered = FALSE /\ loop = "out"
          /\ subject \in Windows /\ back = "out" /\ events = 0
      BY <2>1 DEF Init
    <3>2. PlacesTyped
      BY <3>1 DEF PlacesTyped, Backs
    <3>3. PICK S : S = {"quit"} \cup memory
      OBVIOUS
    <3>4. <<>> \in Seq(S)
      OBVIOUS
    <3>5. QED BY <2>2, <3>2, <3>3, <3>4 DEF MessagesTyped
  <2>7. QED BY <2>4, <2>5, <2>6 DEF TypesInv
<1>2. DriverInv /\ TypesInv /\ [Next]_vars => TypesInv'
  <2>1. SUFFICES ASSUME DriverInv, TypesInv, [Next]_vars PROVE TypesInv'
    OBVIOUS
  <2>2. QueueStep
    BY <2>1, StepsOfTheQueue DEF TypesInv, QuitsInv
  <2>3. QuitsInv' /\ MessagesTyped'
    BY <2>1, <2>2, QuitsStep, MessagesTypedStep DEF TypesInv
  <2>4. PlacesTyped' /\ WindowsTyped'
    BY <2>1, PlacesTypedStep, WindowsTypedStep DEF TypesInv, QuitsInv
  <2>5. QED BY <2>3, <2>4 DEF TypesInv
<1>3. QED BY <1>1, <1>2, DriverInvHolds, PTL DEF Spec

\* Every variable of the Windows back end has its type, for any titles, and every
\* message is a quit or for an object that is allocated.
THEOREM TypesHold == Spec => []TypeOK
<1>1. DriverInv /\ TypesInv => TypeOK
  <2>1. SUFFICES ASSUME DriverInv, TypesInv PROVE TypeOK
    OBVIOUS
  <2>2. win \in [Windows -> WindowData]
    BY <2>1 DEF TypesInv, WindowsTyped
  <2>3. ASSUME NEW w \in memory
        PROVE  layout[w].block.size \in 0 .. SizeCount - 1 /\ layout[w].user \in UserSizes
    <3>1. PICK user, block :
              /\ user \in UserSizes
              /\ block = Block(ObjectSize, <<DriverDataSize, user>>)
              /\ layout[w] = [block |-> block, user |-> user] /\ ~block.overflow
      BY <2>1 DEF DriverInv, LayoutsRight
    <3>2. /\ ObjectSize \in 1 .. SizeCount - Align /\ DriverDataSize \in 0 .. SizeCount - 1
          /\ user \in 0 .. SizeCount - 1
      BY <3>1, WindowsAssumption
    <3>3. block.size \in 0 .. SizeCount - 1
      BY <3>1, <3>2, BlockIsSound
    <3>4. QED BY <3>1, <3>3
  <2>4. {brushes, posted, ended, events} \subseteq Nat
        /\ given \subseteq memory /\ memory \subseteq Windows
        /\ told \in [Windows -> Nat] /\ lost \in [Windows -> Nat]
    BY <2>1 DEF TypesInv, DriverInv, ObjectsRight, ToldOfLosses, QuitsInv,
                PlacesTyped
  <2>5. QED BY <2>1, <2>2, <2>3, <2>4 DEF TypeOK, TypesInv, PlacesTyped, MessagesTyped,
                                            Backs
<1>2. QED BY <1>1, DriverInvHolds, TypesInvHolds, PTL

\* The title the system shows is the text the application set, for any titles of
\* Unicode characters and bytes that are none: autk_windows_window_set_title counts,
\* converts and cuts on both sides of its stack buffer as the standard says.
THEOREM TitlesAreText ==
    ASSUME \A t \in Titles : IsUnicode(t)
    PROVE  Spec => []TitleIsText
<1>1. TitlesEncoded
  BY DEF TitlesEncoded
<1>2. TypesInv => TitleIsText
  BY <1>1 DEF TypesInv, WindowsTyped, IsData, IsText, TitleIsText
<1>3. QED BY <1>2, TypesInvHolds, PTL
=============================================================================
