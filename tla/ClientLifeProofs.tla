-------------------------- MODULE ClientLifeProofs --------------------------
(***************************************************************************)
(* Theorems about ClientLife, for any number of clients, windows, styles   *)
(* and threads, and for any set of steps that may fail; only that no       *)
(* client ever closes a descriptor of somebody else needs three steps of   *)
(* autk_x11_client_init not to fail (NoEarlyFailure).                      *)
(***************************************************************************)
EXTENDS ClientLife, StylesProofs, TextConversionProofs

-----------------------------------------------------------------------------
(* Acquiring and returning.  A record of what a client has acquired, and what
   each step of its creation and destruction makes of it. *)

Numbers(display, read, write) ==
    [k \in Kinds |-> IF k = "display" THEN display ELSE IF k = "read" THEN read ELSE write]

Acquired(table, display, read, write, things) ==
    [table |-> table, fd |-> Numbers(display, read, write), held |-> things]

\* What autk_posix_job_queue_fini leaves of a number it has closed.
Shut(number) == IF number >= 0 THEN -1 ELSE number

\* What the queue has, and what the driver has.
QueueThings == {"semaphore"}
DriverThings == {"semaphore", "map buffer", "colormap", "connection"}

\* The fields of such a record.
LEMMA Fields ==
    ASSUME NEW t, NEW d, NEW r, NEW w, NEW h
    PROVE  /\ Acquired(t, d, r, w, h).table = t /\ Acquired(t, d, r, w, h).held = h
           /\ Acquired(t, d, r, w, h).fd = Numbers(d, r, w)
           /\ Numbers(d, r, w) = [k \in Kinds |-> Numbers(d, r, w)[k]]
           /\ Numbers(d, r, w)["display"] = d
           /\ Numbers(d, r, w)["read"] = r /\ Numbers(d, r, w)["write"] = w
BY DEF Acquired, Numbers, Kinds

\* The connection takes a descriptor.
LEMMA Connecting ==
    ASSUME NEW c, NEW t, NEW d, NEW r, NEW w, NEW h
    PROVE  Connected(c, Acquired(t, d, r, w, h))
             = Acquired(Open(t, <<c, "display">>), LowestFree(t), r, w, h \cup {"connection"})
BY DEF Connected, Acquired, Numbers, Kinds

\* The colormap takes none.
LEMMA WithColours ==
    ASSUME NEW t, NEW d, NEW r, NEW w, NEW h
    PROVE  WithColormap(Acquired(t, d, r, w, h)) = Acquired(t, d, r, w, h \cup {"colormap"})
<1>1. ASSUME NEW s, s = Acquired(t, d, r, w, h), NEW u, u = WithColormap(s)
      PROVE  u = Acquired(t, d, r, w, h \cup {"colormap"})
  BY <1>1 DEF WithColormap, Acquired
<1>2. QED BY <1>1

\* The queue first says that it has none.
LEMMA Blanked ==
    ASSUME NEW t, NEW d, NEW r, NEW w, NEW h
    PROVE  QueueBlank(Acquired(t, d, r, w, h)) = Acquired(t, d, -1, -1, h)
<1>1. [Numbers(d, r, w) EXCEPT !["read"] = -1, !["write"] = -1] = Numbers(d, -1, -1)
  BY DEF Numbers, Kinds
<1>2. ASSUME NEW s, s = Acquired(t, d, r, w, h), NEW u, u = QueueBlank(s)
      PROVE  u = Acquired(t, d, -1, -1, h)
  BY <1>1, <1>2 DEF QueueBlank, Acquired
<1>3. QED BY <1>2

\* The semaphore takes none.
LEMMA WithPermits ==
    ASSUME NEW t, NEW d, NEW r, NEW w, NEW h
    PROVE  WithSemaphore(Acquired(t, d, r, w, h)) = Acquired(t, d, r, w, h \cup {"semaphore"})
<1>1. ASSUME NEW s, s = Acquired(t, d, r, w, h), NEW u, u = WithSemaphore(s)
      PROVE  u = Acquired(t, d, r, w, h \cup {"semaphore"})
  BY <1>1 DEF WithSemaphore, Acquired
<1>2. QED BY <1>1

\* The pipe takes two.
LEMMA WithEnds ==
    ASSUME NEW c, NEW t, NEW d, NEW r, NEW w, NEW h,
           NEW one, one = Open(t, <<c, "read">>), NEW all, all = Open(one, <<c, "write">>)
    PROVE  WithPipe(c, Acquired(t, d, r, w, h))
             = Acquired(all, d, LowestFree(t), LowestFree(one), h)
BY DEF WithPipe, Acquired, Numbers, Kinds

\* What autk_posix_job_queue_fini leaves.
LEMMA QueueReturned ==
    ASSUME NEW t, NEW d, NEW r, NEW w, NEW h
    PROVE  QueueFini(Acquired(t, d, r, w, h))
             = Acquired(Close(Close(t, r), w), d, Shut(r), Shut(w), h \ QueueThings)
BY DEF QueueThings, QueueFini, Acquired, Numbers, Kinds, Shut

\* What autk_x11_client_fini leaves.
LEMMA ClientReturned ==
    ASSUME NEW t, NEW d, NEW r, NEW w, NEW h
    PROVE  /\ ClientFini(Acquired(t, d, r, w, h)).table
                = IF "connection" \in h THEN Close(Close(Close(t, r), w), d)
                                       ELSE Close(Close(t, r), w)
           /\ ClientFini(Acquired(t, d, r, w, h)).held = h \ DriverThings
           /\ ClientFini(Acquired(t, d, r, w, h)).fd = Numbers(d, Shut(r), Shut(w))
<1> DEFINE q == Close(Close(t, r), w)
           e == Acquired(q, d, Shut(r), Shut(w), h \ QueueThings)
<1>1. Acquired(t, d, r, w, h).fd["display"] = d /\ Acquired(t, d, r, w, h).held = h
  BY Fields
<1>2. QueueFini(Acquired(t, d, r, w, h)) = e
  BY QueueReturned
<1>3. ASSUME NEW u, u = ClientFini(Acquired(t, d, r, w, h)), NEW x, x = e
      PROVE  u = [x EXCEPT !.table = IF "connection" \in h THEN Close(@, d) ELSE @,
                           !.held = @ \ {"map buffer", "colormap", "connection"}]
  BY <1>1, <1>2, <1>3 DEF ClientFini
<1>4. ASSUME NEW u, NEW x, x = e,
             u = [x EXCEPT !.table = IF "connection" \in h THEN Close(@, d) ELSE @,
                           !.held = @ \ {"map buffer", "colormap", "connection"}]
      PROVE  /\ u.table = IF "connection" \in h THEN Close(q, d) ELSE q
             /\ u.held = (h \ QueueThings) \ {"map buffer", "colormap", "connection"}
             /\ u.fd = Numbers(d, Shut(r), Shut(w))
  BY <1>4 DEF Acquired
<1>5. (h \ QueueThings) \ {"map buffer", "colormap", "connection"} = h \ DriverThings
  BY DEF DriverThings, QueueThings
<1>6. QED BY <1>3, <1>4, <1>5

-----------------------------------------------------------------------------
(* The invariant *)

Owners == {<<>>, <<"app">>} \cup (Clients \X Kinds)

\* What has been acquired when autk_client_create has come so far.
Bare == {"memory"}
Joined == {"memory", "connection"}
Coloured == {"memory", "connection", "colormap"}
Held == {"memory", "connection", "colormap", "semaphore"}

\* A descriptor that is open for a client is one of the numbers of that client,
\* which the application has; the application has none of its own but 0.
OwnersRight ==
    /\ owner \in [Descriptors -> Owners]
    /\ driver \in [Clients -> [Kinds -> Descriptors \cup {-1}]]
    /\ \A c \in up, k \in Kinds : driver[c][k] \in Descriptors
    /\ \A d \in Descriptors : owner[d] = <<"app">> => d = 0
    /\ \A d \in Descriptors, c \in Clients, k \in Kinds :
          owner[d] = <<c, k>> => c \in up /\ driver[c][k] = d

\* A client holds all it needs or it holds nothing.
HeldRight ==
    /\ up \subseteq Clients /\ held \in [Clients -> SUBSET Resources]
    /\ \A c \in Clients : IF c \in up THEN Held \subseteq held[c] ELSE held[c] = {}

\* Without the client there is no list of its fallback styles.
ListsRight == \A c \in Clients \ up : fallback[c] = <<>> /\ room[c] = 0

\* A title has all its parts, and its terminator is inside the buffer; its two
\* forms agree if the application's titles are Unicode.
TitlesEncoded == \A t \in Titles : IsUnicode(t)
IsText(t) == WholeOrCut(t.legacy, Latin1Of(t.net), {StackSize - 1})
IsTitle(t) ==
    DOMAIN t = DOMAIN Untitled /\ t.end < t.size /\ (TitlesEncoded => IsText(t))

WindowsRight ==
    /\ given \subseteq memory /\ memory \subseteq Windows
    /\ client_of \in [Windows -> Clients]
    /\ title = [w \in Windows |-> title[w]]
    /\ \A w \in Windows : IsTitle(title[w])
    /\ RegisteredIsAlive

\* The inductive invariant.
LifeInv == OwnersRight /\ HeldRight /\ ListsRight /\ WindowsRight /\ StylesInv

-----------------------------------------------------------------------------
(* The descriptor table *)

FreeIn(table) == {d \in Descriptors : table[d] = <<>>}

\* The kinds of owners cannot be confused.
LEMMA OwnersDiffer ==
    /\ <<"app">> # <<>>
    /\ \A c, k : <<c, k>> # <<>> /\ <<c, k>> # <<"app">>
    /\ \A c, k, d, l : <<c, k>> = <<d, l>> <=> (c = d /\ k = l)
OBVIOUS

\* Descriptors are numbers from zero up.
LEMMA DescriptorsAreNumbers ==
    Descriptors \subseteq Nat /\ \A d \in Descriptors : d >= 0 /\ d # -1
<1>1. LastDescriptor \in Nat
  BY LifeAssumption
<1>2. QED BY <1>1 DEF Descriptors

\* Opening takes a free number and nothing else.
LEMMA OpenLowest ==
    ASSUME NEW table \in [Descriptors -> Owners], NEW who \in Owners, who # <<>>,
           FreeIn(table) # {}
    PROVE  /\ LowestFree(table) \in FreeIn(table)
           /\ Open(table, who) \in [Descriptors -> Owners]
           /\ FreeIn(Open(table, who)) = FreeIn(table) \ {LowestFree(table)}
           /\ Open(table, who)[LowestFree(table)] = who
           /\ \A d \in Descriptors \ {LowestFree(table)} : Open(table, who)[d] = table[d]
<1>1. FreeIn(table) \in SUBSET Nat
  BY LifeAssumption DEF FreeIn, Descriptors
<1>2. LowestFree(table) \in FreeIn(table)
  BY <1>1, MinIsLeast DEF LowestFree, FreeIn
<1>3. QED BY <1>2 DEF Open, FreeIn

\* Three elements are enough to take one three times.
LEMMA ThreeTimes ==
    ASSUME NEW S, IsFiniteSet(S), Cardinality(S) >= 3, NEW a, NEW b
    PROVE  S # {} /\ S \ {a} # {} /\ (S \ {a}) \ {b} # {}
<1>1. /\ IsFiniteSet(S \ {a}) /\ IsFiniteSet((S \ {a}) \ {b})
      /\ Cardinality(S) \in Nat /\ Cardinality(S \ {a}) \in Nat
      /\ Cardinality((S \ {a}) \ {b}) \in Nat
  BY FS_RemoveElement, FS_CardinalityType
<1>2. Cardinality(S \ {a}) >= Cardinality(S) - 1
  BY <1>1, FS_RemoveElement
<1>3. Cardinality((S \ {a}) \ {b}) >= Cardinality(S \ {a}) - 1
  BY <1>1, FS_RemoveElement
<1>4. QED BY <1>1, <1>2, <1>3, FS_EmptySet

\* While a client is missing, the numbers that are in use leave three free: each
\* of the others has three at most.
LEMMA ThreeFree ==
    ASSUME OwnersRight, HeldRight, NEW c \in Clients, c \notin up
    PROVE  IsFiniteSet(FreeIn(owner)) /\ Cardinality(FreeIn(owner)) >= 3
<1> DEFINE Used == {d \in Descriptors : owner[d] \in up \X Kinds}
           Ends == up \X Kinds
<1>1. /\ IsFiniteSet(Descriptors) /\ Cardinality(Descriptors) = LastDescriptor + 1
  BY LifeAssumption, FS_Interval DEF Descriptors
<1>2. IsFiniteSet(Kinds) /\ Cardinality(Kinds) = 3
  <2>1. IsFiniteSet({"display"}) /\ Cardinality({"display"}) = 1
    BY FS_Singleton
  <2>2. /\ IsFiniteSet({"display"} \cup {"read"})
        /\ Cardinality({"display"} \cup {"read"}) = 2
    BY <2>1, FS_AddElement
  <2>3. /\ IsFiniteSet(({"display"} \cup {"read"}) \cup {"write"})
        /\ Cardinality(({"display"} \cup {"read"}) \cup {"write"}) = 3
    BY <2>2, FS_AddElement
  <2>4. Kinds = ({"display"} \cup {"read"}) \cup {"write"}
    BY DEF Kinds
  <2>5. QED BY <2>3, <2>4
<1>3. /\ IsFiniteSet(up) /\ Cardinality(up) \in Nat
      /\ Cardinality(Clients) \in Nat /\ Cardinality(up) <= Cardinality(Clients) - 1
  <2>1. /\ IsFiniteSet(Clients \ {c}) /\ Cardinality(Clients) \in Nat
        /\ Cardinality(Clients \ {c}) = Cardinality(Clients) - 1
    BY StyleAssumption, FS_RemoveElement, FS_CardinalityType
  <2>2. up \in SUBSET (Clients \ {c})
    BY DEF HeldRight
  <2>3. QED BY <2>1, <2>2, FS_Subset, FS_CardinalityType
<1>4. IsFiniteSet(Ends) /\ Cardinality(Ends) <= 3 * Cardinality(Clients) - 3
  <2>1. IsFiniteSet(Ends) /\ Cardinality(Ends) = Cardinality(up) * Cardinality(Kinds)
    BY <1>2, <1>3, FS_Product
  <2>2. QED BY <1>2, <1>3, <2>1
<1>5. IsFiniteSet(Used) /\ Cardinality(Used) <= Cardinality(Ends)
  <2> DEFINE f == [d \in Used |-> owner[d]]
  <2>1. f \in [Used -> Ends]
    OBVIOUS
  <2>2. \A d, e \in Used : f[d] = f[e] => d = e
    <3> SUFFICES ASSUME NEW d \in Used, NEW e \in Used, owner[d] = owner[e]
                 PROVE  d = e
      OBVIOUS
    <3>1. PICK x \in up, k \in Kinds : owner[d] = <<x, k>>
      OBVIOUS
    <3>2. x \in Clients
      BY DEF HeldRight
    <3>3. d \in Descriptors /\ e \in Descriptors /\ owner[e] = <<x, k>>
      BY <3>1
    <3>4. driver[x][k] = d
      BY <3>1, <3>2, <3>3 DEF OwnersRight
    <3>5. driver[x][k] = e
      BY <3>2, <3>3 DEF OwnersRight
    <3>6. QED BY <3>4, <3>5
  <2>3. f \in Injection(Used, Ends)
    BY <2>1, <2>2, Fun_IsInj
  <2>4. QED BY <1>4, <2>3, FS_Injection
<1>6. Descriptors \ FreeIn(owner) \subseteq Used \cup {0}
  <2> SUFFICES ASSUME NEW d \in Descriptors, owner[d] # <<>>, d # 0
               PROVE  owner[d] \in up \X Kinds
    BY DEF FreeIn
  <2>1. owner[d] \in Clients \X Kinds
    BY DEF OwnersRight, Owners
  <2>2. PICK x \in Clients, k \in Kinds : owner[d] = <<x, k>>
    BY <2>1
  <2>3. QED BY <2>2 DEF OwnersRight
<1> HIDE DEF Used, Ends
<1>7. /\ IsFiniteSet(Descriptors \ FreeIn(owner))
      /\ Cardinality(Descriptors \ FreeIn(owner)) <= Cardinality(Used) + 1
  <2>1. /\ IsFiniteSet(Used \cup {0}) /\ Cardinality(Used \cup {0}) <= Cardinality(Used) + 1
    <3>1. Cardinality(Used) \in Nat
      BY <1>5, FS_CardinalityType
    <3>2. QED BY <1>5, <3>1, FS_AddElement
  <2>2. /\ IsFiniteSet(Descriptors \ FreeIn(owner))
        /\ Cardinality(Descriptors \ FreeIn(owner)) <= Cardinality(Used \cup {0})
    BY <1>6, <2>1, FS_Subset
  <2>3. QED BY <1>5, <2>1, <2>2, FS_CardinalityType
<1>8. /\ IsFiniteSet(FreeIn(owner))
      /\ Cardinality(Descriptors \ FreeIn(owner)) =
             Cardinality(Descriptors) - Cardinality(FreeIn(owner))
  <2>1. FreeIn(owner) \in SUBSET Descriptors /\ Descriptors \cap FreeIn(owner) = FreeIn(owner)
    BY DEF FreeIn
  <2>2. IsFiniteSet(FreeIn(owner))
    BY <1>1, <2>1, FS_Subset
  <2>3. Cardinality(Descriptors \ FreeIn(owner))
          = Cardinality(Descriptors) - Cardinality(Descriptors \cap FreeIn(owner))
    BY <1>1, FS_Difference
  <2>4. QED BY <2>1, <2>2, <2>3
<1>9. QED BY <1>1, <1>3, <1>4, <1>5, <1>7, <1>8, LifeAssumption, FS_CardinalityType

\* Closing a number: the table keeps its type, and no number changes but that one;
\* one that is negative closes nothing.
LEMMA Closing ==
    ASSUME NEW table \in [Descriptors -> Owners], NEW n
    PROVE  /\ Close(table, n) \in [Descriptors -> Owners]
           /\ \A d \in Descriptors : Close(table, n)[d] = IF d = n THEN <<>> ELSE table[d]
           /\ n = -1 => Close(table, n) = table
<1>1. \A d \in Descriptors : d # -1
  BY LifeAssumption DEF Descriptors
<1>2. QED BY <1>1 DEF Close, Owners

\* The descriptors of a client, opened one after the other: three that were free.
LEMMA ThreeOpened ==
    ASSUME NEW table \in [Descriptors -> Owners], NEW c \in Clients,
           IsFiniteSet(FreeIn(table)), Cardinality(FreeIn(table)) >= 3
    PROVE  LET one == Open(table, <<c, "display">>)
               two == Open(one, <<c, "read">>)
               all == Open(two, <<c, "write">>)
               i == LowestFree(table)
               j == LowestFree(one)
               k == LowestFree(two)
           IN  /\ {i, j, k} \subseteq FreeIn(table) /\ i # j /\ i # k /\ j # k
               /\ one \in [Descriptors -> Owners] /\ all \in [Descriptors -> Owners]
               /\ one[i] = <<c, "display">> /\ \A d \in Descriptors \ {i} : one[d] = table[d]
               /\ all[i] = <<c, "display">> /\ all[j] = <<c, "read">> /\ all[k] = <<c, "write">>
               /\ \A d \in Descriptors \ {i, j, k} : all[d] = table[d]
<1>a. PICK one : one = Open(table, <<c, "display">>)
  OBVIOUS
<1>b. PICK two : two = Open(one, <<c, "read">>)
  OBVIOUS
<1>c. PICK all : all = Open(two, <<c, "write">>)
  OBVIOUS
<1>d. PICK i : i = LowestFree(table)
  OBVIOUS
<1>e. PICK j : j = LowestFree(one)
  OBVIOUS
<1>f. PICK k : k = LowestFree(two)
  OBVIOUS
<1>1. \A kind \in Kinds : <<c, kind>> \in Owners /\ <<c, kind>> # <<>>
  BY OwnersDiffer DEF Owners
<1>2. {"display", "read", "write"} \subseteq Kinds
  BY DEF Kinds
<1>3. FreeIn(table) # {} /\ FreeIn(table) \ {i} # {} /\ (FreeIn(table) \ {i}) \ {j} # {}
  BY ThreeTimes
<1>4. /\ i \in FreeIn(table) /\ one \in [Descriptors -> Owners]
      /\ FreeIn(one) = FreeIn(table) \ {i} /\ one[i] = <<c, "display">>
      /\ \A d \in Descriptors \ {i} : one[d] = table[d]
  BY <1>1, <1>2, <1>3, <1>a, <1>d, OpenLowest
<1>5. /\ j \in FreeIn(one) /\ two \in [Descriptors -> Owners]
      /\ FreeIn(two) = FreeIn(one) \ {j} /\ two[j] = <<c, "read">>
      /\ \A d \in Descriptors \ {j} : two[d] = one[d]
  <2>1. FreeIn(one) # {}
    BY <1>3, <1>4
  <2>2. <<c, "read">> \in Owners /\ <<c, "read">> # <<>>
    BY <1>1, <1>2
  <2>3. one \in [Descriptors -> Owners]
    BY <1>4
  <2>4. QED BY <1>b, <1>e, <2>1, <2>2, <2>3, OpenLowest
<1>6. /\ k \in FreeIn(two) /\ all \in [Descriptors -> Owners]
      /\ all[k] = <<c, "write">>
      /\ \A d \in Descriptors \ {k} : all[d] = two[d]
  <2>1. FreeIn(two) # {}
    BY <1>3, <1>4, <1>5
  <2>2. <<c, "write">> \in Owners /\ <<c, "write">> # <<>>
    BY <1>1, <1>2
  <2>3. two \in [Descriptors -> Owners]
    BY <1>5
  <2>4. /\ LowestFree(two) \in FreeIn(two)
        /\ Open(two, <<c, "write">>) \in [Descriptors -> Owners]
        /\ Open(two, <<c, "write">>)[LowestFree(two)] = <<c, "write">>
        /\ \A d \in Descriptors \ {LowestFree(two)} : Open(two, <<c, "write">>)[d] = two[d]
    BY <2>1, <2>2, <2>3, OpenLowest
  <2>5. QED BY <1>c, <1>f, <2>4
<1>7. {i, j, k} \subseteq FreeIn(table) /\ i # j /\ i # k /\ j # k
  BY <1>4, <1>5, <1>6
<1>8. {i, j, k} \subseteq Descriptors
  BY <1>7 DEF FreeIn
<1>9. /\ all[i] = <<c, "display">> /\ all[j] = <<c, "read">> /\ all[k] = <<c, "write">>
      /\ \A d \in Descriptors \ {i, j, k} : all[d] = table[d]
  BY <1>4, <1>5, <1>6, <1>7, <1>8
<1>10. QED BY <1>4, <1>6, <1>7, <1>9, <1>a, <1>b, <1>c, <1>d, <1>e, <1>f

-----------------------------------------------------------------------------
(* Creating a client, whole or not *)

\* What has been acquired after each step of autk_client_create.
LEMMA Stages ==
    ASSUME NEW c
    PROVE  LET one == Open(owner, <<c, "display">>)
               two == Open(one, <<c, "read">>)
               all == Open(two, <<c, "write">>)
               i == LowestFree(owner)
               connected == Connected(c, Zeroed)
               coloured == WithColormap(connected)
               blank == QueueBlank(coloured)
               permits == WithSemaphore(blank)
           IN  /\ Zeroed = Acquired(owner, 0, 0, 0, Bare)
               /\ connected = Acquired(one, i, 0, 0, Joined)
               /\ coloured = Acquired(one, i, 0, 0, Coloured)
               /\ blank = Acquired(one, i, -1, -1, Coloured)
               /\ permits = Acquired(one, i, -1, -1, Held)
               /\ WithPipe(c, permits) = Acquired(all, i, LowestFree(one), LowestFree(two), Held)
<1> DEFINE one == Open(owner, <<c, "display">>)
           two == Open(one, <<c, "read">>)
           all == Open(two, <<c, "write">>)
           i == LowestFree(owner)
           j == LowestFree(one)
           k == LowestFree(two)
           z == Zeroed
           connected == Connected(c, z)
           coloured == WithColormap(connected)
           blank == QueueBlank(coloured)
           permits == WithSemaphore(blank)
           whole == WithPipe(c, permits)
<1>1. z = Acquired(owner, 0, 0, 0, Bare)
  <2>1. [l \in Kinds |-> 0] = Numbers(0, 0, 0)
    BY DEF Numbers
  <2>2. QED BY <2>1 DEF Zeroed, Acquired, Bare
<1>2. /\ Bare \cup {"connection"} = Joined
      /\ Joined \cup {"colormap"} = Coloured
      /\ Coloured \cup {"semaphore"} = Held
  BY DEF Bare, Joined, Coloured, Held
<1>3. connected = Acquired(one, i, 0, 0, Joined)
  BY <1>1, <1>2, Connecting
<1>4. coloured = Acquired(one, i, 0, 0, Coloured)
  BY <1>2, <1>3, WithColours
<1>5. blank = Acquired(one, i, -1, -1, Coloured)
  BY <1>4, Blanked
<1>6. permits = Acquired(one, i, -1, -1, Held)
  BY <1>2, <1>5, WithPermits
<1>7. whole = Acquired(all, i, j, k, Held)
  BY <1>6, WithEnds
<1>8. QED BY <1>1, <1>3, <1>4, <1>5, <1>6, <1>7

\* autk_x11_client_fini returns all that autk_x11_client_init may have acquired.
LEMMA AllReturned ==
    ASSUME NEW t, NEW d, NEW r, NEW w, NEW h, h \subseteq Held
    PROVE  /\ ClientFini(Acquired(t, d, r, w, h)).held \ {"memory"} = {}
           /\ "connection" \in h =>
                ClientFini(Acquired(t, d, r, w, h)).table = Close(Close(Close(t, r), w), d)
           /\ "connection" \notin h =>
                ClientFini(Acquired(t, d, r, w, h)).table = Close(Close(t, r), w)
<1>1. ClientFini(Acquired(t, d, r, w, h)).held = h \ DriverThings
  BY ClientReturned
<1>2. (h \ DriverThings) \ {"memory"} = {}
  BY DEF Held, DriverThings
<1>3. QED BY <1>1, <1>2, ClientReturned

\* Steps of autk_x11_client_init before the job queue's descriptors are set to -1.
EarlySteps == {"connect", "screen", "atoms"}
DriverSteps == ClientSteps \ {"client memory"}

\* What a creation that fails leaves: nothing of its own and nothing that it has
\* opened.  A failure after the early steps leaves the table as it was.
LEMMA ClientFailed ==
    ASSUME OwnersRight, HeldRight, NEW c \in Clients, c \notin up,
           NEW step \in DriverSteps,
           NEW reached, reached = Reached(c, step), NEW s, s = ClientFini(reached)
    PROVE  /\ s.held \ {"memory"} = {} /\ s.table \in [Descriptors -> Owners]
           /\ \A d \in Descriptors : s.table[d] = <<>> \/ s.table[d] = owner[d]
           /\ step \notin EarlySteps => s.table = owner
<1>0. owner \in [Descriptors -> Owners]
  BY DEF OwnersRight
<1>1. IsFiniteSet(FreeIn(owner)) /\ Cardinality(FreeIn(owner)) >= 3
  BY ThreeFree
<1> DEFINE one == Open(owner, <<c, "display">>)
           two == Open(one, <<c, "read">>)
           all == Open(two, <<c, "write">>)
           i == LowestFree(owner)
           j == LowestFree(one)
           k == LowestFree(two)
<1>6. /\ {i, j, k} \subseteq FreeIn(owner) /\ i # j /\ i # k /\ j # k
      /\ one \in [Descriptors -> Owners] /\ all \in [Descriptors -> Owners]
      /\ one[i] = <<c, "display">> /\ \A d \in Descriptors \ {i} : one[d] = owner[d]
      /\ all[i] = <<c, "display">> /\ all[j] = <<c, "read">> /\ all[k] = <<c, "write">>
      /\ \A d \in Descriptors \ {i, j, k} : all[d] = owner[d]
  BY <1>0, <1>1, ThreeOpened
<1>7. /\ {i, j, k} \subseteq Descriptors
      /\ owner[i] = <<>> /\ owner[j] = <<>> /\ owner[k] = <<>>
  BY <1>6 DEF FreeIn
<1> HIDE DEF one, two, all, i, j, k
<1> DEFINE connected == Connected(c, Zeroed)
           coloured == WithColormap(connected)
           blank == QueueBlank(coloured)
           permits == WithSemaphore(blank)
           whole == WithPipe(c, permits)
<1>8. /\ Zeroed = Acquired(owner, 0, 0, 0, Bare)
      /\ connected = Acquired(one, i, 0, 0, Joined)
      /\ coloured = Acquired(one, i, 0, 0, Coloured)
      /\ blank = Acquired(one, i, -1, -1, Coloured)
      /\ permits = Acquired(one, i, -1, -1, Held)
      /\ whole = Acquired(all, i, j, k, Held)
  BY Stages DEF one, two, all, i, j, k
<1> HIDE DEF connected, coloured, blank, permits, whole
<1>9. Close(one, i) = owner /\ Close(Close(Close(all, j), k), i) = owner
  BY <1>0, <1>6, <1>7 DEF Close
<1>10. CASE step = "connect"
  <2>1. reached = Acquired(owner, 0, 0, 0, Bare)
    BY <1>8, <1>10 DEF Reached
  <2>2. Bare \subseteq Held /\ "connection" \notin Bare
    BY DEF Bare, Held
  <2>3. s.table = Close(Close(owner, 0), 0) /\ s.held \ {"memory"} = {}
    BY <2>1, <2>2, AllReturned
  <2>4. QED BY <1>0, <1>10, <2>3, Closing DEF EarlySteps
<1>11. ASSUME Close(Close(one, 0), 0) \in [Descriptors -> Owners],
              s.table = Close(Close(Close(one, 0), 0), i)
       PROVE  /\ s.table \in [Descriptors -> Owners]
              /\ \A d \in Descriptors : s.table[d] = <<>> \/ s.table[d] = owner[d]
  BY <1>6, <1>11, Closing
<1>12. Close(Close(one, 0), 0) \in [Descriptors -> Owners]
  BY <1>6, Closing
<1>13. CASE step = "screen"
  <2>1. reached = Acquired(one, i, 0, 0, Joined)
    BY <1>8, <1>13 DEF Reached, connected
  <2>2. Joined \subseteq Held /\ "connection" \in Joined
    BY DEF Joined, Held
  <2>3. s.table = Close(Close(Close(one, 0), 0), i) /\ s.held \ {"memory"} = {}
    BY <2>1, <2>2, AllReturned
  <2>4. QED BY <1>11, <1>12, <1>13, <2>3 DEF EarlySteps
<1>14. CASE step = "atoms"
  <2>1. reached = Acquired(one, i, 0, 0, Coloured)
    BY <1>8, <1>14 DEF Reached, connected, coloured
  <2>2. Coloured \subseteq Held /\ "connection" \in Coloured
    BY DEF Coloured, Held
  <2>3. s.table = Close(Close(Close(one, 0), 0), i) /\ s.held \ {"memory"} = {}
    BY <2>1, <2>2, AllReturned
  <2>4. QED BY <1>11, <1>12, <1>14, <2>3 DEF EarlySteps
<1>15. Shut(-1) = -1 /\ Close(Close(one, -1), -1) = one
  BY <1>6, Closing DEF Shut
<1>16. ASSUME s.table = owner, s.held \ {"memory"} = {}
       PROVE  /\ s.held \ {"memory"} = {} /\ s.table \in [Descriptors -> Owners]
              /\ \A d \in Descriptors : s.table[d] = <<>> \/ s.table[d] = owner[d]
              /\ step \notin EarlySteps => s.table = owner
  BY <1>0, <1>16
<1>17. CASE step = "sem_init"
  <2>1. reached = Acquired(one, i, -1, -1, Coloured)
    BY <1>8, <1>17 DEF Reached, connected, coloured, blank
  <2>2. Coloured \subseteq Held /\ "connection" \in Coloured
    BY DEF Coloured, Held
  <2>3. s.table = owner /\ s.held \ {"memory"} = {}
    BY <1>9, <1>15, <2>1, <2>2, AllReturned
  <2>4. QED BY <1>16, <2>3
<1>18. Held \ QueueThings \subseteq Held /\ "connection" \in Held \ QueueThings
  BY DEF Held, QueueThings
<1>19. CASE step = "pipe"
  <2>1. reached = QueueFini(Acquired(one, i, -1, -1, Held))
    BY <1>8, <1>19 DEF Reached, connected, coloured, blank, permits
  <2>2. reached = Acquired(one, i, -1, -1, Held \ QueueThings)
    BY <1>15, <2>1, QueueReturned
  <2>3. s.table = owner /\ s.held \ {"memory"} = {}
    BY <1>9, <1>15, <1>18, <2>2, AllReturned
  <2>4. QED BY <1>16, <2>3
<1>20. CASE step = "fcntl"
  <2> DEFINE closed == Close(Close(all, j), k)
  <2>1. reached = QueueFini(Acquired(all, i, j, k, Held))
    BY <1>8, <1>20 DEF Reached, connected, coloured, blank, permits, whole
  <2>2. Shut(j) = -1 /\ Shut(k) = -1
    BY <1>7, DescriptorsAreNumbers DEF Shut
  <2>3. reached = Acquired(closed, i, -1, -1, Held \ QueueThings)
    BY <2>1, <2>2, QueueReturned
  <2>4. Close(Close(closed, -1), -1) = closed
    BY <1>6, Closing
  <2>5. s.table = owner /\ s.held \ {"memory"} = {}
    BY <1>9, <1>18, <2>3, <2>4, AllReturned
  <2>6. QED BY <1>16, <2>5
<1>21. QED BY <1>10, <1>13, <1>14, <1>17, <1>19, <1>20 DEF DriverSteps, ClientSteps

-----------------------------------------------------------------------------
(* Steps of the clients *)

\* A client that is created: its numbers are its own and nobody else's change.
LEMMA CreateClientStep ==
    ASSUME OwnersRight, HeldRight, NEW c \in Clients, CreateClient(c)
    PROVE  OwnersRight' /\ HeldRight' /\ (LiveDescriptors => LiveDescriptors')
<1> DEFINE one == Open(owner, <<c, "display">>)
           two == Open(one, <<c, "read">>)
           all == Open(two, <<c, "write">>)
           i == LowestFree(owner)
           j == LowestFree(one)
           k == LowestFree(two)
<1>1. c \notin up /\ owner \in [Descriptors -> Owners]
  BY DEF CreateClient, OwnersRight
<1>2. /\ {i, j, k} \subseteq FreeIn(owner) /\ i # j /\ i # k /\ j # k
      /\ all \in [Descriptors -> Owners]
      /\ all[i] = <<c, "display">> /\ all[j] = <<c, "read">> /\ all[k] = <<c, "write">>
      /\ \A d \in Descriptors \ {i, j, k} : all[d] = owner[d]
  BY <1>1, ThreeFree, ThreeOpened
<1>3. WithPipe(c, WithSemaphore(QueueBlank(WithColormap(Connected(c, Zeroed)))))
        = Acquired(all, i, j, k, Held)
  BY Stages
<1>4. PICK table, di, re, wr : table = all /\ di = i /\ re = j /\ wr = k
  OBVIOUS
<1> HIDE DEF one, two, all, i, j, k
<1>5. /\ owner' = table /\ driver' = [driver EXCEPT ![c] = Numbers(di, re, wr)]
      /\ held' = [held EXCEPT ![c] = Held] /\ up' = up \cup {c}
  <2> DEFINE s == WithPipe(c, WithSemaphore(QueueBlank(WithColormap(Connected(c, Zeroed)))))
  <2>1. s.table = table /\ s.fd = Numbers(di, re, wr) /\ s.held = Held
    BY <1>3, <1>4, Fields
  <2>2. /\ owner' = s.table /\ driver' = [driver EXCEPT ![c] = s.fd]
        /\ held' = [held EXCEPT ![c] = s.held] /\ up' = up \cup {c}
    BY DEF CreateClient
  <2>3. QED BY <2>1, <2>2
<1>6. /\ {di, re, wr} \subseteq Descriptors /\ di # re /\ di # wr /\ re # wr
      /\ owner[di] = <<>> /\ owner[re] = <<>> /\ owner[wr] = <<>>
      /\ table \in [Descriptors -> Owners]
      /\ table[di] = <<c, "display">> /\ table[re] = <<c, "read">> /\ table[wr] = <<c, "write">>
      /\ \A d \in Descriptors \ {di, re, wr} : table[d] = owner[d]
  BY <1>2, <1>4 DEF FreeIn
<1>7. Numbers(di, re, wr) \in [Kinds -> Descriptors \cup {-1}]
  BY <1>6 DEF Numbers, Kinds
<1>8. /\ \A k1 \in Kinds : driver'[c][k1] = Numbers(di, re, wr)[k1]
      /\ \A b \in Clients \ {c} : driver'[b] = driver[b]
      /\ driver' \in [Clients -> [Kinds -> Descriptors \cup {-1}]]
  BY <1>5, <1>7 DEF OwnersRight
<1>9. OwnersRight'
  <2>1. \A d \in Descriptors : owner'[d] = <<"app">> => d = 0
    <3> SUFFICES ASSUME NEW d \in Descriptors, table[d] = <<"app">> PROVE d = 0
      BY <1>5
    <3>1. d \notin {di, re, wr}
      BY <1>6, OwnersDiffer
    <3>2. QED BY <1>6, <3>1 DEF OwnersRight
  <2>2. ASSUME NEW d \in Descriptors, NEW b \in Clients, NEW k1 \in Kinds, table[d] = <<b, k1>>
        PROVE  b \in up' /\ driver'[b][k1] = d
    <3>0. driver'[c]["display"] = di /\ driver'[c]["read"] = re /\ driver'[c]["write"] = wr
      BY <1>8, Fields DEF Kinds
    <3>1. CASE d \notin {di, re, wr}
      <4>1. owner[d] = <<b, k1>>
        BY <1>6, <2>2, <3>1
      <4>2. b \in up /\ driver[b][k1] = d
        BY <4>1 DEF OwnersRight
      <4>3. QED BY <1>1, <1>5, <1>8, <4>2
    <3>2. CASE d = di
      <4>1. b = c /\ k1 = "display"
        BY <1>6, <2>2, <3>2
      <4>2. c \in up' /\ driver'[c][k1] = d
        BY <1>5, <3>2, <3>0, <4>1
      <4>3. QED BY <4>1, <4>2
    <3>3. CASE d = re
      <4>1. b = c /\ k1 = "read"
        BY <1>6, <2>2, <3>3
      <4>2. c \in up' /\ driver'[c][k1] = d
        BY <1>5, <3>3, <3>0, <4>1
      <4>3. QED BY <4>1, <4>2
    <3>4. CASE d = wr
      <4>1. b = c /\ k1 = "write"
        BY <1>6, <2>2, <3>4
      <4>2. c \in up' /\ driver'[c][k1] = d
        BY <1>5, <3>4, <3>0, <4>1
      <4>3. QED BY <4>1, <4>2
    <3>5. QED BY <3>1, <3>2, <3>3, <3>4
  <2>3. \A b \in up', k1 \in Kinds : driver'[b][k1] \in Descriptors
    <3>1. \A k1 \in Kinds : driver'[c][k1] \in Descriptors
      BY <1>6, <1>8, Fields DEF Kinds
    <3>2. \A b \in up : b \in Clients \ {c}
      BY <1>1 DEF HeldRight
    <3>3. QED BY <1>5, <1>8, <3>1, <3>2 DEF OwnersRight
  <2>4. QED BY <1>5, <1>6, <1>8, <2>1, <2>2, <2>3 DEF OwnersRight
<1>10. HeldRight'
  <2>1. Held \in SUBSET Resources
    BY DEF Held, Resources
  <2>2. QED BY <1>1, <1>5, <2>1 DEF HeldRight
<1>11. ASSUME LiveDescriptors PROVE LiveDescriptors'
  <2>1. owner'[0] = <<"app">>
    <3>1. 0 \in Descriptors
      BY LifeAssumption DEF Descriptors
    <3>2. owner[0] = <<"app">>
      BY <1>11 DEF LiveDescriptors
    <3>3. 0 \notin {di, re, wr}
      BY <1>6, <3>2, OwnersDiffer
    <3>4. QED BY <1>5, <1>6, <3>1, <3>2, <3>3
  <2>2. ASSUME NEW b \in up, NEW k1 \in Kinds
        PROVE  owner'[driver'[b][k1]] = <<b, k1>>
    <3>1. b \in Clients \ {c} /\ driver'[b] = driver[b]
      BY <1>1, <1>8 DEF HeldRight
    <3>2. owner[driver[b][k1]] = <<b, k1>>
      BY <1>11 DEF LiveDescriptors
    <3>3. driver[b][k1] \in Descriptors
      BY DEF OwnersRight
    <3>4. driver[b][k1] \notin {di, re, wr}
      BY <1>6, <3>2, OwnersDiffer
    <3>5. QED BY <1>5, <1>6, <3>1, <3>2, <3>3, <3>4
  <2>3. ASSUME NEW k1 \in Kinds
        PROVE  owner'[driver'[c][k1]] = <<c, k1>>
    BY <1>5, <1>6, <1>8, Fields DEF Kinds
  <2>4. QED BY <1>5, <2>1, <2>2, <2>3 DEF LiveDescriptors
<1>12. QED BY <1>9, <1>10, <1>11

\* A failed creation after the early steps leaves the descriptors as they were.
NoEarlyFailure == Failures \cap EarlySteps = {}

\* A client that could not be created holds nothing.  It may have closed what is
\* not its own, but has opened nothing that stays open.
LEMMA CreateClientFailsStep ==
    ASSUME OwnersRight, HeldRight, NEW c \in Clients, CreateClientFails(c)
    PROVE  /\ OwnersRight' /\ HeldRight'
           /\ (LiveDescriptors /\ NoEarlyFailure) => LiveDescriptors'
<1>1. /\ c \notin up /\ UNCHANGED <<up, driver>> /\ owner \in [Descriptors -> Owners]
  BY DEF CreateClientFails, OwnersRight
<1>2. /\ owner' \in [Descriptors -> Owners]
      /\ \A d \in Descriptors : owner'[d] = <<>> \/ owner'[d] = owner[d]
      /\ held' = [held EXCEPT ![c] = {}]
      /\ NoEarlyFailure => owner' = owner
  <2>1. PICK step \in Failures \cap ClientSteps :
          LET s == IF step = "client memory" THEN [Zeroed EXCEPT !.held = {}]
                                             ELSE ClientFini(Reached(c, step))
          IN  owner' = s.table /\ held' = [held EXCEPT ![c] = s.held \ {"memory"}]
    BY DEF CreateClientFails
  <2>2. CASE step = "client memory"
    <3>1. [Zeroed EXCEPT !.held = {}].table = owner /\ [Zeroed EXCEPT !.held = {}].held = {}
      BY DEF Zeroed
    <3>2. QED BY <1>1, <2>1, <2>2, <3>1
  <2>3. CASE step # "client memory"
    <3>1. step \in DriverSteps /\ (NoEarlyFailure => step \notin EarlySteps)
      BY <2>3 DEF DriverSteps, NoEarlyFailure
    <3>2. PICK s : s = ClientFini(Reached(c, step))
      OBVIOUS
    <3>3. owner' = s.table /\ held' = [held EXCEPT ![c] = s.held \ {"memory"}]
      BY <2>1, <2>3, <3>2
    <3>4. /\ s.held \ {"memory"} = {} /\ s.table \in [Descriptors -> Owners]
          /\ \A d \in Descriptors : s.table[d] = <<>> \/ s.table[d] = owner[d]
          /\ step \notin EarlySteps => s.table = owner
      BY <1>1, <3>1, <3>2, ClientFailed
    <3>5. QED BY <3>1, <3>3, <3>4
  <2>4. QED BY <2>2, <2>3
<1>3. OwnersRight'
  <2>1. \A d \in Descriptors : owner'[d] = <<"app">> => d = 0
    BY <1>2, OwnersDiffer DEF OwnersRight
  <2>2. ASSUME NEW d \in Descriptors, NEW b \in Clients, NEW k \in Kinds, owner'[d] = <<b, k>>
        PROVE  b \in up /\ driver[b][k] = d
    <3>1. owner[d] = <<b, k>>
      BY <1>2, <2>2, OwnersDiffer
    <3>2. QED BY <3>1 DEF OwnersRight
  <2>3. QED BY <1>1, <1>2, <2>1, <2>2 DEF OwnersRight
<1>4. HeldRight'
  BY <1>1, <1>2 DEF HeldRight
<1>5. (LiveDescriptors /\ NoEarlyFailure) => LiveDescriptors'
  BY <1>1, <1>2 DEF LiveDescriptors
<1>6. QED BY <1>3, <1>4, <1>5

\* A client that is destroyed closes its own descriptors, and nothing of it is left.
LEMMA DestroyClientStep ==
    ASSUME OwnersRight, HeldRight, NEW c \in Clients, DestroyClient(c)
    PROVE  OwnersRight' /\ HeldRight' /\ (LiveDescriptors => LiveDescriptors')
<1>1. c \in up /\ up' = up \ {c} /\ owner \in [Descriptors -> Owners]
  BY DEF DestroyClient, OwnersRight
<1>2. PICK di, re, wr :
        di = driver[c]["display"] /\ re = driver[c]["read"] /\ wr = driver[c]["write"]
  OBVIOUS
<1>3. di \in Descriptors /\ re \in Descriptors /\ wr \in Descriptors
  BY <1>1, <1>2 DEF OwnersRight, Kinds
<1>4. [table |-> owner, fd |-> driver[c], held |-> held[c]]
        = Acquired(owner, di, re, wr, held[c])
  <2>1. driver[c] = [k \in Kinds |-> driver[c][k]]
    BY DEF OwnersRight
  <2>2. driver[c] = Numbers(di, re, wr)
    BY <1>2, <2>1 DEF Numbers, Kinds
  <2>3. QED BY <2>2 DEF Acquired
<1>5. PICK s : s = ClientFini([table |-> owner, fd |-> driver[c], held |-> held[c]])
  OBVIOUS
<1>6. /\ owner' = s.table /\ driver' = [driver EXCEPT ![c] = s.fd]
      /\ held' = [held EXCEPT ![c] = s.held \ {"memory"}]
  BY <1>5 DEF DestroyClient
<1>7. /\ s.table = Close(Close(Close(owner, re), wr), di)
      /\ s.fd = Numbers(di, Shut(re), Shut(wr)) /\ s.held = held[c] \ DriverThings
  <2>1. "connection" \in held[c]
    BY <1>1 DEF HeldRight, Held
  <2>2. s = ClientFini(Acquired(owner, di, re, wr, held[c]))
    BY <1>4, <1>5
  <2>3. QED BY <2>1, <2>2, ClientReturned
<1>8. /\ owner' \in [Descriptors -> Owners]
      /\ \A d \in Descriptors : owner'[d] = IF d \in {di, re, wr} THEN <<>> ELSE owner[d]
  <2>1. /\ Close(owner, re) \in [Descriptors -> Owners]
        /\ \A d \in Descriptors : Close(owner, re)[d] = IF d = re THEN <<>> ELSE owner[d]
    BY <1>1, Closing
  <2>2. PICK t : t = Close(owner, re)
    OBVIOUS
  <2>3. /\ Close(t, wr) \in [Descriptors -> Owners]
        /\ \A d \in Descriptors : Close(t, wr)[d] = IF d = wr THEN <<>> ELSE t[d]
    BY <2>1, <2>2, Closing
  <2>4. PICK u : u = Close(t, wr)
    OBVIOUS
  <2>5. /\ Close(u, di) \in [Descriptors -> Owners]
        /\ \A d \in Descriptors : Close(u, di)[d] = IF d = di THEN <<>> ELSE u[d]
    BY <2>3, <2>4, Closing
  <2>6. owner' = Close(u, di)
    BY <1>6, <1>7, <2>2, <2>4
  <2>7. QED BY <2>1, <2>2, <2>3, <2>4, <2>5, <2>6
<1>9. /\ \A b \in Clients \ {c} : driver'[b] = driver[b]
      /\ driver' \in [Clients -> [Kinds -> Descriptors \cup {-1}]]
  <2>1. Shut(re) = -1 /\ Shut(wr) = -1
    BY <1>3, DescriptorsAreNumbers DEF Shut
  <2>2. Numbers(di, -1, -1) \in [Kinds -> Descriptors \cup {-1}]
    BY <1>3 DEF Numbers, Kinds
  <2>3. QED BY <1>6, <1>7, <2>1, <2>2 DEF OwnersRight
<1>10. \A b \in up' : b \in Clients \ {c} /\ b \in up
  BY <1>1 DEF HeldRight
<1>11. OwnersRight'
  <2>1. \A d \in Descriptors : owner'[d] = <<"app">> => d = 0
    BY <1>8, OwnersDiffer DEF OwnersRight
  <2>2. ASSUME NEW d \in Descriptors, NEW b \in Clients, NEW k \in Kinds, owner'[d] = <<b, k>>
        PROVE  b \in up' /\ driver'[b][k] = d
    <3>1. d \notin {di, re, wr} /\ owner[d] = <<b, k>>
      BY <1>8, <2>2, OwnersDiffer
    <3>2. b \in up /\ driver[b][k] = d
      BY <3>1 DEF OwnersRight
    <3>3. b # c
      BY <1>2, <3>1, <3>2 DEF Kinds
    <3>4. QED BY <1>1, <1>9, <3>2, <3>3
  <2>3. \A b \in up', k \in Kinds : driver'[b][k] \in Descriptors
    BY <1>9, <1>10 DEF OwnersRight
  <2>4. QED BY <1>8, <1>9, <2>1, <2>2, <2>3 DEF OwnersRight
<1>12. HeldRight'
  <2>1. s.held \ {"memory"} = {}
    <3>1. held[c] \subseteq Resources
      BY DEF HeldRight
    <3>2. QED BY <1>7, <3>1 DEF Resources, DriverThings
  <2>2. QED BY <1>1, <1>6, <2>1 DEF HeldRight
<1>13. ASSUME LiveDescriptors PROVE LiveDescriptors'
  <2>2. owner[di] = <<c, "display">> /\ owner[re] = <<c, "read">> /\ owner[wr] = <<c, "write">>
    BY <1>1, <1>2, <1>13 DEF LiveDescriptors, Kinds
  <2>3. owner'[0] = <<"app">>
    <3>1. 0 \in Descriptors
      BY LifeAssumption DEF Descriptors
    <3>2. owner[0] = <<"app">>
      BY <1>13 DEF LiveDescriptors
    <3>3. 0 \notin {di, re, wr}
      BY <2>2, <3>2, OwnersDiffer
    <3>4. QED BY <1>8, <3>1, <3>2, <3>3
  <2>4. ASSUME NEW b \in up', NEW k \in Kinds
        PROVE  owner'[driver'[b][k]] = <<b, k>>
    <3>1. b \in up /\ b # c /\ driver'[b] = driver[b] /\ driver[b][k] \in Descriptors
      BY <1>9, <1>10 DEF OwnersRight
    <3>2. owner[driver[b][k]] = <<b, k>>
      BY <1>13, <3>1 DEF LiveDescriptors
    <3>3. driver[b][k] \notin {di, re, wr}
      BY <2>2, <3>1, <3>2, OwnersDiffer
    <3>4. QED BY <1>8, <3>1, <3>2, <3>3
  <2>5. QED BY <2>3, <2>4 DEF LiveDescriptors
<1>14. QED BY <1>11, <1>12, <1>13

\* Only these three change what clients hold of the process.
LEMMA OwnersStep ==
    ASSUME LifeInv, Next
    PROVE  /\ OwnersRight' /\ HeldRight'
           /\ (LiveDescriptors /\ NoEarlyFailure) => LiveDescriptors'
<1>0. OwnersRight /\ HeldRight
  BY DEF LifeInv
<1>1. ASSUME NEW c \in Clients, CreateClient(c) \/ DestroyClient(c)
      PROVE  OwnersRight' /\ HeldRight' /\ (LiveDescriptors => LiveDescriptors')
  BY <1>0, <1>1, CreateClientStep, DestroyClientStep
<1>2. ASSUME UNCHANGED client_vars, UNCHANGED held
      PROVE  OwnersRight' /\ HeldRight' /\ (LiveDescriptors => LiveDescriptors')
  BY <1>0, <1>2 DEF client_vars, OwnersRight, HeldRight, LiveDescriptors
<1>3. ASSUME NEW c \in Clients, NEW w \in Windows,
             CreateWindow(c, w) \/ CreateWindowStyleFails(c, w)
      PROVE  OwnersRight' /\ HeldRight' /\ (LiveDescriptors => LiveDescriptors')
  <2>1. /\ c \in up /\ UNCHANGED client_vars
        /\ held' = [held EXCEPT ![c] = @ \cup {"map buffer"}]
    BY <1>3 DEF CreateWindow, CreateWindowStyleFails, NewWindow
  <2>2. "map buffer" \in Resources
    BY DEF Resources
  <2>3. HeldRight'
    BY <1>0, <2>1, <2>2 DEF client_vars, HeldRight
  <2>4. QED BY <1>0, <2>1, <2>3 DEF client_vars, OwnersRight, LiveDescriptors
<1>4. ASSUME NEW c \in Clients, FindOrCreateStyle(c) \/ CreateStyleOfItsOwn(c)
      PROVE  UNCHANGED client_vars /\ UNCHANGED held
  BY <1>4 DEF FindOrCreateStyle, CreateStyleOfItsOwn
<1>5. ASSUME NEW c \in Clients, NEW w \in Windows, CreateWindowFails(c, w)
      PROVE  UNCHANGED client_vars /\ UNCHANGED held
  BY <1>5 DEF CreateWindowFails, NewWindow
<1>6. ASSUME NEW w \in Windows, DestroyWindow(w) \/ SetTitle(w)
      PROVE  UNCHANGED client_vars /\ UNCHANGED held
  BY <1>6 DEF DestroyWindow, SetTitle
<1>7. UseStyles => UNCHANGED client_vars /\ UNCHANGED held
  BY DEF UseStyles
<1>8. ASSUME NEW c \in Clients, CreateClientFails(c)
      PROVE  /\ OwnersRight' /\ HeldRight'
             /\ (LiveDescriptors /\ NoEarlyFailure) => LiveDescriptors'
  BY <1>0, <1>8, CreateClientFailsStep
<1>9. QED BY <1>1, <1>2, <1>3, <1>4, <1>5, <1>6, <1>7, <1>8 DEF Next

-----------------------------------------------------------------------------
(* Steps of the styles *)

\* ClientLife does nothing with styles that Styles does not know of.
LEMMA NextIsStyleStep ==
    ASSUME Next
    PROVE  StyleStep \/ UNCHANGED style_vars
<1>1. ASSUME NEW c \in Clients, DestroyClient(c) PROVE StyleStep
  BY <1>1 DEF DestroyClient, StyleStep
<1>2. ASSUME NEW c \in Clients, CreateClient(c) \/ CreateClientFails(c)
      PROVE  UNCHANGED style_vars
  BY <1>2 DEF CreateClient, CreateClientFails
<1>3. ASSUME NEW c \in Clients, FindOrCreateStyle(c) PROVE StyleStep
  <2>1. PICK q \in Queries, k \in Classes :
          \/ AddFallback(c, q, k)
          \/ \E step \in Failures \cap {"style list", "style"} : AddFallbackFails(c, q, k, step)
    BY <1>3 DEF FindOrCreateStyle
  <2>2. QED BY <2>1 DEF StyleStep
<1>4. ASSUME NEW c \in Clients, CreateStyleOfItsOwn(c) PROVE StyleStep
  BY <1>4 DEF CreateStyleOfItsOwn, StyleStep
<1>5. DefaultQuery \in Queries /\ DefaultClass \in Classes
  BY LifeAssumption
<1>6. ASSUME NEW c \in Clients, NEW w \in Windows, CreateWindow(c, w)
      PROVE  StyleStep \/ UNCHANGED style_vars
  <2>1. UNCHANGED style_vars \/ AddFallback(c, DefaultQuery, DefaultClass)
    BY <1>6 DEF CreateWindow
  <2>2. QED BY <1>5, <2>1 DEF StyleStep
<1>7. ASSUME NEW c \in Clients, NEW w \in Windows, CreateWindowFails(c, w)
      PROVE  UNCHANGED style_vars
  BY <1>7 DEF CreateWindowFails
<1>8. ASSUME NEW c \in Clients, NEW w \in Windows, CreateWindowStyleFails(c, w)
      PROVE  StyleStep
  <2>1. PICK step \in Failures \cap {"style list", "style"} :
          AddFallbackFails(c, DefaultQuery, DefaultClass, step)
    BY <1>8 DEF CreateWindowStyleFails
  <2>2. QED BY <1>5, <2>1 DEF StyleStep
<1>9. ASSUME NEW w \in Windows, DestroyWindow(w) \/ SetTitle(w)
      PROVE  UNCHANGED style_vars
  BY <1>9 DEF DestroyWindow, SetTitle
<1>10. UseStyles => StyleStep
  BY DEF UseStyles, StyleStep
<1>11. QED BY <1>1, <1>2, <1>3, <1>4, <1>6, <1>7, <1>8, <1>9, <1>10 DEF Next

\* Only a client that is up gets fallback styles, and it releases them with itself.
LEMMA ListsStep ==
    ASSUME LifeInv, Next
    PROVE  ListsRight'
<1>0. /\ ListsRight /\ up \subseteq Clients
      /\ DOMAIN fallback = Clients /\ DOMAIN room = Clients
  BY DEF LifeInv, HeldRight, StylesInv, StyleTypes
<1> DEFINE Only(c) == /\ \A b \in Clients \ {c} : fallback'[b] = fallback[b] /\ room'[b] = room[b]
<1>1. ASSUME NEW c \in Clients, NEW q \in Queries, NEW k \in Classes,
             AddFallback(c, q, k)
      PROVE  Only(c)
  BY <1>0, <1>1 DEF AddFallback
<1>2. ASSUME NEW c \in Clients, NEW q \in Queries, NEW k \in Classes, NEW step,
             AddFallbackFails(c, q, k, step)
      PROVE  Only(c)
  BY <1>0, <1>2 DEF AddFallbackFails
<1>3. ASSUME NEW c \in up, Only(c), up' = up PROVE ListsRight'
  BY <1>0, <1>3 DEF ListsRight
<1>4. ASSUME UNCHANGED lists, up \subseteq up' PROVE ListsRight'
  BY <1>0, <1>4 DEF ListsRight, lists
<1> HIDE DEF Only
<1>5. DefaultQuery \in Queries /\ DefaultClass \in Classes
  BY LifeAssumption
<1>6. ASSUME NEW c \in Clients, CreateClient(c) \/ CreateClientFails(c) PROVE ListsRight'
  BY <1>4, <1>6 DEF CreateClient, CreateClientFails, style_vars
<1>7. ASSUME NEW c \in Clients, DestroyClient(c) PROVE ListsRight'
  <2>1. up' = up \ {c} /\ ReleaseList(c)
    BY <1>7 DEF DestroyClient
  <2>2. /\ fallback'[c] = <<>> /\ room'[c] = 0
        /\ \A b \in Clients \ {c} : fallback'[b] = fallback[b] /\ room'[b] = room[b]
    BY <1>0, <2>1 DEF ReleaseList
  <2>3. QED BY <1>0, <2>1, <2>2 DEF ListsRight
<1>8. ASSUME NEW c \in Clients, FindOrCreateStyle(c) PROVE ListsRight'
  <2>1. c \in up /\ up' = up
    BY <1>8 DEF FindOrCreateStyle, client_vars
  <2>2. Only(c)
    BY <1>1, <1>2, <1>8 DEF FindOrCreateStyle
  <2>3. QED BY <1>3, <2>1, <2>2
<1>9. ASSUME NEW c \in Clients, CreateStyleOfItsOwn(c) PROVE ListsRight'
  BY <1>4, <1>9 DEF CreateStyleOfItsOwn, CreateStyle, client_vars
<1>10. ASSUME NEW c \in Clients, NEW w \in Windows,
              CreateWindow(c, w) \/ CreateWindowFails(c, w) \/ CreateWindowStyleFails(c, w)
       PROVE  ListsRight'
  <2>1. c \in up /\ up' = up
    BY <1>10 DEF CreateWindow, CreateWindowFails, CreateWindowStyleFails, NewWindow, client_vars
  <2>2. UNCHANGED lists \/ Only(c)
    <3>1. CASE CreateWindow(c, w)
      BY <1>1, <1>5, <3>1 DEF CreateWindow, style_vars
    <3>2. CASE CreateWindowFails(c, w)
      BY <3>2 DEF CreateWindowFails, style_vars
    <3>3. CASE CreateWindowStyleFails(c, w)
      BY <1>2, <1>5, <3>3 DEF CreateWindowStyleFails
    <3>4. QED BY <1>10, <3>1, <3>2, <3>3
  <2>3. QED BY <1>3, <1>4, <2>1, <2>2
<1>11. ASSUME NEW w \in Windows, DestroyWindow(w) \/ SetTitle(w) PROVE ListsRight'
  BY <1>4, <1>11 DEF DestroyWindow, SetTitle, style_vars, client_vars
<1>12. ASSUME UseStyles PROVE ListsRight'
  BY <1>4, <1>12 DEF UseStyles, HolderStep, Retain, Release, Free, client_vars
<1>13. QED BY <1>6, <1>7, <1>8, <1>9, <1>10, <1>11, <1>12 DEF Next

-----------------------------------------------------------------------------
(* Steps of the windows *)

\* At first, and without a title, the buffer is the one on the stack.
LEMMA UntitledIsTitle == IsTitle(Untitled)
<1>1. Untitled.end = 0 /\ Untitled.size = StackSize
  BY DEF Untitled
<1>2. Latin1Of(<<>>) = <<>>
  BY DEF Latin1Of
<1>3. Untitled.legacy = <<>> /\ Untitled.net = <<>>
  BY DEF Untitled
<1>4. IsText(Untitled)
  BY <1>2, <1>3 DEF IsText, WholeOrCut
<1>5. QED BY <1>1, <1>4, StackAssumption DEF IsTitle

\* A conversion for the legacy title never fails, as it may cut; its terminator is
\* inside the buffer, and its text is the title's.
LEMMA ConversionsAreTitles ==
    ASSUME NEW c \in Conversions
    PROVE  /\ c.call.status = "OK" /\ c.call.end < c.call.size
           /\ TitlesEncoded => WholeOrCut(c.chars, Latin1Of(c.net), {StackSize - 1})
<1>1. PICK t \in Titles, m \in MemoryAvailable : c = Legacy(t, m)
  BY DEF Conversions
<1>2. m \in BOOLEAN
  BY DEF MemoryAvailable
<1>3. t \in Seq(Range(t)) /\ \A i \in DOMAIN t : IsCharacter(t[i])
  BY LifeAssumption
<1>4. Bytes(t) \in Seq(1 .. 255)
  BY <1>3, BytesAreBytes
<1>5. PICK call : call = WithLatin1(Bytes(t), TRUE, TRUE, m)
  OBVIOUS
<1>6. /\ call.status = "OK"
      /\ WholeOrCut(Latin1(SubSeq(Items(Bytes(t)), 1, call.done), 63),
                    Latin1(Items(Bytes(t)), 63), {StackSize - 1})
  BY <1>2, <1>4, <1>5, Latin1WholeOrCut
<1>7. call.end < call.size
  BY <1>2, <1>4, <1>5, <1>6, Latin1Terminated
<1>8. PICK chars : chars = Latin1(SubSeq(Items(Bytes(t)), 1, call.done), 63)
  OBVIOUS
<1>9. c.net = t /\ c.call = call /\ c.chars = chars
  BY <1>1, <1>5, <1>8 DEF Legacy
<1>10. ASSUME TitlesEncoded PROVE WholeOrCut(chars, Latin1Of(t), {StackSize - 1})
  <2>1. IsUnicode(t)
    BY <1>10 DEF TitlesEncoded
  <2>2. Latin1(Items(Bytes(t)), 63) = Latin1Of(t)
    BY <1>3, <2>1, TextIsUnicode
  <2>3. QED BY <1>6, <1>8, <2>2
<1>11. QED BY <1>6, <1>7, <1>9, <1>10

\* So a title that replaces another is one, in both its forms.
LEMMA TitledWhole ==
    ASSUME NEW old, NEW c \in Conversions
    PROVE  IsTitle(Titled(old, c))
<1>1. DOMAIN Untitled = {"net", "legacy", "end", "size"}
  BY DEF Untitled
<1>2. PICK new : new = [net |-> c.net, legacy |-> c.chars, end |-> c.call.end,
                        size |-> c.call.size]
  OBVIOUS
<1>3. /\ DOMAIN new = {"net", "legacy", "end", "size"}
      /\ new.end = c.call.end /\ new.size = c.call.size
      /\ new.legacy = c.chars /\ new.net = c.net
  BY <1>2
<1>4. Titled(old, c) = new
  BY <1>2, ConversionsAreTitles DEF Titled
<1>5. QED BY <1>1, <1>3, <1>4, ConversionsAreTitles DEF IsTitle, IsText

\* A window that is created is new in memory, in the map and at the server.
LEMMA RegisterStep ==
    ASSUME WindowsRight, HeldRight, NEW c \in Clients, NEW w \in Windows, c \in up,
           Register(c, w), UNCHANGED up, given' = given \/ given' = given \cup {w}
    PROVE  WindowsRight'
<1>1. /\ memory' = memory \cup {w} /\ client_of' = [client_of EXCEPT ![w] = c]
      /\ window_map' = window_map \cup {w} /\ at_server' = at_server \cup {w}
  BY DEF Register
<1>2. /\ title' = [v \in Windows |-> title'[v]]
      /\ \A v \in Windows : IsTitle(title'[v])
  <2>1. PICK new : title' = [title EXCEPT ![w] = new] /\ IsTitle(new)
    BY TitledWhole, UntitledIsTitle DEF Register
  <2>2. QED BY <2>1 DEF WindowsRight
<1>3. RegisteredIsAlive'
  BY <1>1 DEF WindowsRight, RegisteredIsAlive
<1>4. QED BY <1>1, <1>2, <1>3 DEF WindowsRight

\* What every step leaves of windows and of the map that finds them.
LEMMA WindowsStep ==
    ASSUME LifeInv, Next
    PROVE  WindowsRight'
<1>0. WindowsRight /\ HeldRight
  BY DEF LifeInv
<1>1. ASSUME UNCHANGED window_vars, up \subseteq up' PROVE WindowsRight'
  BY <1>0, <1>1 DEF window_vars, WindowsRight, RegisteredIsAlive
<1>2. ASSUME NEW c \in Clients, CreateClient(c) \/ CreateClientFails(c) PROVE WindowsRight'
  BY <1>1, <1>2 DEF CreateClient, CreateClientFails
<1>3. ASSUME NEW c \in Clients, DestroyClient(c) PROVE WindowsRight'
  <2>1. /\ up' = up \ {c} /\ UNCHANGED <<memory, given, client_of, title>>
        /\ window_map' = {w \in window_map : client_of[w] # c}
        /\ at_server' = {w \in at_server : client_of[w] # c}
    BY <1>3 DEF DestroyClient
  <2>2. RegisteredIsAlive'
    BY <1>0, <2>1 DEF WindowsRight, RegisteredIsAlive
  <2>3. QED BY <1>0, <2>1, <2>2 DEF WindowsRight
<1>4. ASSUME NEW c \in Clients, FindOrCreateStyle(c) \/ CreateStyleOfItsOwn(c)
      PROVE  WindowsRight'
  BY <1>1, <1>4 DEF FindOrCreateStyle, CreateStyleOfItsOwn, client_vars
<1>5. ASSUME NEW c \in Clients, NEW w \in Windows, CreateWindow(c, w) PROVE WindowsRight'
  BY <1>0, <1>5, RegisterStep DEF CreateWindow, NewWindow, client_vars
<1>6. ASSUME NEW c \in Clients, NEW w \in Windows, CreateWindowStyleFails(c, w)
      PROVE  WindowsRight'
  BY <1>0, <1>6, RegisterStep DEF CreateWindowStyleFails, NewWindow, client_vars
<1>7. ASSUME NEW c \in Clients, NEW w \in Windows, CreateWindowFails(c, w)
      PROVE  WindowsRight'
  <2>1. /\ UNCHANGED <<up, memory, given, client_of, title>>
        /\ w \notin memory
    BY <1>7 DEF CreateWindowFails, NewWindow, client_vars
  <2>2. w \notin window_map /\ w \notin at_server
    BY <1>0, <2>1 DEF WindowsRight, RegisteredIsAlive
  <2>3. UNCHANGED <<window_map, at_server>>
    BY <1>7, <2>2 DEF CreateWindowFails, WindowFini
  <2>4. QED BY <1>0, <2>1, <2>3 DEF WindowsRight, RegisteredIsAlive
<1>8. ASSUME NEW w \in Windows, DestroyWindow(w) PROVE WindowsRight'
  <2>1. /\ UNCHANGED <<up, client_of>> /\ memory' = memory \ {w} /\ given' = given \ {w}
        /\ window_map' = window_map \ {w} /\ at_server' = at_server \ {w}
        /\ title' = [title EXCEPT ![w] = Untitled]
    BY <1>8 DEF DestroyWindow, WindowFini, client_vars
  <2>2. RegisteredIsAlive'
    BY <1>0, <2>1 DEF WindowsRight, RegisteredIsAlive
  <2>3. QED BY <1>0, <2>1, <2>2, UntitledIsTitle DEF WindowsRight
<1>9. ASSUME NEW w \in Windows, SetTitle(w) PROVE WindowsRight'
  <2>1. /\ UNCHANGED <<up, memory, given, client_of, window_map, at_server>>
        /\ \E c \in Conversions : title' = [title EXCEPT ![w] = Titled(@, c)]
    BY <1>9 DEF SetTitle, client_vars
  <2>2. PICK c \in Conversions : title' = [title EXCEPT ![w] = Titled(title[w], c)]
    BY <2>1
  <2>3. IsTitle(Titled(title[w], c))
    BY <1>0, TitledWhole DEF WindowsRight
  <2>4. QED BY <1>0, <2>1, <2>2, <2>3 DEF WindowsRight, RegisteredIsAlive
<1>10. ASSUME UseStyles PROVE WindowsRight'
  BY <1>1, <1>10 DEF UseStyles, client_vars
<1>11. QED BY <1>2, <1>3, <1>4, <1>5, <1>6, <1>7, <1>8, <1>9, <1>10 DEF Next

-----------------------------------------------------------------------------
(* All of them together *)

\* At first the application has one descriptor and there is nothing else.
LEMMA LifeInvInit == Init => LifeInv /\ LiveDescriptors
<1> SUFFICES ASSUME Init PROVE LifeInv /\ LiveDescriptors
  OBVIOUS
<1>1. 0 \in Descriptors
  BY LifeAssumption DEF Descriptors
<1>2. OwnersRight /\ LiveDescriptors
  <2>1. \A d \in Descriptors : owner[d] = IF d = 0 THEN <<"app">> ELSE <<>>
    BY DEF Init
  <2>2. owner \in [Descriptors -> Owners]
    BY DEF Init, Owners
  <2>3. driver \in [Clients -> [Kinds -> Descriptors \cup {-1}]]
    BY <1>1 DEF Init
  <2>4. up = {}
    BY DEF Init
  <2>5. \A d \in Descriptors : owner[d] = <<"app">> => d = 0
    BY <2>1, OwnersDiffer
  <2>6. \A d \in Descriptors, c \in Clients, k \in Kinds : owner[d] # <<c, k>>
    BY <2>1, OwnersDiffer
  <2>7. QED BY <1>1, <2>1, <2>2, <2>3, <2>4, <2>5, <2>6 DEF OwnersRight, LiveDescriptors
<1>3. HeldRight
  BY DEF Init, HeldRight
<1>4. ListsRight
  BY DEF Init, StylesInit, ListsRight
<1>5. WindowsRight
  <2>1. (CHOOSE c \in Clients : TRUE) \in Clients
    BY LifeAssumption
  <2>2. client_of \in [Windows -> Clients]
    BY <2>1 DEF Init
  <2>3. title = [w \in Windows |-> title[w]] /\ \A w \in Windows : title[w] = Untitled
    BY DEF Init
  <2>4. QED BY <2>2, <2>3, UntitledIsTitle DEF Init, WindowsRight, RegisteredIsAlive
<1>6. StylesInv
  BY StylesInvInit DEF Init
<1>7. QED BY <1>2, <1>3, <1>4, <1>5, <1>6 DEF LifeInv

\* Every step keeps the invariant.
LEMMA LifeInvStep ==
    LifeInv /\ [Next]_vars
      => LifeInv' /\ ((LiveDescriptors /\ NoEarlyFailure) => LiveDescriptors')
<1> SUFFICES ASSUME LifeInv, [Next]_vars
             PROVE  /\ LifeInv'
                    /\ (LiveDescriptors /\ NoEarlyFailure) => LiveDescriptors'
  OBVIOUS
<1>1. CASE Next
  <2>1. StylesInv'
    BY <1>1, NextIsStyleStep, StylesPreserved DEF LifeInv
  <2>2. QED BY <1>1, <2>1, OwnersStep, ListsStep, WindowsStep DEF LifeInv
<1>2. CASE UNCHANGED vars
  <2>1. StylesInv'
    BY <1>2, StylesPreserved DEF LifeInv, vars
  <2>2. ListsRight'
    BY <1>2 DEF LifeInv, ListsRight, vars, client_vars, style_vars, lists
  <2>3. OwnersRight' /\ HeldRight' /\ (LiveDescriptors => LiveDescriptors')
    BY <1>2 DEF LifeInv, OwnersRight, HeldRight, LiveDescriptors, vars, client_vars
  <2>4. WindowsRight'
    BY <1>2 DEF LifeInv, WindowsRight, RegisteredIsAlive, vars, client_vars, window_vars
  <2>5. QED BY <2>1, <2>2, <2>3, <2>4 DEF LifeInv
<1>3. QED BY <1>1, <1>2

\* The invariant in every behaviour.
LEMMA LifeInvHolds == Spec => []LifeInv
<1>1. Init => LifeInv
  BY LifeInvInit
<1>2. LifeInv /\ [Next]_vars => LifeInv'
  BY LifeInvStep
<1>3. QED BY <1>1, <1>2, PTL DEF Spec

\* A client the application has holds what it needs, and one it does not have
\* holds nothing, whatever failed in its creation.
THEOREM TypesAndHoldings == Spec => []TypeOK
<1>1. LifeInv => TypeOK
  <2> SUFFICES ASSUME LifeInv PROVE TypeOK
    OBVIOUS
  <2>1. StylesTypeOK
    BY StylesProperties DEF LifeInv
  <2>2. QED BY <2>1 DEF LifeInv, OwnersRight, HeldRight, WindowsRight, IsTitle, TypeOK, Owners, Held
<1>2. QED BY <1>1, LifeInvHolds, PTL

\* Once the last client is gone, all that the driver and the lists took has been
\* returned, whatever failed in between and in whatever order clients came and went.
THEOREM AllReturnedAtTheEnd == Spec => []NothingLeft
<1>1. LifeInv => NothingLeft
  <2> SUFFICES ASSUME LifeInv, up = {} PROVE NothingLeft
    BY DEF NothingLeft
  <2>1. \A c \in Clients : held[c] = {} /\ room[c] = 0 /\ fallback[c] = <<>>
    BY DEF LifeInv, HeldRight, ListsRight
  <2>2. ASSUME NEW d \in Descriptors \ {0} PROVE owner[d] = <<>>
    <3>1. owner[d] \in Owners /\ owner[d] # <<"app">>
      BY DEF LifeInv, OwnersRight
    <3>2. ASSUME NEW c \in Clients, NEW k \in Kinds PROVE owner[d] # <<c, k>>
      BY DEF LifeInv, OwnersRight
    <3>3. QED BY <3>1, <3>2 DEF Owners
  <2>3. window_map = {} /\ at_server = {}
    BY DEF LifeInv, WindowsRight, RegisteredIsAlive
  <2>4. ASSUME NEW s \in allocated PROVE s \in Range(holds) \cup Range(last)
    <3>1. s \in StyleObjects
      BY DEF LifeInv, StylesInv, StyleTypes
    <3>2. Lenders(s) # {} \/ \E t \in Holders : last[t] = s
      BY <3>1 DEF LifeInv, StylesInv, RefsOf
    <3>3. \A c \in Clients : s \notin Listed(c)
      BY <2>1 DEF Listed
    <3>4. \E t \in Holders : holds[t] = s \/ last[t] = s
      BY <3>2, <3>3 DEF Lenders
    <3>5. DOMAIN holds = Holders /\ DOMAIN last = Holders
      BY DEF LifeInv, StylesInv, StyleTypes
    <3>6. QED BY <3>4, <3>5 DEF Range
  <2>5. QED BY <2>1, <2>2, <2>3, <2>4 DEF NothingLeft
<1>2. QED BY <1>1, LifeInvHolds, PTL

\* An event finds a window only if the window and its client are alive, and it
\* finds every window the server has.
THEOREM EventsFindLiveWindows == Spec => []RegisteredIsAlive
<1>1. LifeInv => RegisteredIsAlive
  BY DEF LifeInv, WindowsRight
<1>2. QED BY <1>1, LifeInvHolds, PTL

\* Whatever the title, whether its conversion had memory or not: the terminator of
\* the legacy title was written inside the buffer it was converted into.
THEOREM LegacyTitlesEndInBuffer == Spec => []LegacyTitleInBounds
<1>1. LifeInv => LegacyTitleInBounds
  BY DEF LifeInv, WindowsRight, RegisteredIsAlive, IsTitle, LegacyTitleInBounds
<1>2. QED BY <1>1, LifeInvHolds, PTL

\* Whatever titles of Unicode characters and bytes that are none: a window at the
\* server has in its legacy properties the Latin-1 form of the title it has now,
\* never an earlier one, and nothing of it is missing but behind the stack buffer.
THEOREM LegacyTitlesFollow ==
    ASSUME \A t \in Titles : IsUnicode(t)
    PROVE  Spec => []LegacyTitleFollows
<1>1. TitlesEncoded
  BY DEF TitlesEncoded
<1>2. LifeInv => LegacyTitleFollows
  BY <1>1 DEF LifeInv, WindowsRight, RegisteredIsAlive, IsTitle, IsText, LegacyTitleFollows
<1>3. QED BY <1>2, LifeInvHolds, PTL

\* Unless autk_x11_client_init fails before the job queue's descriptors are set to
\* -1, nobody ever closes a descriptor of somebody else.
THEOREM DescriptorsLive == NoEarlyFailure => (Spec => []LiveDescriptors)
<1> SUFFICES ASSUME NoEarlyFailure PROVE Spec => []LiveDescriptors
  OBVIOUS
<1>1. Init => LifeInv /\ LiveDescriptors
  BY LifeInvInit
<1>2. (LifeInv /\ LiveDescriptors) /\ [Next]_vars => (LifeInv /\ LiveDescriptors)'
  BY LifeInvStep
<1>3. QED BY <1>1, <1>2, PTL DEF Spec

\* The count of a style is the number of references to it, whoever holds them;
\* nobody refers to a freed style, and exactly one thread frees it.
THEOREM ReferencesCounted == Spec => []RefsCounted
<1>1. LifeInv => RefsCounted
  BY StylesProperties DEF LifeInv
<1>2. QED BY <1>1, LifeInvHolds, PTL

\* A class is asked to init and to fini each of its styles once.
THEOREM ClassesInitAndFini == Spec => []ClassDataLives
<1>1. LifeInv => ClassDataLives
  BY StylesProperties DEF LifeInv
<1>2. QED BY <1>1, LifeInvHolds, PTL

\* No list holds a style for a query that one before it already answers.
THEOREM NoNeedlessFallbacks == Spec => []FallbacksNeeded
<1>1. LifeInv => FallbacksNeeded
  BY StylesProperties DEF LifeInv
<1>2. QED BY <1>1, LifeInvHolds, PTL

\* A list never outgrows its memory, nor forgets how much it has.
THEOREM ListsFit == Spec => []ListHasRoom
<1>1. LifeInv => ListHasRoom
  BY StylesProperties DEF LifeInv
<1>2. QED BY <1>1, LifeInvHolds, PTL
=============================================================================
