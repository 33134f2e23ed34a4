--------------------------- MODULE X11LoopProofs ----------------------------
(***************************************************************************)
(* Theorems about Boxes, and about X11Loop for any number of threads,      *)
(* windows and quits, any exposures, queue and output buffer, and any      *)
(* behaviour of the callbacks.                                             *)
(***************************************************************************)
EXTENDS X11Loop, FiniteSetTheorems, TLAPS

(* Boxes *)

\* The extended region is a box.
LEMMA ExtendIsBox ==
    ASSUME NEW a \in Box, NEW b \in Box PROVE Extend(a, b) \in Box
BY DEF Extend, Box, Least, Greatest

\* Extending a region keeps what it contained and takes in what is added
\* (autk_bbox_extend).
LEMMA ExtendContains ==
    ASSUME NEW a \in Box, NEW b \in Box
    PROVE  /\ Within(b, Extend(a, b))
           /\ \A c \in Box : Within(c, a) => Within(c, Extend(a, b))
<1>1. Within(b, Extend(a, b))
  BY DEF Extend, Within, IsPositive, Box, Least, Greatest
<1>2. ASSUME NEW c \in Box, Within(c, a) PROVE Within(c, Extend(a, b))
  BY <1>2 DEF Extend, Within, IsPositive, Box, Least, Greatest
<1>3. QED BY <1>1, <1>2

\* The extended region is the least box with both: a redraw is asked for no
\* more than one box must contain.
THEOREM ExtendIsLeast ==
    ASSUME NEW a \in Box, NEW b \in Box, NEW c \in Box
    PROVE  Within(a, c) /\ Within(b, c) => Within(Extend(a, b), c)
BY DEF Extend, Within, IsPositive, Box, Least, Greatest

-----------------------------------------------------------------------------
(* Types.  The jobs apart, which QuitsFit bounds below. *)

\* An event of the server: what is exposed is one of the exposures.
Happens == {e \in Event : e.kind = "expose" => e.box \in Exposures}

Types ==
    /\ line \in Seq(Nat) /\ served \in Seq(Nat) /\ returns \in Nat
    /\ quit_requested \in BOOLEAN
    /\ wire \in Seq(Happens) /\ xq \in Seq(Happens)
    /\ outbuf \in Requests
    /\ window_map \subseteq Windows
    /\ dirty \in [Windows -> Box] /\ exposed \in [Windows -> SUBSET Exposures]

LEMMA Concat ==
    ASSUME NEW S, NEW s \in Seq(S), NEW t \in Seq(S) PROVE s \o t \in Seq(S)
OBVIOUS

LEMMA Appended ==
    ASSUME NEW S, NEW s \in Seq(S), NEW e \in S PROVE Append(s, e) \in Seq(S)
OBVIOUS

LEMMA Behead ==
    ASSUME NEW S, NEW s \in Seq(S), s # <<>> PROVE Head(s) \in S /\ Tail(s) \in Seq(S)
OBVIOUS

\* So is the region of a window of which nothing is dirty.
LEMMA NoBoxIsBox == NoBox \in Box
BY DEF NoBox, Box

\* What the server sends about a window is an event,
LEMMA NoticeIsEvent ==
    ASSUME NEW w \in Windows, NEW k \in {"close", "destroyed"} PROVE Notice(k, w) \in Happens
BY DEF Notice, Event, Happens

\* and so are its answers to destroy requests.
LEMMA NotifiesAreEvents ==
    ASSUME NEW r \in Requests
    PROVE  DestroyNotifies(r) \in Seq(Happens)
<1>1. r.destroys \in Seq(Windows) /\ DOMAIN r.destroys = 1 .. Len(r.destroys)
  BY DEF Requests
<1>2. Len(r.destroys) \in Nat
  BY <1>1
<1>3. \A i \in 1 .. Len(r.destroys) : Notice("destroyed", r.destroys[i]) \in Happens
  BY <1>1, NoticeIsEvent
<1>4. QED BY <1>1, <1>2, <1>3 DEF DestroyNotifies

\* XCB's buffer holds requests,
LEMMA PlusIsRequests ==
    ASSUME NEW a \in Requests,
           NEW b \in Requests
    PROVE  Plus(a, b) \in Requests
BY DEF Plus, Requests

\* one at a time.
LEMMA OneRequest ==
    /\ NoRequests \in Requests
    /\ Drawing \in Requests
    /\ \A w \in Windows : Creating(w) \in Requests /\ Destroying(w) \in Requests
BY DEF NoRequests, Drawing, Creating, Destroying, Requests

\* A request keeps what XCB holds well typed.
LEMMA RequestTypes ==
    ASSUME Types, NEW r \in Requests, Request(r)
    PROVE  /\ wire' \in Seq(Happens) /\ xq' \in Seq(Happens)
           /\ outbuf' \in Requests
<1>1. DestroyNotifies(outbuf) \in Seq(Happens)
  BY NotifiesAreEvents DEF Types
<1>2. Plus(outbuf, r) \in Requests
  BY PlusIsRequests DEF Types
<1>3. wire \in Seq(Happens) /\ xq \in Seq(Happens)
  BY DEF Types
<1>4. wire \o DestroyNotifies(outbuf) \in Seq(Happens) /\ xq \o wire \in Seq(Happens)
  BY <1>1, <1>3, Concat
<1>5. QED BY <1>1, <1>2, <1>3, <1>4 DEF Request

\* The event that is handled, and what is left of the others.
LEMMA NextEventTypes ==
    ASSUME Types, NEW k, NextEvent(k)
    PROVE  /\ Head(Arrived) \in Happens
           /\ wire' \in Seq(Happens) /\ xq' \in Seq(Happens)
<1>1. wire \in Seq(Happens) /\ xq \in Seq(Happens)
  BY DEF Types
<1>2. Arrived \in Seq(Happens) /\ Arrived # <<>>
  BY <1>1, Concat DEF NextEvent, Arrived
<1>3. Head(Arrived) \in Happens
  BY <1>2, Behead
<1>4. CASE xq # <<>>
  <2>1. Tail(xq) \in Seq(Happens)
    BY <1>1, <1>4, Behead
  <2>2. QED BY <1>1, <1>3, <1>4, <2>1 DEF NextEvent
<1>5. CASE xq = <<>>
  <2>1. Arrived = wire
    BY <1>1, <1>5 DEF Arrived
  <2>2. Tail(wire) \in Seq(Happens) /\ <<>> \in Seq(Happens)
    BY <1>1, <1>2, <2>1, Behead
  <2>3. QED BY <1>3, <1>5, <2>2 DEF NextEvent
<1>6. QED BY <1>4, <1>5

\* Cleaning a window keeps the types of the regions.
LEMMA CleanTypes ==
    ASSUME Types, NEW w \in Windows, Clean(w)
    PROVE  dirty' \in [Windows -> Box] /\ exposed' \in [Windows -> SUBSET Exposures]
BY NoBoxIsBox DEF Types, Clean

\* The initial state is well typed.
LEMMA TypesInit == Init => Types
<1> SUFFICES ASSUME Init PROVE Types
  OBVIOUS
<1>1. dirty \in [Windows -> Box] /\ exposed \in [Windows -> SUBSET Exposures]
  BY NoBoxIsBox DEF Init
<1>2. outbuf \in Requests
  BY OneRequest DEF Init
<1>3. line \in Seq(Nat) /\ served \in Seq(Nat) /\ wire \in Seq(Happens) /\ xq \in Seq(Happens)
  BY DEF Init, Queue!Init
<1>4. window_map \subseteq Windows
  BY LoopAssumption DEF Init
<1>5. QED BY <1>1, <1>2, <1>3, <1>4 DEF Init, Types

\* autk_client_quit, on any thread.
LEMMA TypesQuit ==
    ASSUME Types, NEW t \in Threads, PosterQuits(t) \/ QuitStep(t) PROVE Types'
<1> USE DEF Types, xcb, wins, regions, counts
<1>1. CASE PosterQuits(t)
  BY <1>1 DEF PosterQuits, queue
<1>2. CASE EnterQueue(t)
  <2>1. Len(line) + Len(served) + 1 \in Nat
    OBVIOUS
  <2>2. QED BY <1>2, <2>1 DEF EnterQueue, Queue!Enter
<1>3. CASE PublishQuit(t)
  BY <1>3 DEF PublishQuit, Queue!Publish
<1>4. CASE WakeLoop(t)
  BY <1>4 DEF WakeLoop
<1>5. QED BY <1>1, <1>2, <1>3, <1>4 DEF QuitStep

\* The loop's own steps, its handlers and callbacks apart.
LEMMA TypesLoop ==
    ASSUME Types,
           \/ StartRun \/ ReturnQuit \/ PopJob \/ PopNothing \/ Flush \/ EventsDone
           \/ BeginWaitReturns \/ RedrawOne \/ RedrawDone \/ PollReturns \/ PollInterrupted
    PROVE  Types'
<1> USE DEF Types, xcb, wins, regions, counts
<1>1. CASE StartRun \/ PopNothing \/ EventsDone
  BY <1>1 DEF StartRun, PopNothing, EventsDone, queue
<1>2. CASE ReturnQuit
  BY <1>2 DEF ReturnQuit, queue
<1>3. CASE PopJob
  <2>1. Head(line) \in Nat /\ Tail(line) \in Seq(Nat)
    BY <1>3 DEF PopJob, Queue!Serve
  <2>2. QED BY <1>3, <2>1 DEF PopJob, Queue!Serve
<1>4. CASE Flush
  <2>1. wire \o DestroyNotifies(outbuf) \in Seq(Happens)
    BY NotifiesAreEvents, Concat
  <2>2. wire' \in Seq(Happens) /\ outbuf' \in Requests
    BY <1>4, <2>1, OneRequest DEF Flush
  <2>3. QED BY <1>4, <2>2 DEF Flush, queue
<1>5. CASE RedrawOne
  <2>1. PICK w \in Windows : Clean(w)
    BY <1>5 DEF RedrawOne, DirtyWindows
  <2>2. QED BY <1>5, <2>1, CleanTypes DEF RedrawOne, queue
<1>6. CASE BeginWaitReturns \/ RedrawDone \/ PollReturns \/ PollInterrupted
  BY <1>6 DEF BeginWaitReturns, RedrawDone, PollReturns, PollInterrupted, queue
<1>7. QED BY <1>1, <1>2, <1>3, <1>4, <1>5, <1>6

\* The event handlers.
LEMMA TypesEvents ==
    ASSUME Types, HandleClose \/ HandleExpose \/ HandleDestroyed PROVE Types'
<1> DEFINE w == Head(Arrived).window
<1> USE DEF Types, wins, regions, counts
<1>1. CASE HandleClose
  <2>1. wire' \in Seq(Happens) /\ xq' \in Seq(Happens)
    BY <1>1, NextEventTypes DEF HandleClose
  <2>2. CASE w \in window_map /\ window_map' = window_map \ {w}
    <3>1. w \in Windows
      BY <2>2
    <3>2. Plus(outbuf, Destroying(w)) \in Requests
      BY <3>1, PlusIsRequests, OneRequest
    <3>3. QED BY <1>1, <2>1, <2>2, <3>1, <3>2, CleanTypes DEF HandleClose, queue
  <2>3. QED BY <1>1, <2>1, <2>2 DEF HandleClose, Ignore, queue
<1>2. CASE HandleExpose
  <2>1. Head(Arrived) \in Happens /\ wire' \in Seq(Happens) /\ xq' \in Seq(Happens)
    BY <1>2, NextEventTypes DEF HandleExpose
  <2>2. Head(Arrived).box \in Exposures /\ Head(Arrived).box \in Box
    BY <1>2, <2>1, LoopAssumption DEF Event, Happens, HandleExpose, NextEvent
  <2>3. CASE w \in window_map \cap Redrawing
    <3>1. Extend(dirty[w], Head(Arrived).box) \in Box
      BY <2>2, <2>3, ExtendIsBox
    <3>2. Dirtied(w, Head(Arrived).box)
      BY <1>2, <2>3 DEF HandleExpose
    <3>3. dirty' \in [Windows -> Box]
      BY <3>1, <3>2 DEF Dirtied
    <3>4. exposed' \in [Windows -> SUBSET Exposures]
      BY <2>2, <3>2 DEF Dirtied
    <3>5. QED BY <1>2, <2>1, <3>3, <3>4 DEF HandleExpose, queue
  <2>4. CASE w \notin window_map \cap Redrawing
    BY <1>2, <2>1, <2>4 DEF HandleExpose, queue
  <2>5. QED BY <2>3, <2>4
<1>3. CASE HandleDestroyed
  <2>1. wire' \in Seq(Happens) /\ xq' \in Seq(Happens)
    BY <1>3, NextEventTypes DEF HandleDestroyed
  <2>2. QED BY <1>3, <2>1 DEF HandleDestroyed, queue
<1>4. QED BY <1>1, <1>2, <1>3

\* The application's callbacks.
LEMMA TypesCallbacks ==
    ASSUME Types,
           \/ Draw \/ BeginWaitQuits \/ RedrawQuits
           \/ \E v \in Windows : RedrawDestroys(v) \/ BeginWaitCreates(v)
    PROVE  Types'
<1> USE DEF Types, wins, regions, counts
<1>1. CASE Draw
  BY <1>1, RequestTypes, OneRequest DEF Draw, queue
<1>2. CASE BeginWaitQuits \/ RedrawQuits
  BY <1>2 DEF BeginWaitQuits, RedrawQuits, queue, xcb
<1>3. ASSUME NEW v \in Windows, RedrawDestroys(v) PROVE Types'
  <2>1. Destroying(v) \in Requests
    BY OneRequest
  <2>2. /\ wire' \in Seq(Happens) /\ xq' \in Seq(Happens)
        /\ outbuf' \in Requests
    BY <1>3, <2>1, RequestTypes DEF RedrawDestroys
  <2>3. QED BY <1>3, <2>2, CleanTypes DEF RedrawDestroys, queue
<1>4. ASSUME NEW v \in Windows, BeginWaitCreates(v) PROVE Types'
  <2>1. Creating(v) \in Requests
    BY OneRequest
  <2>2. wire' \in Seq(Happens) /\ xq' \in Seq(Happens) /\ outbuf' \in Requests
    BY <1>4, <2>1, RequestTypes DEF BeginWaitCreates
  <2>3. QED BY <1>4, <2>2 DEF BeginWaitCreates, queue
<1>5. QED BY <1>1, <1>2, <1>3, <1>4

\* The windows the server has are windows of the client.
LEMMA KnownWindows ==
    ASSUME Types PROVE AtServer \subseteq Windows
<1>1. outbuf.destroys \in Seq(Windows) /\ window_map \subseteq Windows
  BY DEF Types, Requests
<1>2. \A i \in DOMAIN outbuf.destroys : outbuf.destroys[i] \in Windows
  BY <1>1
<1>3. QED BY <1>1, <1>2 DEF Range, AtServer

\* The server and the connection.
LEMMA TypesServer ==
    ASSUME Types, ServerSends \/ ServerDestroysWindow \/ ConnectionLost PROVE Types'
<1> USE DEF Types, wins, regions, counts
<1>0. AtServer \subseteq Windows
  BY KnownWindows
<1>1. CASE ServerSends
  <2>1. PICK w \in Windows :
          \/ wire' = Append(wire, Notice("close", w))
          \/ \E b \in Exposures : wire' = Append(wire, [kind |-> "expose", window |-> w, box |-> b])
    BY <1>0, <1>1 DEF ServerSends
  <2>2. \A b \in Exposures : [kind |-> "expose", window |-> w, box |-> b] \in Happens
    BY DEF Event, Happens
  <2>3. wire' \in Seq(Happens)
    BY <2>1, <2>2, NoticeIsEvent, Appended
  <2>4. QED BY <1>1, <2>3 DEF ServerSends, queue
<1>2. CASE ServerDestroysWindow
  <2>1. PICK w \in Windows : wire' = Append(wire, Notice("destroyed", w))
    BY <1>0, <1>2 DEF ServerDestroysWindow
  <2>2. wire' \in Seq(Happens)
    BY <2>1, NoticeIsEvent, Appended
  <2>3. QED BY <1>2, <2>2 DEF ServerDestroysWindow, queue
<1>3. CASE ConnectionLost
  BY <1>3 DEF ConnectionLost, queue
<1>4. QED BY <1>1, <1>2, <1>3

\* Every step keeps the types.
LEMMA TypesNext == Types /\ [Next]_vars => Types'
<1>1. Types /\ UNCHANGED vars => Types'
  BY DEF Types, vars, queue, xcb, wins, regions, counts
<1>2. Types /\ Next => Types'
  <2> SUFFICES ASSUME Types, Next PROVE Types'
    OBVIOUS
  <2>1. ASSUME NEW t \in Posters, PosterQuits(t) PROVE Types'
    BY <2>1, TypesQuit DEF Threads
  <2>2. ASSUME NEW t \in Threads, QuitStep(t) PROVE Types'
    BY <2>2, TypesQuit
  <2>3. QED
    BY <2>1, <2>2, TypesLoop, TypesEvents, TypesCallbacks, TypesServer DEF Next, LoopStep
<1>3. QED BY <1>1, <1>2

\* So every state is well typed, but for the bound of the jobs.
LEMMA TypesAlways == Spec => []Types
BY TypesInit, TypesNext, PTL DEF Spec

-----------------------------------------------------------------------------
(* The bound of the jobs, and with it TypeOK *)

Callers == {t \in Threads : post[t] = "enter"}

\* The jobs are numbered in the order they enter, and each quit under way that has
\* not entered yet has a number left.
QuitsFit ==
    /\ line \in Seq(1 .. MaxQuits) /\ Len(line) <= Places
    /\ served \in Seq(1 .. MaxQuits)
    /\ published \subseteq 1 .. MaxQuits
    /\ post \in [Threads -> {"idle", "enter", "publish", "wake"}]
    /\ quit_of \in [Threads -> 0 .. MaxQuits]
    /\ Len(line) + Len(served) + Quitting <= MaxQuits

\* The threads in autk_client_quit can be counted.
LEMMA CallersFinite ==
    /\ IsFiniteSet(Callers) /\ Cardinality(Callers) \in Nat
    /\ Quitting = Cardinality(Callers)
<1>1. IsFiniteSet(Threads)
  BY LoopAssumption, FS_AddElement DEF Threads
<1>2. IsFiniteSet(Callers)
  BY <1>1, FS_Subset DEF Callers
<1>3. QED BY <1>2, FS_CardinalityType DEF Quitting, Callers

\* A call adds one to the callers, and its entry takes it away.
LEMMA CallersChange ==
    ASSUME QuitsFit, NEW t \in Threads, NEW to \in {"enter", "publish", "wake", "idle"},
           post' = [post EXCEPT ![t] = to]
    PROVE  /\ to = "enter" /\ post[t] # "enter" => Quitting' = Quitting + 1
           /\ to # "enter" /\ post[t] = "enter" => Quitting' = Quitting - 1
           /\ to # "enter" /\ post[t] # "enter" => Quitting' = Quitting
<1>1. \A u \in Threads : post'[u] = (IF u = t THEN to ELSE post[u])
  BY DEF QuitsFit
<1>2. Quitting' = Cardinality(Callers') /\ Quitting = Cardinality(Callers)
  BY DEF Quitting, Callers
<1>3. IsFiniteSet(Callers)
  BY CallersFinite
<1>4. ASSUME to = "enter", post[t] # "enter" PROVE Quitting' = Quitting + 1
  <2>1. Callers' = Callers \cup {t} /\ t \notin Callers
    BY <1>1, <1>4 DEF Callers
  <2>2. QED BY <1>2, <1>3, <2>1, FS_AddElement
<1>5. ASSUME to # "enter", post[t] = "enter" PROVE Quitting' = Quitting - 1
  <2>1. Callers' = Callers \ {t} /\ t \in Callers
    BY <1>1, <1>5 DEF Callers
  <2>2. QED BY <1>2, <1>3, <2>1, FS_RemoveElement
<1>6. ASSUME to # "enter", post[t] # "enter" PROVE Quitting' = Quitting
  <2>1. Callers' = Callers
    BY <1>1, <1>6 DEF Callers
  <2>2. QED BY <1>2, <2>1
<1>7. QED BY <1>4, <1>5, <1>6

\* Initially no number is used.
LEMMA FitsInit == Init => QuitsFit
<1> SUFFICES ASSUME Init PROVE QuitsFit
  OBVIOUS
<1>1. Callers = {}
  BY DEF Init, Callers
<1>2. Quitting = 0
  BY <1>1, CallersFinite, FS_EmptySet
<1>3. line = <<>> /\ served = <<>> /\ published = {}
  BY DEF Init, Queue!Init
<1>4. Len(line) = 0 /\ Len(served) = 0
  BY <1>3
<1>5. MaxQuits \in Nat /\ Places \in Nat
  BY LoopAssumption
<1>6. /\ post \in [Threads -> {"idle", "enter", "publish", "wake"}]
      /\ quit_of \in [Threads -> 0 .. MaxQuits]
  BY <1>5 DEF Init
<1>7. QED BY <1>2, <1>3, <1>4, <1>5, <1>6 DEF QuitsFit

\* A call of autk_client_quit is made while a number is left for it.
LEMMA FitsCall ==
    ASSUME QuitsFit, NEW t \in Threads, post[t] = "idle", QuitsLeft, CallQuit(t),
           UNCHANGED <<queue, quit_of>>
    PROVE  QuitsFit'
<1>1. Quitting' = Quitting + 1 /\ Quitting \in Nat
  BY CallersChange, CallersFinite DEF CallQuit
<1>2. post' \in [Threads -> {"idle", "enter", "publish", "wake"}]
  BY DEF QuitsFit, CallQuit
<1>3. UNCHANGED <<line, served, published, quit_of>>
  BY DEF queue
<1>4. Len(line) \in Nat /\ Len(served) \in Nat /\ MaxQuits \in Nat
  BY LoopAssumption DEF QuitsFit
<1>5. Len(line) + Len(served) + Quitting' <= MaxQuits
  BY <1>1, <1>4 DEF QuitsLeft
<1>6. QED BY <1>2, <1>3, <1>5 DEF QuitsFit

\* A caller that enters uses the number that was left for it; to publish and to wake
\* uses none.
LEMMA FitsStep ==
    ASSUME QuitsFit, NEW t \in Threads, QuitStep(t) PROVE QuitsFit'
<1>0. /\ Len(line) \in Nat /\ Len(served) \in Nat /\ MaxQuits \in Nat
      /\ Quitting \in Nat
  BY LoopAssumption, CallersFinite DEF QuitsFit
<1>1. CASE EnterQueue(t)
  <2>1. PICK j : j = Len(line) + Len(served) + 1
    OBVIOUS
  <2>2. Quitting' = Quitting - 1 /\ Quitting # 0
    <3>1. Quitting' = Quitting - 1
      BY <1>1, CallersChange DEF EnterQueue
    <3>2. t \in Callers
      BY <1>1 DEF EnterQueue, Callers
    <3>3. QED BY <3>1, <3>2, CallersFinite, FS_EmptySet
  <2>3. j \in 1 .. MaxQuits
    BY <1>0, <2>1, <2>2 DEF QuitsFit
  <2>4. line' = Append(line, j) /\ Len(line) < Places /\ UNCHANGED <<served, published>>
    BY <1>1, <2>1 DEF EnterQueue, Queue!Enter
  <2>5. /\ line' \in Seq(1 .. MaxQuits) /\ Len(line') = Len(line) + 1
    BY <2>3, <2>4 DEF QuitsFit
  <2>6. /\ post' \in [Threads -> {"idle", "enter", "publish", "wake"}]
        /\ quit_of' \in [Threads -> 0 .. MaxQuits]
    BY <1>0, <1>1, <2>1, <2>3 DEF EnterQueue, QuitsFit
  <2>7. Len(line') <= Places
    BY <1>0, <2>4, <2>5, LoopAssumption
  <2>8. Len(line') + Len(served') + Quitting' <= MaxQuits
    BY <1>0, <2>2, <2>4, <2>5 DEF QuitsFit
  <2>9. QED BY <2>4, <2>5, <2>6, <2>7, <2>8 DEF QuitsFit
<1>2. CASE PublishQuit(t)
  <2>1. Quitting' = Quitting
    BY <1>2, CallersChange DEF PublishQuit
  <2>2. UNCHANGED <<line, served, quit_of>> /\ published' = published \cup {quit_of[t]}
    BY <1>2 DEF PublishQuit, Queue!Publish
  <2>3. quit_of[t] \in 1 .. MaxQuits
    <3>1. quit_of[t] \in Range(line)
      BY <1>2 DEF PublishQuit, Queue!Publish, Queue!Range, Range
    <3>2. PICK i \in DOMAIN line : quit_of[t] = line[i]
      BY <3>1 DEF Range
    <3>3. line[i] \in 1 .. MaxQuits
      <4>1. PICK S : S = 1 .. MaxQuits
        OBVIOUS
      <4>2. line \in Seq(S)
        BY <4>1 DEF QuitsFit
      <4>3. line[i] \in S
        BY <3>2, <4>2
      <4>4. QED BY <4>1, <4>3
    <3>4. QED BY <3>2, <3>3
  <2>4. post' \in [Threads -> {"idle", "enter", "publish", "wake"}]
    BY <1>2 DEF PublishQuit, QuitsFit
  <2>5. QED BY <2>1, <2>2, <2>3, <2>4 DEF QuitsFit
<1>3. CASE WakeLoop(t)
  <2>1. Quitting' = Quitting
    BY <1>3, CallersChange DEF WakeLoop
  <2>2. post' \in [Threads -> {"idle", "enter", "publish", "wake"}]
    BY <1>3 DEF WakeLoop, QuitsFit
  <2>3. QED BY <1>3, <2>1, <2>2 DEF QuitsFit, WakeLoop
<1>4. QED BY <1>1, <1>2, <1>3 DEF QuitStep

\* Popping a job moves its number from the line to the served.
LEMMA FitsPop ==
    ASSUME QuitsFit, PopJob PROVE QuitsFit'
<1>1. /\ line # <<>> /\ line' = Tail(line) /\ served' = Append(served, Head(line))
      /\ UNCHANGED <<published, post, quit_of>>
  BY DEF PopJob, Queue!Serve
<1>2. Head(line) \in 1 .. MaxQuits /\ line' \in Seq(1 .. MaxQuits)
  <2>1. line \in Seq(1 .. MaxQuits)
    BY DEF QuitsFit
  <2>2. QED BY <1>1, <2>1, Behead
<1>3. Len(line') = Len(line) - 1 /\ Len(line) \in Nat
  BY <1>1 DEF QuitsFit
<1>4. /\ served' \in Seq(1 .. MaxQuits) /\ Len(served') = Len(served) + 1
      /\ Len(served) \in Nat
  BY <1>1, <1>2 DEF QuitsFit
<1>5. Quitting' = Quitting /\ Quitting \in Nat
  BY <1>1, CallersFinite DEF Quitting
<1>6. /\ Len(line') + Len(served') + Quitting' <= MaxQuits
      /\ Len(line') <= Places
  BY <1>3, <1>4, <1>5, LoopAssumption DEF QuitsFit
<1>7. QED BY <1>1, <1>2, <1>4, <1>6 DEF QuitsFit

\* No step uses more numbers than there are.
LEMMA FitsNext == QuitsFit /\ [Next]_vars => QuitsFit'
<1> SUFFICES ASSUME QuitsFit, [Next]_vars PROVE QuitsFit'
  OBVIOUS
<1>1. CASE UNCHANGED <<queue, post, quit_of>>
  BY <1>1 DEF queue, QuitsFit, Quitting
<1>2. ASSUME NEW t \in Posters, PosterQuits(t) PROVE QuitsFit'
  BY <1>2, FitsCall DEF PosterQuits, Threads
<1>3. ASSUME NEW t \in Threads, QuitStep(t) PROVE QuitsFit'
  BY <1>3, FitsStep
<1>4. CASE \/ CallQuit(Main) /\ QuitsLeft /\ post[Main] = "idle" /\ UNCHANGED <<queue, quit_of>>
  BY <1>4, FitsCall DEF Threads
<1>5. CASE PopJob
  BY <1>5, FitsPop
<1>6. CASE UNCHANGED <<line, published, served, post, quit_of>>
  BY <1>6 DEF QuitsFit, Quitting
<1>7. CASE UNCHANGED vars
  BY <1>1, <1>7 DEF vars
<1>8. CASE HandleClose
  BY <1>1, <1>4, <1>8 DEF HandleClose, Ignore, NextEvent, At
<1>9. CASE BeginWaitQuits \/ RedrawQuits
  BY <1>4, <1>9 DEF BeginWaitQuits, RedrawQuits, At
<1>10. CASE PollReturns
  BY <1>6, <1>10 DEF PollReturns
<1>11. CASE \/ StartRun \/ ReturnQuit \/ PopNothing \/ Flush \/ EventsDone \/ HandleExpose
            \/ HandleDestroyed \/ BeginWaitReturns \/ RedrawOne \/ RedrawDone \/ PollInterrupted
  BY <1>1, <1>11 DEF StartRun, ReturnQuit, PopNothing, Flush, EventsDone, HandleExpose,
     HandleDestroyed, BeginWaitReturns, RedrawOne, RedrawDone, PollInterrupted
<1>12. CASE \/ Draw \/ ServerSends \/ ServerDestroysWindow \/ ConnectionLost
            \/ \E w \in Windows : RedrawDestroys(w) \/ BeginWaitCreates(w)
  BY <1>1, <1>12 DEF Draw, ServerSends, ServerDestroysWindow, ConnectionLost,
     RedrawDestroys, BeginWaitCreates
<1>13. QED
  BY <1>2, <1>3, <1>5, <1>7, <1>8, <1>9, <1>10, <1>11, <1>12 DEF Next, LoopStep

\* The rest of TypeOK: places, the connection, which windows there were, counts.
Whereabouts ==
    /\ {wakeup, quit_requested} \subseteq BOOLEAN
    /\ loop \in {"out", "pop", "flush", "events", "begin_wait", "redraw", "poll", "crashed"}
    /\ conn \in {"up", "eof", "error"}
    /\ window_map \subseteq created /\ created \subseteq Windows
    /\ invalidated \subseteq gone /\ gone \subseteq Windows
    /\ {returns, sent, drawn} \subseteq Nat

\* It holds initially,
LEMMA WhereaboutsInit == Init => Whereabouts
<1> SUFFICES ASSUME Init PROVE Whereabouts
  OBVIOUS
<1>1. window_map \subseteq created /\ created \subseteq Windows
  BY LoopAssumption DEF Init
<1>2. wakeup = FALSE /\ quit_requested = FALSE /\ loop = "out" /\ conn = "up"
  BY DEF Init
<1>3. returns = 0 /\ sent = 0 /\ drawn = 0 /\ gone = {} /\ invalidated = {}
  BY DEF Init
<1>4. {returns, sent, drawn} \subseteq Nat
  BY <1>3
<1>5. {wakeup, quit_requested} \subseteq BOOLEAN
  BY <1>2, Zenon
<1>6. QED BY <1>1, <1>2, <1>3, <1>4, <1>5 DEF Whereabouts

\* and every step keeps it.
LEMMA WhereaboutsNext == Types /\ Whereabouts /\ [Next]_vars => Whereabouts'
<1> SUFFICES ASSUME Types, Whereabouts, [Next]_vars PROVE Whereabouts'
  OBVIOUS
<1> USE DEF Whereabouts
<1>1. CASE UNCHANGED vars
  BY <1>1 DEF vars, queue, xcb, wins, counts
<1>2. ASSUME NEW t \in Threads, PosterQuits(t) \/ QuitStep(t) PROVE Whereabouts'
  BY <1>2 DEF PosterQuits, QuitStep, EnterQueue, PublishQuit, WakeLoop, queue, xcb, wins, counts
<1>3. CASE StartRun \/ PopNothing \/ BeginWaitReturns \/ RedrawDone \/ PollInterrupted
  BY <1>3 DEF StartRun, PopNothing, BeginWaitReturns, RedrawDone, PollInterrupted,
     queue, xcb, wins, counts
<1>4. CASE ReturnQuit
  <2>1. /\ returns' \in Nat /\ loop' = "out"
        /\ UNCHANGED <<queue, quit_requested, xcb, wins, sent, drawn>>
    BY <1>4 DEF ReturnQuit
  <2>2. QED BY <2>1 DEF queue, xcb, wins
<1>4a. CASE PopJob
  BY <1>4a DEF PopJob, xcb, wins, counts
<1>5. CASE Flush \/ EventsDone
  BY <1>5 DEF Flush, EventsDone, queue, xcb, wins, counts
<1>6. CASE HandleClose
  BY <1>6 DEF HandleClose, Ignore, NextEvent, At, queue, xcb, wins, counts
<1>7. CASE HandleExpose \/ HandleDestroyed
  BY <1>7 DEF HandleExpose, HandleDestroyed, NextEvent, At, queue, xcb, wins, counts
<1>8. CASE RedrawOne \/ PollReturns
  BY <1>8 DEF RedrawOne, PollReturns, queue, xcb, wins, counts
<1>9. CASE Draw
  BY <1>9 DEF Draw, Request, queue, wins
<1>10. CASE BeginWaitQuits \/ RedrawQuits
  BY <1>10 DEF BeginWaitQuits, RedrawQuits, queue, xcb, wins, counts
<1>11. ASSUME NEW w \in Windows, RedrawDestroys(w) \/ BeginWaitCreates(w) PROVE Whereabouts'
  BY <1>11 DEF RedrawDestroys, BeginWaitCreates, Request, queue, counts
<1>12. CASE ServerSends \/ ConnectionLost
  BY <1>12 DEF ServerSends, ConnectionLost, queue, wins, counts
<1>13. CASE ServerDestroysWindow
  <2>1. AtServer \subseteq Windows
    BY KnownWindows
  <2>2. gone \subseteq gone' /\ gone' \subseteq Windows
    BY <1>13, <2>1 DEF ServerDestroysWindow
  <2>3. QED BY <1>13, <2>2 DEF ServerDestroysWindow, queue
<1>14. QED
  BY <1>1, <1>2, <1>3, <1>4, <1>5, <1>6, <1>7, <1>8, <1>9, <1>10, <1>11, <1>12, <1>13,
     <1>4a DEF Next, LoopStep, Threads

\* The state is well typed; in particular the queue never holds more jobs than it
\* has places, and the windows the application was told of are windows the server
\* destroyed.
THEOREM TypesHold == Spec => []TypeOK
<1>1. Types /\ QuitsFit /\ Whereabouts => TypeOK
  <2> SUFFICES ASSUME Types, QuitsFit, Whereabouts PROVE TypeOK
    OBVIOUS
  <2>1. wire \in Seq(Event) /\ xq \in Seq(Event)
    <3>1. Happens \subseteq Event
      BY DEF Happens
    <3>2. QED BY <3>1 DEF Types
  <2>2. QED BY <2>1 DEF Types, QuitsFit, Whereabouts, TypeOK
<1>2. QED
  BY <1>1, FitsInit, FitsNext, WhereaboutsInit, WhereaboutsNext, TypesAlways, PTL DEF Spec

-----------------------------------------------------------------------------
(* Quits *)

\* A quit that was executed is acted on before anything else happens.
QuitIsNext == loop \notin {"pop", "out"} => ~quit_requested

QuitInv == OneQuitPerRun /\ QuitIsNext

\* QuitInv holds initially,
LEMMA QuitInit == Init => QuitInv
BY DEF Init, Queue!Init, QuitInv, OneQuitPerRun, QuitIsNext

\* and every step keeps it.
LEMMA QuitNext == Types /\ QuitInv /\ [Next]_vars => QuitInv'
<1> SUFFICES ASSUME Types, QuitInv, [Next]_vars PROVE QuitInv'
  OBVIOUS
<1> USE DEF QuitInv, OneQuitPerRun, QuitIsNext, counts
<1>1. CASE UNCHANGED vars
  BY <1>1 DEF vars, queue
<1>2. ASSUME NEW t \in Threads, PosterQuits(t) \/ QuitStep(t) PROVE QuitInv'
  BY <1>2 DEF PosterQuits, QuitStep, EnterQueue, PublishQuit, WakeLoop, queue,
              Queue!Enter, Queue!Publish
<1>3. CASE StartRun
  BY <1>3 DEF StartRun, At, queue
<1>4. CASE ReturnQuit
  BY <1>4 DEF ReturnQuit, At, queue, Types
<1>5. CASE PopJob
  <2>1. served' = Append(served, Head(line)) /\ Len(served') = Len(served) + 1
    BY <1>5 DEF PopJob, Queue!Serve, Types
  <2>2. QED BY <1>5, <2>1 DEF PopJob, At, Types
<1>6. CASE PopNothing \/ Flush
  BY <1>6 DEF PopNothing, Flush, At, queue
<1>7. CASE HandleClose \/ HandleExpose \/ HandleDestroyed \/ EventsDone
  <2>1. loop = "events" /\ loop' \notin {"pop", "out"}
    BY <1>7 DEF HandleClose, HandleExpose, HandleDestroyed, EventsDone, NextEvent, Ignore, At
  <2>2. UNCHANGED <<queue, quit_requested, returns>>
    BY <1>7 DEF HandleClose, HandleExpose, HandleDestroyed, EventsDone, Ignore
  <2>3. QED BY <2>1, <2>2 DEF queue
<1>8. CASE BeginWaitReturns \/ RedrawOne \/ RedrawDone
  BY <1>8 DEF BeginWaitReturns, RedrawOne, RedrawDone, At, queue
<1>9. CASE PollReturns \/ PollInterrupted
  BY <1>9 DEF PollReturns, PollInterrupted, At, queue
<1>10. CASE \/ Draw \/ BeginWaitQuits \/ RedrawQuits
            \/ \E v \in Windows : RedrawDestroys(v) \/ BeginWaitCreates(v)
  <2>1. loop \in {"begin_wait", "redraw"} /\ loop' \in {"begin_wait", "redraw"}
    BY <1>10 DEF Draw, BeginWaitQuits, BeginWaitCreates, RedrawQuits, RedrawDestroys, At
  <2>2. UNCHANGED <<queue, quit_requested, returns>>
    BY <1>10 DEF Draw, BeginWaitQuits, BeginWaitCreates, RedrawQuits, RedrawDestroys
  <2>3. QED BY <2>1, <2>2 DEF queue
<1>11. CASE ServerSends \/ ServerDestroysWindow \/ ConnectionLost
  BY <1>11 DEF ServerSends, ServerDestroysWindow, ConnectionLost, queue
<1>12. QED
  BY <1>1, <1>2, <1>3, <1>4, <1>5, <1>6, <1>7, <1>8, <1>9, <1>10, <1>11
     DEF Next, LoopStep, Threads

\* Every run that ends well has consumed one quit, whatever the threads and the
\* callbacks that quit: quits posted together end as many runs.
THEOREM QuitsCounted == Spec => []OneQuitPerRun
<1>1. QuitInv => OneQuitPerRun
  BY DEF QuitInv
<1>2. QED BY <1>1, QuitInit, QuitNext, TypesAlways, PTL DEF Spec

-----------------------------------------------------------------------------
(* Regions *)

\* What is not registered has no region (a conjunct of RedrawnBeforeSleep).
Unregistered == \A w \in Windows \ window_map : dirty[w] = NoBox /\ exposed[w] = {}

\* No region is dirty initially.
LEMMA RegionsInit == Init => RedrawnBeforeSleep /\ ExposedIsDirty
<1> SUFFICES ASSUME Init PROVE RedrawnBeforeSleep /\ ExposedIsDirty
  OBVIOUS
<1>1. \A w \in Windows : dirty[w] = NoBox /\ exposed[w] = {}
  BY DEF Init
<1>2. window_map \subseteq Windows /\ loop # "poll"
  BY LoopAssumption DEF Init
<1>3. QED BY <1>1, <1>2 DEF RedrawnBeforeSleep, ExposedIsDirty

\* A region is changed only by an exposure and by a redraw or destruction.
LEMMA RegionsChange ==
    ASSUME Types, [Next]_vars
    PROVE  \/ UNCHANGED <<window_map, dirty, exposed>>
           \/ HandleExpose
           \/ \E w \in Windows : BeginWaitCreates(w)
           \/ \E w \in Windows : Clean(w) /\ window_map' \in {window_map, window_map \ {w}}
<1>1. CASE UNCHANGED vars
  BY <1>1 DEF vars, wins, regions
<1>2. CASE \/ \E t \in Posters : PosterQuits(t)
           \/ \E t \in Threads : QuitStep(t)
  BY <1>2 DEF PosterQuits, QuitStep, EnterQueue, PublishQuit, WakeLoop, wins, regions
<1>3. CASE StartRun \/ ReturnQuit \/ PopJob \/ PopNothing \/ Flush \/ EventsDone
  BY <1>3 DEF StartRun, ReturnQuit, PopJob, PopNothing, Flush, EventsDone, wins, regions
<1>4. CASE HandleClose
  BY <1>4 DEF HandleClose, Ignore, Types, wins, regions
<1>5. CASE HandleDestroyed \/ BeginWaitReturns \/ RedrawDone \/ PollReturns \/ PollInterrupted
  BY <1>5 DEF HandleDestroyed, BeginWaitReturns, RedrawDone, PollReturns, PollInterrupted,
              wins, regions
<1>6. CASE RedrawOne
  BY <1>6 DEF RedrawOne, DirtyWindows, Types
<1>7. CASE Draw \/ BeginWaitQuits \/ RedrawQuits
  BY <1>7 DEF Draw, BeginWaitQuits, RedrawQuits, wins, regions
<1>8. CASE \E v \in Windows : RedrawDestroys(v) \/ BeginWaitCreates(v)
  BY <1>8 DEF RedrawDestroys
<1>9. CASE ServerSends \/ ServerDestroysWindow \/ ConnectionLost
  BY <1>9 DEF ServerSends, ServerDestroysWindow, ConnectionLost, wins, regions
<1>10. QED
  BY <1>1, <1>2, <1>3, <1>4, <1>5, <1>6, <1>7, <1>8, <1>9 DEF Next, LoopStep

\* An exposure is taken in, and what was exposed before stays within the region.
LEMMA ExposeKept ==
    ASSUME Types, ExposedIsDirty, HandleExpose PROVE ExposedIsDirty'
<1> DEFINE w == Head(Arrived).window
           box == Head(Arrived).box
<1>0. window_map' = window_map
  BY DEF HandleExpose
<1>1. CASE w \in window_map \cap Redrawing
  <2>1. box \in Box
    BY NextEventTypes, LoopAssumption DEF Event, Happens, HandleExpose, NextEvent
  <2>2. /\ dirty' = [dirty EXCEPT ![w] = Extend(dirty[w], box)]
        /\ exposed' = [exposed EXCEPT ![w] = exposed[w] \cup {box}]
    BY <1>1 DEF HandleExpose, Dirtied
  <2>3. SUFFICES ASSUME NEW v \in window_map, NEW b \in exposed'[v]
                 PROVE  Within(b, dirty'[v])
    BY <1>0 DEF ExposedIsDirty
  <2>4. v \in Windows /\ dirty[v] \in Box /\ exposed[v] \subseteq Box
    BY LoopAssumption DEF Types
  <2>5. CASE v # w
    BY <2>2, <2>4, <2>5 DEF ExposedIsDirty, Types
  <2>6. CASE v = w
    <3>1. dirty'[v] = Extend(dirty[v], box) /\ b \in exposed[v] \cup {box}
      BY <2>2, <2>4, <2>6 DEF Types
    <3>2. CASE b = box
      BY <2>1, <2>4, <3>1, <3>2, ExtendContains
    <3>3. CASE b \in exposed[v]
      <4>1. Within(b, dirty[v]) /\ b \in Box
        BY <2>4, <3>3 DEF ExposedIsDirty
      <4>2. QED BY <2>1, <2>4, <3>1, <4>1, ExtendContains
    <3>4. QED BY <3>1, <3>2, <3>3
  <2>7. QED BY <2>5, <2>6
<1>2. CASE w \notin window_map \cap Redrawing
  BY <1>0, <1>2 DEF HandleExpose, ExposedIsDirty, regions
<1>3. QED BY <1>1, <1>2

\* Every step keeps what was exposed within the regions.
LEMMA ExposedNext ==
    Types /\ Unregistered /\ ExposedIsDirty /\ [Next]_vars => ExposedIsDirty'
<1> SUFFICES ASSUME Types, Unregistered, ExposedIsDirty, [Next]_vars PROVE ExposedIsDirty'
  OBVIOUS
<1>1. CASE UNCHANGED <<window_map, dirty, exposed>>
  BY <1>1 DEF ExposedIsDirty
<1>2. CASE HandleExpose
  BY <1>2, ExposeKept
<1>3. ASSUME NEW w \in Windows, Clean(w), window_map' \in {window_map, window_map \ {w}}
      PROVE  ExposedIsDirty'
  BY <1>3 DEF Clean, ExposedIsDirty, Types
<1>4. ASSUME NEW w \in Windows, BeginWaitCreates(w) PROVE ExposedIsDirty'
  BY <1>4 DEF BeginWaitCreates, regions, Unregistered, ExposedIsDirty
<1>5. QED BY <1>1, <1>2, <1>3, <1>4, RegionsChange

\* The loop goes to sleep from the redraw, and while it sleeps nothing gets dirty.
LEMMA GoesToSleep ==
    ASSUME [Next]_vars, loop' = "poll"
    PROVE  RedrawDone \/ (loop = "poll" /\ UNCHANGED <<window_map, dirty>>)
BY DEF Next, LoopStep, vars, wins, regions, At, NextEvent, Ignore, PosterQuits, QuitStep,
       EnterQueue, PublishQuit, WakeLoop, RedrawDestroys, BeginWaitCreates, StartRun,
       ReturnQuit, PopJob, PopNothing, Flush,
       HandleClose, HandleExpose, HandleDestroyed, EventsDone, BeginWaitReturns, RedrawOne,
       RedrawDone, PollReturns, Draw, BeginWaitQuits, RedrawQuits, PollInterrupted,
       ServerSends, ServerDestroysWindow, ConnectionLost

\* Every step keeps RedrawnBeforeSleep.
LEMMA RedrawnNext == Types /\ RedrawnBeforeSleep /\ [Next]_vars => RedrawnBeforeSleep'
<1> SUFFICES ASSUME Types, RedrawnBeforeSleep, [Next]_vars PROVE RedrawnBeforeSleep'
  OBVIOUS
<1>1. Unregistered'
  <2>0. Unregistered
    BY DEF RedrawnBeforeSleep, Unregistered
  <2>1. CASE UNCHANGED <<window_map, dirty, exposed>>
    BY <2>0, <2>1 DEF Unregistered
  <2>2. CASE HandleExpose
    BY <2>0, <2>2 DEF HandleExpose, Dirtied, regions, Unregistered, Types
  <2>3. ASSUME NEW w \in Windows, Clean(w), window_map' \in {window_map, window_map \ {w}}
        PROVE  Unregistered'
    BY <2>0, <2>3 DEF Clean, Unregistered, Types
  <2>4. ASSUME NEW w \in Windows, BeginWaitCreates(w) PROVE Unregistered'
    BY <2>0, <2>4 DEF BeginWaitCreates, regions, Unregistered
  <2>5. QED BY <2>1, <2>2, <2>3, <2>4, RegionsChange
<1>2. loop' = "poll" => DirtyWindows' = {}
  <2>1. SUFFICES ASSUME loop' = "poll" PROVE DirtyWindows' = {}
    OBVIOUS
  <2>2. CASE loop = "poll" /\ UNCHANGED <<window_map, dirty>>
    BY <2>2 DEF RedrawnBeforeSleep, DirtyWindows
  <2>3. CASE RedrawDone
    BY <2>3 DEF RedrawDone, DirtyWindows, wins, regions
  <2>4. QED BY <2>1, <2>2, <2>3, GoesToSleep
<1>3. QED BY <1>1, <1>2 DEF RedrawnBeforeSleep, Unregistered

\* The loop sleeps only when every registered window has been redrawn, and what
\* was destroyed with an exposure in flight is not redrawn.
THEOREM SleepsRedrawn == Spec => []RedrawnBeforeSleep
<1>1. Init => RedrawnBeforeSleep
  BY RegionsInit
<1>2. QED BY <1>1, RedrawnNext, TypesAlways, PTL DEF Spec

\* No pixel that was exposed is forgotten by the region of the next redraw,
\* however the exposures lie and whatever is destroyed in between.
THEOREM NoPixelForgotten == Spec => []ExposedIsDirty
<1>1. Init => ExposedIsDirty
  BY RegionsInit
<1>2. RedrawnBeforeSleep => Unregistered
  BY DEF RedrawnBeforeSleep, Unregistered
<1>3. QED BY <1>1, <1>2, ExposedNext, SleepsRedrawn, TypesAlways, PTL DEF Spec
=============================================================================
