------------------------------ MODULE X11Loop ------------------------------
(***************************************************************************)
(* autk_x11_client_run() of src/client/x11/client.c with what it lives     *)
(* between: the job queue (JobLine, which JobQueue implements) through     *)
(* which any thread, the loop's own callbacks included, asks it to quit;   *)
(* the XCB connection, whose reads and writes happen inside other calls;   *)
(* the X server; and the application's callbacks.                          *)
(*                                                                         *)
(* quit_job is the only job the client ever posts, so a job is a quit.     *)
(* Making a window is counted as one request.                              *)
(***************************************************************************)
EXTENDS Boxes, Sequences, FiniteSets, Functions

CONSTANTS Posters,       \* other threads; each may call autk_client_quit
          Main,          \* the thread of the loop
          Windows, Initial, \* windows of the client, and those there are at the start
          Redrawing,     \* those with a redraw_requested callback
          Exposures,     \* what of a window the server may expose at a time
          Places,        \* AUTK_JOB_QUEUE_MAX
          Callbacks,     \* what the application's callbacks may do, see CallbackKinds
          OutCapacity,   \* requests XCB buffers before it writes by itself
          ServerDestroys,\* may the server, unasked, destroy a window the client knows
          Breaks,        \* may the connection be lost
          MaxQuits, MaxEvents, MaxRequests \* bounds: quits, unsolicited events, drawing requests

CallbackKinds ==
    {"close quits", "close destroys", "wait quits", "wait creates", "redraw quits",
     "redraw destroys"}

ASSUME LoopAssumption ==
    /\ IsFiniteSet(Posters) /\ Main \notin Posters
    /\ Places \in Nat \ {0} /\ OutCapacity \in Nat \ {0}
    /\ Callbacks \subseteq CallbackKinds
    /\ Initial \subseteq Windows /\ Redrawing \subseteq Windows /\ Exposures \subseteq Box
    /\ {ServerDestroys, Breaks} \subseteq BOOLEAN
    /\ {MaxQuits, MaxEvents, MaxRequests} \subseteq Nat

VARIABLES
    line, published, served, \* the job queue
    wakeup,                  \* is a byte in its pipe
    post, quit_of,           \* each thread's autk_client_quit and the job it posts
    loop,                    \* where autk_x11_client_run is
    quit_requested,
    conn,                    \* "up", "eof" (closed, not yet noticed) or "error"
    wire, xq,                \* events in the socket, and read by XCB but not yet polled
    outbuf,                  \* requests not yet written, see Requests
    window_map, created,     \* registered windows; history: those that ever were
    dirty, exposed,          \* dirty regions; history: exposures since the last redraw
    gone, invalidated,       \* windows the server destroyed; those the application was told of
    returns, sent, drawn     \* history: runs ended by a quit; counts for the bounds

queue  == <<line, published, served, wakeup>>
xcb    == <<conn, wire, xq, outbuf>>
regions == <<dirty, exposed>>
wins   == <<window_map, created, regions, gone, invalidated>>
counts == <<returns, sent, drawn>>
vars   == <<queue, post, quit_of, loop, quit_requested, xcb, wins, counts>>

Threads == Posters \cup {Main}
Queue == INSTANCE JobLine WITH Jobs <- 1 .. MaxQuits

Event == [kind : {"close", "expose", "destroyed"}, window : Windows, box : Exposures \cup {NoBox}]

\* Unwritten requests: how many draw, and the windows that the others create or
\* destroy.
Requests == [draws : Nat, creates : SUBSET Windows, destroys : Seq(Windows)]
NoRequests == [draws |-> 0, creates |-> {}, destroys |-> <<>>]
Drawing == [draws |-> 1, creates |-> {}, destroys |-> <<>>]
Creating(w) == [draws |-> 0, creates |-> {w}, destroys |-> <<>>]
Destroying(w) == [draws |-> 0, creates |-> {}, destroys |-> <<w>>]
Plus(a, b) == [draws |-> a.draws + b.draws, creates |-> a.creates \cup b.creates,
               destroys |-> a.destroys \o b.destroys]
Load(requests) ==
    requests.draws + Cardinality(requests.creates) + Len(requests.destroys)

Notice(kind, w) == [kind |-> kind, window |-> w, box |-> NoBox]

Init ==
    /\ Queue!Init /\ wakeup = FALSE
    /\ post = [t \in Threads |-> "idle"] /\ quit_of = [t \in Threads |-> 0]
    /\ loop = "out" /\ quit_requested = FALSE
    /\ conn = "up" /\ wire = <<>> /\ xq = <<>> /\ outbuf = NoRequests
    /\ window_map = Initial /\ created = Initial
    /\ dirty = [w \in Windows |-> NoBox] /\ exposed = [w \in Windows |-> {}]
    /\ gone = {} /\ invalidated = {}
    /\ returns = 0 /\ sent = 0 /\ drawn = 0

-----------------------------------------------------------------------------
(* autk_client_quit(), on any thread: enter the queue, publish, wake the loop *)

Quitting == Cardinality({t \in Threads : post[t] = "enter"})
QuitsLeft == Len(line) + Len(served) + Quitting < MaxQuits

CallQuit(t) == post' = [post EXCEPT ![t] = "enter"]

PosterQuits(t) ==
    /\ t \in Posters /\ post[t] = "idle" /\ QuitsLeft
    /\ CallQuit(t)
    /\ UNCHANGED <<queue, quit_of, loop, quit_requested, xcb, wins, counts>>

\* Blocks in sem_wait while every place is taken.
EnterQueue(t) ==
    LET j == Len(line) + Len(served) + 1 IN
    /\ post[t] = "enter"
    /\ Queue!Enter(j)
    /\ post' = [post EXCEPT ![t] = "publish"]
    /\ quit_of' = [quit_of EXCEPT ![t] = j]
    /\ UNCHANGED <<wakeup, loop, quit_requested, xcb, wins, counts>>

PublishQuit(t) ==
    /\ post[t] = "publish"
    /\ Queue!Publish(quit_of[t])
    /\ post' = [post EXCEPT ![t] = "wake"]
    /\ UNCHANGED <<wakeup, quit_of, loop, quit_requested, xcb, wins, counts>>

\* Slip: the loop's own thread need not be woken, it is awake.
WakeOthersOnly(t) ==
    /\ post[t] = "wake"
    /\ wakeup' = (wakeup \/ t # Main)
    /\ post' = [post EXCEPT ![t] = "idle"]
    /\ UNCHANGED <<line, published, served, quit_of, loop, quit_requested, xcb, wins, counts>>

WakeLoop(t) ==
    /\ post[t] = "wake"
    /\ wakeup' = TRUE
    /\ post' = [post EXCEPT ![t] = "idle"]
    /\ UNCHANGED <<line, published, served, quit_of, loop, quit_requested, xcb, wins, counts>>

QuitStep(t) == EnterQueue(t) \/ PublishQuit(t) \/ WakeLoop(t)

-----------------------------------------------------------------------------
(* libxcb, as the client uses it *)

\* The server answers each destroy request with a DestroyNotify; or, when the
\* window is gone already, with an error, which the client ignores likewise.
DestroyNotifies(requests) ==
    [i \in DOMAIN requests.destroys |-> Notice("destroyed", requests.destroys[i])]

\* Appending a request.  A full buffer is written first, and while XCB waits for
\* the socket it may also read the events that have arrived.
\* (Only Draw takes this into account: events read early while events are
\* being handled are polled next anyway.)
Request(r) ==
    \/ /\ Load(outbuf) < OutCapacity
       /\ outbuf' = Plus(outbuf, r)
       /\ UNCHANGED <<conn, wire, xq>>
    \/ /\ Load(outbuf) >= OutCapacity /\ conn = "up"
       /\ outbuf' = r
       /\ \/ wire' = wire \o DestroyNotifies(outbuf) /\ UNCHANGED xq
          \/ xq' = xq \o wire /\ wire' = DestroyNotifies(outbuf)
       /\ UNCHANGED conn
    \/ /\ Load(outbuf) >= OutCapacity /\ conn # "up"
       /\ outbuf' = r /\ conn' = "error"
       /\ UNCHANGED <<wire, xq>>

-----------------------------------------------------------------------------
(* The loop.  Its thread runs it only outside a call of autk_client_quit. *)

At(place) == loop = place /\ post[Main] = "idle"

StartRun ==
    /\ At("out")
    /\ loop' = "pop" /\ quit_requested' = FALSE
    /\ UNCHANGED <<queue, post, quit_of, xcb, wins, counts>>

\* A quit job was executed: leave the while loop with AUTK_OK.
ReturnQuit ==
    /\ At("pop") /\ quit_requested
    /\ loop' = "out" /\ returns' = returns + 1
    /\ UNCHANGED <<queue, post, quit_of, quit_requested, xcb, wins, sent, drawn>>

\* Slip: pending jobs are executed before the loop looks at quit_requested.
PopAllJobs ==
    /\ At("pop")
    /\ Queue!Serve
    /\ quit_requested' = TRUE
    /\ UNCHANGED <<wakeup, post, quit_of, loop, xcb, wins, counts>>

PopJob ==
    /\ At("pop") /\ ~quit_requested
    /\ Queue!Serve
    /\ quit_requested' = TRUE
    /\ UNCHANGED <<wakeup, post, quit_of, loop, xcb, wins, counts>>

\* QUEUE_EMPTY or TRY_AGAIN.
PopNothing ==
    /\ At("pop") /\ ~quit_requested
    /\ ~(line # <<>> /\ Head(line) \in published)
    /\ loop' = "flush"
    /\ UNCHANGED <<queue, post, quit_of, quit_requested, xcb, wins, counts>>

\* xcb_flush, then check_connection.  A write to a closed socket may or may not
\* be the one that notices.
Flush ==
    /\ At("flush")
    /\ IF conn = "up"
       THEN loop' = "events" /\ outbuf' = NoRequests /\ conn' = conn
            /\ wire' = wire \o DestroyNotifies(outbuf)
       ELSE /\ conn' \in {conn, "error"}
            /\ loop' = (IF conn' = "error" THEN "out" ELSE "events")
            /\ outbuf' = NoRequests /\ UNCHANGED wire
    /\ UNCHANGED <<queue, post, quit_of, quit_requested, xq, wins, counts>>

\* xcb_poll_for_event: what is queued first, then what the socket holds.
Arrived == xq \o wire

NextEvent(kind) ==
    /\ At("events")
    /\ Arrived # <<>> /\ Head(Arrived).kind = kind
    /\ IF xq # <<>> THEN xq' = Tail(xq) /\ UNCHANGED wire
                    ELSE xq' = Tail(wire) /\ wire' = <<>>

Ignore ==
    UNCHANGED <<queue, post, quit_of, loop, quit_requested, conn, outbuf, wins, counts>>

\* The region of a window is spent when it has been redrawn, and goes with it.
Clean(w) == dirty' = [dirty EXCEPT ![w] = NoBox] /\ exposed' = [exposed EXCEPT ![w] = {}]

\* WM_DELETE_WINDOW: close_requested quits or destroys the window; the destroy
\* unregisters it at once, before the server has seen the request.
HandleClose ==
    LET w == Head(Arrived).window IN
    /\ NextEvent("close")
    /\ IF w \in window_map
       THEN \/ /\ "close quits" \in Callbacks /\ QuitsLeft
               /\ CallQuit(Main)
               /\ UNCHANGED <<queue, quit_of, loop, quit_requested, conn, outbuf, wins, counts>>
            \/ /\ "close destroys" \in Callbacks
               /\ outbuf' = Plus(outbuf, Destroying(w))
               /\ window_map' = window_map \ {w} /\ Clean(w)
               /\ UNCHANGED <<queue, post, quit_of, loop, quit_requested, conn,
                              created, gone, invalidated, counts>>
       ELSE Ignore

Dirtied(w, box) ==
    /\ dirty' = [dirty EXCEPT ![w] = Extend(@, box)]
    /\ exposed' = [exposed EXCEPT ![w] = @ \cup {box}]

\* Slip: the region is extended without a look at the window map.
ExposeUnchecked ==
    /\ NextEvent("expose")
    /\ Dirtied(Head(Arrived).window, Head(Arrived).box)
    /\ UNCHANGED <<queue, post, quit_of, loop, quit_requested, conn, outbuf,
                   window_map, created, gone, invalidated, counts>>

\* Expose extends the dirty region of a window that is registered and redraws.
HandleExpose ==
    LET w == Head(Arrived).window IN
    /\ NextEvent("expose")
    /\ IF w \in window_map \cap Redrawing THEN Dirtied(w, Head(Arrived).box)
                                         ELSE UNCHANGED regions
    /\ UNCHANGED <<queue, post, quit_of, loop, quit_requested, conn, outbuf,
                   window_map, created, gone, invalidated, counts>>

\* Slip: the application is told without a look at the window map.
DestroyedUnchecked ==
    /\ NextEvent("destroyed")
    /\ invalidated' = invalidated \cup {Head(Arrived).window}
    /\ UNCHANGED <<queue, post, quit_of, loop, quit_requested, conn, outbuf,
                   window_map, created, regions, gone, counts>>

\* DestroyNotify, or the X error that says a window could not be created.  For a
\* registered window both handlers pass the driver's data where
\* autk_x11_window_invalidate expects the window: the assertion on its driver
\* stops a debug build ("crashed"), a release build reads whatever lies there and
\* tells the application nothing.
HandleDestroyed ==
    LET w == Head(Arrived).window IN
    /\ NextEvent("destroyed")
    /\ loop' \in (IF w \in window_map THEN {"crashed", "events"} ELSE {"events"})
    /\ UNCHANGED <<queue, post, quit_of, quit_requested, conn, outbuf, wins, counts>>

\* No event is left, or reading finds that the connection is closed.
EventsDone ==
    /\ At("events") /\ Arrived = <<>>
    /\ loop' = "begin_wait"
    /\ conn' = (IF conn = "eof" THEN "error" ELSE conn)
    /\ UNCHANGED <<queue, post, quit_of, quit_requested, wire, xq, outbuf, wins, counts>>

DirtyWindows == {w \in window_map : IsPositive(dirty[w])}

\* A callback of the application on the loop's thread may draw; begin_wait may
\* also quit.
Draw ==
    /\ \/ At("begin_wait")
       \/ At("redraw") /\ DirtyWindows # {}
    /\ drawn < MaxRequests /\ drawn' = drawn + 1
    /\ Request(Drawing)
    /\ UNCHANGED <<queue, post, quit_of, loop, quit_requested, wins, returns, sent>>

\* autk_window_create: registered at once, before the server has seen the
\* request, under an id no other window has had.
BeginWaitCreates(w) ==
    /\ At("begin_wait") /\ "wait creates" \in Callbacks
    /\ w \notin created
    /\ Request(Creating(w))
    /\ window_map' = window_map \cup {w} /\ created' = created \cup {w}
    /\ UNCHANGED <<queue, post, quit_of, loop, quit_requested, regions, gone, invalidated, counts>>

BeginWaitQuits ==
    /\ At("begin_wait") /\ QuitsLeft /\ "wait quits" \in Callbacks
    /\ CallQuit(Main) /\ loop' = "redraw"
    /\ UNCHANGED <<queue, quit_of, quit_requested, xcb, wins, counts>>

\* The redraw callback of one window destroys another, in the middle of the
\* iteration over the window map.  (In a window's own, the loop would write to it
\* afterwards: the application does not do that.)
RedrawDestroys(v) ==
    /\ At("redraw") /\ DirtyWindows \ {v} # {} /\ "redraw destroys" \in Callbacks
    /\ v \in window_map
    /\ Request(Destroying(v))
    /\ window_map' = window_map \ {v} /\ Clean(v)
    /\ UNCHANGED <<queue, post, quit_of, loop, quit_requested, created, gone, invalidated, counts>>

RedrawQuits ==
    /\ At("redraw") /\ DirtyWindows # {} /\ QuitsLeft /\ "redraw quits" \in Callbacks
    /\ CallQuit(Main)
    /\ UNCHANGED <<queue, quit_of, loop, quit_requested, xcb, wins, counts>>

BeginWaitReturns ==
    /\ At("begin_wait")
    /\ loop' = "redraw"
    /\ UNCHANGED <<queue, post, quit_of, quit_requested, xcb, wins, counts>>

\* redraw_dirty_windows: the callback of one window is given its region and
\* returns.
RedrawOne ==
    /\ At("redraw")
    /\ \E w \in DirtyWindows : Clean(w)
    /\ UNCHANGED <<queue, post, quit_of, loop, quit_requested, xcb,
                   window_map, created, gone, invalidated, counts>>

RedrawDone ==
    /\ At("redraw") /\ DirtyWindows = {}
    /\ loop' = "poll"
    /\ UNCHANGED <<queue, post, quit_of, quit_requested, xcb, wins, counts>>

\* Slip: a closed descriptor is left out of the poll, as a negative one is.
PollIgnoresError ==
    /\ At("poll")
    /\ conn # "error" /\ (wakeup \/ wire # <<>> \/ conn = "eof")
    /\ wakeup' = FALSE
    /\ loop' = "pop"
    /\ UNCHANGED <<line, published, served, post, quit_of, quit_requested, xcb, wins, counts>>

\* poll returns for the pipe, which is drained, or for the socket (readable, or at
\* its end); POLLNVAL on a descriptor XCB has closed ends the run with IO_FAILURE.
PollReturns ==
    /\ At("poll")
    /\ wakeup \/ wire # <<>> \/ conn # "up"
    /\ wakeup' = FALSE
    /\ loop' = IF conn = "error" THEN "out" ELSE "pop"
    /\ UNCHANGED <<line, published, served, post, quit_of, quit_requested, xcb, wins, counts>>

\* A signal: EINTR, and the loop goes round.
PollInterrupted ==
    /\ At("poll")
    /\ loop' = "pop"
    /\ UNCHANGED <<queue, post, quit_of, quit_requested, xcb, wins, counts>>

LoopStep ==
    \/ ReturnQuit \/ PopJob \/ PopNothing \/ Flush
    \/ HandleClose \/ HandleExpose \/ HandleDestroyed \/ EventsDone
    \/ BeginWaitReturns \/ RedrawOne \/ RedrawDone \/ PollReturns

-----------------------------------------------------------------------------
(* The X server *)

\* The windows it has: whose creation it has seen, and not their destruction.
AtServer == (window_map \cup Range(outbuf.destroys)) \ (outbuf.creates \cup gone)

\* Exposures and close requests.
ServerSends ==
    /\ conn = "up" /\ sent < MaxEvents
    /\ \E w \in AtServer :
          \/ wire' = Append(wire, Notice("close", w))
          \/ \E b \in Exposures : wire' = Append(wire, [kind |-> "expose", window |-> w, box |-> b])
    /\ sent' = sent + 1
    /\ UNCHANGED <<queue, post, quit_of, loop, quit_requested, conn, xq, outbuf,
                   wins, returns, drawn>>

\* The server destroys a window without being asked, or before it is asked; or
\* it has been unable to create it.
ServerDestroysWindow ==
    /\ conn = "up" /\ sent < MaxEvents
    /\ \E w \in AtServer :
          /\ w \in window_map => ServerDestroys
          /\ wire' = Append(wire, Notice("destroyed", w))
          /\ gone' = gone \cup {w}
    /\ sent' = sent + 1
    /\ UNCHANGED <<queue, post, quit_of, loop, quit_requested, conn, xq, outbuf,
                   window_map, created, regions, invalidated, returns, drawn>>

ConnectionLost ==
    /\ Breaks /\ conn = "up"
    /\ conn' = "eof"
    /\ UNCHANGED <<queue, post, quit_of, loop, quit_requested, wire, xq, outbuf, wins, counts>>

-----------------------------------------------------------------------------
Next ==
    \/ \E t \in Posters : PosterQuits(t)
    \/ \E t \in Threads : QuitStep(t)
    \/ \E w \in Windows : RedrawDestroys(w) \/ BeginWaitCreates(w)
    \/ StartRun \/ LoopStep \/ Draw \/ BeginWaitQuits \/ RedrawQuits \/ PollInterrupted
    \/ ServerSends \/ ServerDestroysWindow \/ ConnectionLost

\* The scheduler runs every thread; nothing obliges the application to call run
\* or quit, to draw, or the server to send.
Fairness ==
    /\ \A t \in Threads : WF_vars(QuitStep(t))
    /\ WF_vars(LoopStep)
Spec == Init /\ [][Next]_vars /\ Fairness

-----------------------------------------------------------------------------
(* Properties *)

TypeOK ==
    /\ line \in Seq(1 .. MaxQuits) /\ Len(line) <= Places
    /\ published \subseteq 1 .. MaxQuits /\ served \in Seq(1 .. MaxQuits)
    /\ {wakeup, quit_requested} \subseteq BOOLEAN
    /\ post \in [Threads -> {"idle", "enter", "publish", "wake"}]
    /\ quit_of \in [Threads -> 0 .. MaxQuits]
    /\ loop \in {"out", "pop", "flush", "events", "begin_wait", "redraw", "poll", "crashed"}
    /\ conn \in {"up", "eof", "error"}
    /\ wire \in Seq(Event) /\ xq \in Seq(Event)
    /\ outbuf \in Requests
    /\ window_map \subseteq created /\ created \subseteq Windows
    /\ dirty \in [Windows -> Box] /\ exposed \in [Windows -> SUBSET Exposures]
    /\ invalidated \subseteq gone /\ gone \subseteq Windows
    /\ {returns, sent, drawn} \subseteq Nat

\* A run that ends well has consumed exactly one quit: quits that are posted
\* together stay in the queue and end later runs, and none is swallowed.
OneQuitPerRun ==
    Len(served) = returns + (IF loop = "pop" /\ quit_requested THEN 1 ELSE 0)

\* The loop never sleeps on a window that is waiting to be redrawn, and no
\* window that was destroyed while its exposure was in flight is redrawn.
RedrawnBeforeSleep ==
    /\ loop = "poll" => DirtyWindows = {}
    /\ \A w \in Windows \ window_map : dirty[w] = NoBox /\ exposed[w] = {}

\* What the server has exposed of a window since it was last redrawn, however
\* many exposures overlap or lie apart, is within the region the next redraw is
\* given: no pixel is forgotten.
ExposedIsDirty ==
    \A w \in window_map : \A b \in exposed[w] : Within(b, dirty[w])

\* A quit under way while the loop runs, from another thread or from a callback
\* of the loop itself, ends the run.
QuitReturns ==
    (/\ loop # "out"
     /\ line # <<>> \/ \E t \in Threads : post[t] = "enter") ~> loop = "out"

\* A lost connection ends the run, wherever the loop is when it is lost.
LostConnectionEndsRun == (conn # "up" /\ loop # "out") ~> loop = "out"

\* The loop blocks only when no X11 event is at hand: one that XCB has read and
\* holds does not make the descriptor readable, so poll would not report it.
NoEventAtSleep == loop = "poll" => xq = <<>>

\* The application learns of every window the server has destroyed by itself
\* once its DestroyNotify has been handled.
InvalidatedIsTold ==
    \A w \in gone : \/ Notice("destroyed", w) \in Range(Arrived)
                    \/ w \in invalidated
                    \/ w \notin window_map
=============================================================================
