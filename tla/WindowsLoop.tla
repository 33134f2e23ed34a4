---------------------------- MODULE WindowsLoop -----------------------------
(***************************************************************************)
(* The Windows back end: the message loop of src/client/windows/client.c,  *)
(* the window procedure and the window driver of src/client/windows/       *)
(* window.c, with the calls of core/window.c that lead to them.  The       *)
(* system, which keeps the thread's messages, the windows, their update    *)
(* regions and the brushes, is modelled as they use it.                    *)
(*                                                                         *)
(* The application's code runs on the loop's thread outside the loop and   *)
(* in its callbacks; there it may call the API as it likes.  It creates    *)
(* windows outside the loop and in begin_wait, it does not destroy a window *)
(* in the invalidated callback of that same window (the window procedure   *)
(* writes to it afterwards), and nothing of a window becomes invalid while *)
(* it is being painted (the whole window is validated when that is done).  *)
(***************************************************************************)
EXTENDS TextConversion, Layout, FiniteSetsExt

CONSTANTS Windows,
          ObjectSize, DriverDataSize, \* of a window object and of its driver's data
          UserSizes,         \* sizes of the application's data of a window
          Titles,            \* titles the application sets: sequences of characters
          Failures,          \* the steps that may fail, see FailureKinds
          MaxQuits, MaxEvents \* bounds: quits, close messages and losses

FailureKinds == {"CreateWindowExW", "SetWindowLongPtrW", "SetWindowTextW", "CreateSolidBrush",
                 "heap", "GetMessageW"}

ASSUME WindowsAssumption ==
    /\ IsFiniteSet(Windows) /\ "quit" \notin Windows
    /\ \A t \in Titles : t \in Seq(Range(t)) /\ \A i \in DOMAIN t : IsCharacter(t[i])
    /\ Failures \subseteq FailureKinds
    /\ ObjectSize \in 1 .. SizeCount - Align
    /\ DriverDataSize \in 0 .. SizeCount - 1 /\ UserSizes \subseteq 0 .. SizeCount - 1
    /\ {MaxQuits, MaxEvents} \subseteq Nat

VARIABLES
    client,         \* "none", "up" or "gone"
    class_registered,
    loop,           \* where autk_window_client_run is, or the callback it is in
    subject, back,  \* the window of that callback, where the loop goes on after it
    messages,       \* posted to the thread: "quit", or the window asked to close
    memory, given,  \* window objects that are allocated; those the application has
    layout,         \* their blocks and the size of the application's data in them
    win,            \* each window: its driver data and what the system keeps of it
    brushes,        \* brushes the process has created and not deleted
    told, lost,     \* history, by window: calls of invalidated, losses to the system
    posted, ended, events \* history: quits posted, runs they ended; events, for the bound

objects == <<memory, given, layout>>
windows == <<objects, win, brushes, told, lost>>
counts  == <<posted, ended, events>>
vars    == <<client, class_registered, loop, subject, back, messages, windows, counts>>

\* driver data: hwnd, background_brush; the system's: whether the window exists,
\* points back to the object, is shown, has an update region; its title.
Blank == [hwnd |-> FALSE, brush |-> FALSE, exists |-> FALSE, userdata |-> FALSE,
          visible |-> FALSE, dirty |-> FALSE,
          wanted |-> <<>>, title |-> <<>>, end |-> 0, size |-> StackSize]

NoLayout == [block |-> Block(ObjectSize, <<DriverDataSize, 0>>), user |-> 0]

Init ==
    /\ client = "none" /\ class_registered = FALSE
    /\ loop = "out" /\ subject \in Windows /\ back = "out" /\ messages = <<>>
    /\ memory = {} /\ given = {} /\ layout = [w \in Windows |-> NoLayout]
    /\ win = [w \in Windows |-> Blank] /\ brushes = 0
    /\ told = [w \in Windows |-> 0] /\ lost = [w \in Windows |-> 0]
    /\ posted = 0 /\ ended = 0 /\ events = 0

-----------------------------------------------------------------------------
(* The system *)

\* A window that goes takes along its posted messages and its update region.
WithoutMessages(w) ==
    LET kept[i \in 0 .. Len(messages)] ==
            IF i = 0 THEN <<>>
            ELSE IF messages[i] = w THEN kept[i - 1] ELSE Append(kept[i - 1], messages[i])
    IN  kept[Len(messages)]

Gone(d) == [d EXCEPT !.exists = FALSE, !.userdata = FALSE, !.visible = FALSE, !.dirty = FALSE]

\* WM_DESTROY reports a loss to a window object that still has its handle.
Reports(d) == d.userdata /\ d.hwnd

NeedsPaint == {w \in Windows : win[w].visible /\ win[w].dirty}
Idle == messages = <<>> /\ NeedsPaint = {}

-----------------------------------------------------------------------------
(* The window driver, on the record of a window *)

\* Slip: the handle is cleared after the window is destroyed.
FiniLate(d) == [data |-> [Gone(d) EXCEPT !.hwnd = FALSE, !.brush = FALSE],
                reported |-> Reports(d), deleted |-> d.brush]

\* Slip: a brush is deleted whether there is one or not.
FiniDeletesAny(d) ==
    LET cleared == [d EXCEPT !.hwnd = FALSE, !.brush = FALSE]
    IN  [data |-> IF d.hwnd THEN Gone(cleared) ELSE cleared,
         reported |-> d.hwnd /\ Reports(cleared), deleted |-> TRUE]

\* Slip: the brush is left behind.
FiniKeepsBrush(d) ==
    LET cleared == [d EXCEPT !.hwnd = FALSE, !.brush = FALSE]
    IN  [data |-> IF d.hwnd THEN Gone(cleared) ELSE cleared,
         reported |-> d.hwnd /\ Reports(cleared), deleted |-> FALSE]

\* The brush is deleted; the handle is cleared before DestroyWindow, which calls
\* the window procedure.
Fini(d) ==
    LET cleared == [d EXCEPT !.hwnd = FALSE, !.brush = FALSE]
    IN  [data |-> IF d.hwnd THEN Gone(cleared) ELSE cleared,
         reported |-> d.hwnd /\ Reports(cleared), deleted |-> d.brush]

\* A window created by the system, at first without a way back to the object.
Created(d) == [d EXCEPT !.hwnd = TRUE, !.exists = TRUE]
PointsBack(d) == [d EXCEPT !.userdata = TRUE]

\* A title as autk_windows_window_set_title converts it, lossy and cut if there is
\* no memory, and what its callback is given.
Converted(t, memory_available) ==
    LET call == WithUtf16(Bytes(t), TRUE, TRUE, memory_available)
    IN  [wanted |-> t, call |-> call, units |-> Utf16(SubSeq(Items(Bytes(t)), 1, call.done))]

MemoryAvailable == IF "heap" \in Failures THEN BOOLEAN ELSE {TRUE}
Conversions == UNION {{Converted(t, m) : m \in MemoryAvailable} : t \in Titles}

Titled(d, c) ==
    IF c.call.status = "OK"
    THEN [d EXCEPT !.wanted = c.wanted, !.title = c.units,
                   !.end = c.call.end, !.size = c.call.size]
    ELSE d

-----------------------------------------------------------------------------
(* Calls of the application, on the loop's thread *)

InApplication == client = "up" /\ loop \in {"out", "wait", "close", "paint", "lost"}

\* autk_windows_client_init.  The class stays registered when the client is
\* destroyed, and a class cannot be registered twice.
CreateClient ==
    /\ client # "up" /\ ~class_registered
    /\ client' = "up" /\ class_registered' = TRUE
    /\ UNCHANGED <<loop, subject, back, messages, windows, counts>>

\* Windows handed out are destroyed first.
DestroyClient ==
    /\ client = "up" /\ loop = "out" /\ given = {}
    /\ client' = "gone"
    /\ UNCHANGED <<class_registered, loop, subject, back, messages, windows, counts>>

\* The object of a window with its driver's data and the application's; a size
\* that does not fit is refused.
Allocate(w) ==
    /\ w \notin memory
    /\ memory' = memory \cup {w}
    /\ \E user \in UserSizes :
          LET block == Block(ObjectSize, <<DriverDataSize, user>>) IN
          /\ ~block.overflow
          /\ layout' = [layout EXCEPT ![w] = [block |-> block, user |-> user]]

\* What the driver's init may leave: the system's window, the way back, a title
\* if there is one.
Initialized ==
    LET d == PointsBack(Created(Blank)) IN {d} \cup {Titled(d, c) : c \in Conversions}

\* autk_window_create: the driver's init, then a background colour.
CreateWindow(w) ==
    /\ InApplication /\ loop \in {"out", "wait"}
    /\ Allocate(w) /\ given' = given \cup {w}
    /\ \E d \in Initialized, opaque \in BOOLEAN :
          /\ win' = [win EXCEPT ![w] = [d EXCEPT !.brush = opaque]]
          /\ brushes' = brushes + (IF opaque THEN 1 ELSE 0)
    /\ UNCHANGED <<client, class_registered, loop, subject, back, messages, told, lost, counts>>

\* A step of the driver's init fails: fini follows and the object is freed.
CreateWindowFails(w) ==
    /\ InApplication /\ loop \in {"out", "wait"} /\ w \notin memory
    /\ \E step \in Failures \cap {"CreateWindowExW", "SetWindowLongPtrW", "SetWindowTextW"} :
          LET reached == CASE step = "CreateWindowExW"   -> Blank
                           [] step = "SetWindowLongPtrW" -> Created(Blank)
                           [] step = "SetWindowTextW"    -> PointsBack(Created(Blank))
              fini == Fini(reached)
          IN  /\ win' = [win EXCEPT ![w] = fini.data]
              /\ told' = [told EXCEPT ![w] = @ + (IF fini.reported THEN 1 ELSE 0)]
    /\ UNCHANGED <<client, class_registered, loop, subject, back, messages, objects,
                   brushes, lost, counts>>

\* The brush of the background fails: the window exists, titled or not, and is
\* not handed out.
CreateWindowBrushFails(w) ==
    /\ InApplication /\ loop \in {"out", "wait"} /\ Allocate(w)
    /\ "CreateSolidBrush" \in Failures
    /\ \E d \in Initialized : win' = [win EXCEPT ![w] = d]
    /\ UNCHANGED <<client, class_registered, loop, subject, back, messages, given, brushes,
                   told, lost, counts>>

DestroyWindow(w) ==
    LET fini == Fini(win[w]) IN
    /\ InApplication /\ w \in given
    /\ ~(loop = "lost" /\ subject = w)
    /\ memory' = memory \ {w} /\ given' = given \ {w}
    /\ layout' = [layout EXCEPT ![w] = NoLayout]
    /\ win' = [win EXCEPT ![w] = IF fini.data.exists THEN fini.data ELSE Blank]
    /\ brushes' = brushes - (IF fini.deleted THEN 1 ELSE 0)
    /\ told' = [told EXCEPT ![w] = @ + (IF fini.reported THEN 1 ELSE 0)]
    /\ messages' = WithoutMessages(w)
    /\ UNCHANGED <<client, class_registered, loop, subject, back, lost, counts>>

\* A window that was lost has no handle: the call does nothing.  SetWindowTextW
\* may fail and leave the title as it was.
SetTitle(w) ==
    /\ InApplication /\ w \in given /\ win[w].hwnd
    /\ \E c \in Conversions : win' = [win EXCEPT ![w] = Titled(@, c)]
    /\ UNCHANGED <<client, class_registered, loop, subject, back, messages, objects,
                   brushes, told, lost, counts>>

\* A window that is shown needs paint.
SetVisible(w) ==
    /\ InApplication /\ w \in given /\ win[w].hwnd /\ win[w].exists
    /\ win' = [win EXCEPT ![w].visible = ~@, ![w].dirty = ~win[w].visible]
    /\ UNCHANGED <<client, class_registered, loop, subject, back, messages, objects,
                   brushes, told, lost, counts>>

\* autk_client_quit, from any thread and at any time.
Quit ==
    /\ client = "up" /\ posted < MaxQuits
    /\ messages' = Append(messages, "quit")
    /\ posted' = posted + 1
    /\ UNCHANGED <<client, class_registered, loop, subject, back, windows, ended, events>>

-----------------------------------------------------------------------------
(* autk_window_client_run and the window procedure *)

Goto(place) == loop' = place /\ UNCHANGED <<subject, back>>

\* A callback of w; the loop goes on at next when it returns.
Callback(kind, w, next) == loop' = kind /\ subject' = w /\ back' = next

Run ==
    /\ client = "up" /\ loop = "out"
    /\ Goto("peek")
    /\ UNCHANGED <<client, class_registered, messages, windows, counts>>

\* WM_QUIT ends the run.
TakeQuit ==
    /\ messages # <<>> /\ Head(messages) = "quit"
    /\ messages' = Tail(messages) /\ ended' = ended + 1
    /\ Goto("out")
    /\ UNCHANGED <<client, class_registered, windows, posted, events>>

\* WM_CLOSE of a window: its object is told.
TakeClose(next) ==
    /\ messages # <<>> /\ Head(messages) # "quit"
    /\ messages' = Tail(messages)
    /\ Callback("close", Head(messages), next)
    /\ UNCHANGED <<client, class_registered, windows, counts>>

\* WM_PAINT comes when nothing is posted, and comes again until the region is
\* validated.
TakePaint(next) ==
    /\ messages = <<>>
    /\ \E w \in NeedsPaint : Callback("paint", w, next)
    /\ UNCHANGED <<client, class_registered, messages, windows, counts>>

\* Slip: only GetMessageW is thought to see WM_QUIT.
PeekIgnoresQuit ==
    /\ loop = "peek"
    /\ \/ /\ messages # <<>> /\ Head(messages) = "quit"
          /\ messages' = Tail(messages) /\ Goto("wait")
          /\ UNCHANGED <<client, class_registered, windows, counts>>
       \/ TakeClose("wait") \/ TakePaint("wait")
       \/ /\ Idle /\ Goto("wait")
          /\ UNCHANGED <<client, class_registered, messages, windows, counts>>

\* One message is handled if there is one.
Peek ==
    /\ loop = "peek"
    /\ \/ TakeQuit \/ TakeClose("wait") \/ TakePaint("wait")
       \/ /\ Idle /\ Goto("wait")
          /\ UNCHANGED <<client, class_registered, messages, windows, counts>>

BeginWaitReturns ==
    /\ loop = "wait" /\ Goto("get")
    /\ UNCHANGED <<client, class_registered, messages, windows, counts>>

\* Blocks while there is no message.
Get ==
    /\ loop = "get"
    /\ TakeQuit \/ TakeClose("peek") \/ TakePaint("peek")

GetFails ==
    /\ loop = "get" /\ "GetMessageW" \in Failures
    /\ Goto("out")
    /\ UNCHANGED <<client, class_registered, messages, windows, counts>>

CloseReturns ==
    /\ loop = "close" /\ Goto(back)
    /\ UNCHANGED <<client, class_registered, messages, windows, counts>>

\* Slip: the region is not validated.
RedrawReturnsDirty ==
    /\ loop = "paint" /\ Goto(back)
    /\ UNCHANGED <<client, class_registered, messages, windows, counts>>

\* ValidateRect, which fails when the callback has destroyed the window.
RedrawReturns ==
    /\ loop = "paint" /\ Goto(back)
    /\ win' = [win EXCEPT ![subject].dirty = FALSE]
    /\ UNCHANGED <<client, class_registered, messages, objects, brushes, told, lost, counts>>

\* Slip: the handle stays in the object.
InvalidatedKeepsHandle ==
    /\ loop = "lost" /\ Goto(back)
    /\ UNCHANGED <<client, class_registered, messages, windows, counts>>

InvalidatedReturns ==
    /\ loop = "lost" /\ Goto(back)
    /\ win' = [win EXCEPT ![subject].hwnd = FALSE]
    /\ UNCHANGED <<client, class_registered, messages, objects, brushes, told, lost, counts>>

LoopStep ==
    \/ Peek \/ BeginWaitReturns \/ Get
    \/ CloseReturns \/ RedrawReturns \/ InvalidatedReturns

-----------------------------------------------------------------------------
(* The user and the system act on a window *)

UserCloses(w) ==
    /\ win[w].visible /\ events < MaxEvents
    /\ messages' = Append(messages, w) /\ events' = events + 1
    /\ UNCHANGED <<client, class_registered, loop, subject, back, windows, posted, ended>>

\* Part of a window needs paint again; not while it is being painted.
SystemInvalidates(w) ==
    /\ win[w].visible /\ ~(loop = "paint" /\ subject = w)
    /\ win' = [win EXCEPT ![w].dirty = TRUE]
    /\ UNCHANGED <<client, class_registered, loop, subject, back, messages, objects,
                   brushes, told, lost, counts>>

\* WM_DESTROY is sent while the loop is in PeekMessageW or GetMessageW.
SystemDestroys(w) ==
    /\ loop \in {"peek", "get"} /\ win[w].exists /\ events < MaxEvents
    /\ events' = events + 1
    /\ messages' = WithoutMessages(w)
    /\ win' = [win EXCEPT ![w] = Gone(@)]
    /\ lost' = [lost EXCEPT ![w] = @ + 1]
    /\ IF Reports(win[w])
       THEN Callback("lost", w, loop) /\ told' = [told EXCEPT ![w] = @ + 1]
       ELSE UNCHANGED <<loop, subject, back, told>>
    /\ UNCHANGED <<client, class_registered, objects, brushes, posted, ended>>

-----------------------------------------------------------------------------
Next ==
    \/ CreateClient \/ DestroyClient \/ Quit \/ Run \/ LoopStep \/ GetFails
    \/ \E w \in Windows :
          \/ CreateWindow(w) \/ CreateWindowFails(w) \/ CreateWindowBrushFails(w)
          \/ DestroyWindow(w) \/ SetTitle(w) \/ SetVisible(w)
          \/ UserCloses(w) \/ SystemInvalidates(w) \/ SystemDestroys(w)

\* The thread of the loop is scheduled, and callbacks return.
Spec == Init /\ [][Next]_vars /\ WF_vars(LoopStep)

-----------------------------------------------------------------------------
(* Properties *)

WindowData ==
    [hwnd : BOOLEAN, brush : BOOLEAN, exists : BOOLEAN, userdata : BOOLEAN,
     visible : BOOLEAN, dirty : BOOLEAN, wanted : Titles \cup {<<>>},
     title : Seq(CodeUnit), end : Nat, size : Nat]

\* Every variable has its type, and messages name windows of the application.
TypeOK ==
    /\ client \in {"none", "up", "gone"} /\ class_registered \in BOOLEAN
    /\ loop \in {"out", "peek", "wait", "get", "close", "paint", "lost"}
    /\ subject \in Windows /\ back \in {"out", "wait", "get", "peek"}
    /\ messages \in Seq({"quit"} \cup memory)
    /\ given \subseteq memory /\ memory \subseteq Windows
    /\ win \in [Windows -> WindowData]
    /\ \A w \in memory :
          layout[w].block.size \in 0 .. SizeCount - 1 /\ layout[w].user \in UserSizes
    /\ {brushes, posted, ended, events} \subseteq Nat
    /\ told \in [Windows -> Nat] /\ lost \in [Windows -> Nat]

QuitsIn(queue) == {i \in DOMAIN queue : queue[i] = "quit"}

\* No quit is dropped and none counts twice: each that was posted waits in the
\* queue or has ended one run, however callbacks and other threads post them.
OneQuitPerRun == posted = ended + Cardinality(QuitsIn(messages))

\* The application is told of a window the system destroyed, once, and never of
\* one that it destroys itself, also when that happens in a callback of the window
\* or after a step of its creation has failed (the handle is the only difference).
ToldOfLosses == told = lost

\* The system's windows point back to objects that are allocated, which have the
\* handle; an object without a window has none, but for the time in which the
\* application is being told: through the pointer every message finds its object.
HandlesAgree ==
    \A w \in Windows :
        /\ win[w].exists => w \in memory /\ win[w].userdata
        /\ win[w].hwnd # win[w].exists => win[w].hwnd /\ loop = "lost" /\ subject = w

\* Every brush belongs to one window that is allocated: creations that fail and
\* windows that are destroyed, lost before or not, leave none and delete none twice.
BrushesOwned == brushes = Cardinality({w \in memory : win[w].brush})

\* The data of the driver and of the application lie inside a window's block,
\* aligned and apart, for every size that was not refused.
BlocksSound ==
    \A w \in memory : IsSound(layout[w].block, ObjectSize, <<DriverDataSize, layout[w].user>>)

\* The system shows the title that was set, as Unicode encodes it in UTF-16, also
\* across the end of the stack buffer; without memory, what that buffer held.
TitleIsText ==
    \A w \in Windows :
        WholeOrCut(win[w].title, UnitsOf(win[w].wanted), {StackSize - 1, StackSize})

\* The terminator of a converted title is written inside the buffer.
TitleInBounds == \A w \in Windows : win[w].end < win[w].size

\* A quit in the queue ends the run in progress, whatever callbacks do, if they return.
QuitReturns == ("quit" \in Range(messages) /\ loop # "out") ~> (loop = "out")

\* A window that needs paint is painted, or hidden, destroyed, or the run ends.
Painted == \A w \in Windows : (w \in NeedsPaint) ~> (w \notin NeedsPaint \/ loop = "out")
=============================================================================
