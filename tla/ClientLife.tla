----------------------------- MODULE ClientLife -----------------------------
(***************************************************************************)
(* What the objects of an application hold, from autk_client_create() to   *)
(* autk_client_destroy() over the X11 driver: memory, the connection, the  *)
(* semaphore and the pipe of the job queue, windows here and at the        *)
(* server with their titles, the clients' styles (Styles), and the         *)
(* descriptor table of the process, in which numbers that were closed are  *)
(* handed out again.  Any step of a creation may fail.                     *)
(*                                                                         *)
(* Clients and windows are used on one thread, so a call is one action;    *)
(* styles are also held by others.  Windows are few enough for the window  *)
(* map never to grow (HashTable).                                          *)
(***************************************************************************)
EXTENDS Styles, TextConversion

CONSTANTS Windows,
          Titles,         \* titles the application sets: sequences of characters
          DefaultQuery,   \* the base extension, for the background of a window
          DefaultClass,   \* autk_style_class_default
          LastDescriptor, \* the table of the process is 0 .. LastDescriptor
          Failures        \* the steps that may fail, see ClientSteps and WindowSteps

\* Where autk_client_create and autk_window_create may fail, in their order.
ClientSteps == {"client memory", "connect", "screen", "atoms", "sem_init", "pipe", "fcntl"}
WindowSteps == {"window memory", "insert", "style list", "style", "title memory"}

\* Every client needs three descriptors; the application has one of its own.
ASSUME LifeAssumption ==
    /\ IsFiniteSet(Windows) /\ Cardinality(Windows) <= 8
    /\ \A t \in Titles : t \in Seq(Range(t)) /\ \A i \in DOMAIN t : IsCharacter(t[i])
    /\ DefaultQuery \in Queries /\ DefaultClass \in Classes
    /\ Provides(DefaultClass, DefaultQuery) /\ Clients # {}
    /\ LastDescriptor \in Nat /\ LastDescriptor >= 3 * Cardinality(Clients)
    /\ Failures \subseteq ClientSteps \cup WindowSteps

Descriptors == 0 .. LastDescriptor

VARIABLES owner,      \* who has opened each descriptor
          up,         \* clients the application has been given
          driver,     \* autk_x11_client_data_t: display_fd and the ends of the pipe
          held,       \* what else each client has acquired
          memory,     \* window objects that are allocated
          given,      \* those the application has been given
          client_of,  \* window->client
          window_map, \* registered windows
          at_server,  \* windows that exist at the server
          title       \* their titles: as NetWM has it and as the legacy properties have it

client_vars == <<owner, up, driver>>
window_vars == <<memory, given, client_of, window_map, at_server, title>>
vars == <<client_vars, held, window_vars, style_vars>>

Kinds == {"display", "read", "write"}
Resources == {"memory", "connection", "colormap", "semaphore", "map buffer"}

Untitled == [net |-> <<>>, legacy |-> <<>>, end |-> 0, size |-> StackSize]

Init ==
    /\ owner = [d \in Descriptors |-> IF d = 0 THEN <<"app">> ELSE <<>>]
    /\ up = {} /\ driver = [c \in Clients |-> [k \in Kinds |-> 0]]
    /\ held = [c \in Clients |-> {}]
    /\ memory = {} /\ given = {} /\ window_map = {} /\ at_server = {}
    /\ client_of = [w \in Windows |-> CHOOSE c \in Clients : TRUE]
    /\ title = [w \in Windows |-> Untitled]
    /\ StylesInit

-----------------------------------------------------------------------------
(* The descriptor table *)

\* Opening takes the lowest number that is free; closing one that is not open
\* (or negative) fails with EBADF and does nothing.
LowestFree(table) == Min({d \in Descriptors : table[d] = <<>>})
Open(table, who) == [table EXCEPT ![LowestFree(table)] = who]
Close(table, d) == [x \in Descriptors |-> IF x = d THEN <<>> ELSE table[x]]

-----------------------------------------------------------------------------
(* The X11 client driver.  s is what has been acquired so far: the table, the
   numbers stored in the driver's data and the other resources. *)

\* autk_client_create zeroes the driver's data, the numbers in it included.
Zeroed == [table |-> owner, fd |-> [k \in Kinds |-> 0], held |-> {"memory"}]

Connected(c, s) ==
    [table |-> Open(s.table, <<c, "display">>),
     fd |-> [s.fd EXCEPT !["display"] = LowestFree(s.table)],
     held |-> s.held \cup {"connection"}]

WithColormap(s) == [s EXCEPT !.held = @ \cup {"colormap"}]

\* Slip: the queue's descriptors stay zero until the pipe is there.
QueueBlankZero(s) == [s EXCEPT !.fd = [@ EXCEPT !["read"] = 0, !["write"] = 0]]

\* The job queue before its first call that may fail.
QueueBlank(s) == [s EXCEPT !.fd = [@ EXCEPT !["read"] = -1, !["write"] = -1]]

WithSemaphore(s) == [s EXCEPT !.held = @ \cup {"semaphore"}]

WithPipe(c, s) ==
    LET one == Open(s.table, <<c, "read">>) IN
    [table |-> Open(one, <<c, "write">>),
     fd |-> [s.fd EXCEPT !["read"] = LowestFree(s.table), !["write"] = LowestFree(one)],
     held |-> s.held]

\* Slip: the semaphore is not destroyed.
QueueFiniKeepsPermits(s) ==
    [table |-> Close(Close(s.table, s.fd["read"]), s.fd["write"]),
     fd |-> [s.fd EXCEPT !["read"] = IF @ >= 0 THEN -1 ELSE @,
                         !["write"] = IF @ >= 0 THEN -1 ELSE @],
     held |-> s.held]

\* autk_posix_job_queue_fini: numbers from zero up count as open.
QueueFini(s) ==
    [table |-> Close(Close(s.table, s.fd["read"]), s.fd["write"]),
     fd |-> [s.fd EXCEPT !["read"] = IF @ >= 0 THEN -1 ELSE @,
                         !["write"] = IF @ >= 0 THEN -1 ELSE @],
     held |-> s.held \ {"semaphore"}]

\* autk_x11_client_fini: the queue, the window map, the colormap, the connection.
ClientFini(s) ==
    LET q == QueueFini(s) IN
    [q EXCEPT !.table = IF "connection" \in s.held THEN Close(@, s.fd["display"]) ELSE @,
              !.held = @ \ {"map buffer", "colormap", "connection"}]

\* What has been acquired when a step of autk_x11_client_init fails; the queue
\* cleans up behind its own steps, and the driver's fini follows in any case.
Reached(c, step) ==
    LET connected == Connected(c, Zeroed)
        blank == QueueBlank(WithColormap(connected))
    IN  CASE step = "connect"  -> Zeroed
          [] step = "screen"   -> connected
          [] step = "atoms"    -> WithColormap(connected)
          [] step = "sem_init" -> blank
          [] step = "pipe"     -> QueueFini(WithSemaphore(blank))
          [] step = "fcntl"    -> QueueFini(WithPipe(c, WithSemaphore(blank)))

-----------------------------------------------------------------------------
(* autk_client_create, autk_client_destroy *)

CreateClient(c) ==
    LET s == WithPipe(c, WithSemaphore(QueueBlank(WithColormap(Connected(c, Zeroed))))) IN
    /\ c \notin up
    /\ up' = up \cup {c}
    /\ owner' = s.table
    /\ driver' = [driver EXCEPT ![c] = s.fd]
    /\ held' = [held EXCEPT ![c] = s.held]
    /\ UNCHANGED <<window_vars, style_vars>>

\* The driver's fini runs and the memory is freed; out of memory, neither.
CreateClientFails(c) ==
    /\ c \notin up
    /\ \E step \in Failures \cap ClientSteps :
          LET s == IF step = "client memory" THEN [Zeroed EXCEPT !.held = {}]
                                             ELSE ClientFini(Reached(c, step))
          IN  owner' = s.table /\ held' = [held EXCEPT ![c] = s.held \ {"memory"}]
    /\ UNCHANGED <<up, driver, window_vars, style_vars>>

\* Slip: the styles in the fallback list are not released.
DestroyKeepingStyles(c) ==
    LET s == ClientFini([table |-> owner, fd |-> driver[c], held |-> held[c]]) IN
    /\ c \in up /\ \A w \in given : client_of[w] # c
    /\ up' = up \ {c}
    /\ owner' = s.table
    /\ driver' = [driver EXCEPT ![c] = s.fd]
    /\ held' = [held EXCEPT ![c] = s.held \ {"memory"}]
    /\ window_map' = {w \in window_map : client_of[w] # c}
    /\ at_server' = {w \in at_server : client_of[w] # c}
    /\ UNCHANGED <<memory, given, client_of, title, style_vars>>

\* The application has destroyed the windows it was given.  The server drops
\* what belonged to the connection.
DestroyClient(c) ==
    LET s == ClientFini([table |-> owner, fd |-> driver[c], held |-> held[c]]) IN
    /\ c \in up /\ \A w \in given : client_of[w] # c
    /\ up' = up \ {c}
    /\ owner' = s.table
    /\ driver' = [driver EXCEPT ![c] = s.fd]
    /\ held' = [held EXCEPT ![c] = s.held \ {"memory"}]
    /\ ReleaseList(c)
    /\ window_map' = {w \in window_map : client_of[w] # c}
    /\ at_server' = {w \in at_server : client_of[w] # c}
    /\ UNCHANGED <<memory, given, client_of, title>>

-----------------------------------------------------------------------------
(* autk_window_create, autk_window_destroy, autk_window_set_title *)

\* Slip: the window stays registered.
WindowFiniKeepsEntry(w, s) == [s EXCEPT !.server = @ \ {w}]

\* The window is destroyed at the server and leaves the map, if it is in it.
WindowFini(w, s) == [map |-> s.map \ {w}, server |-> s.server \ {w}]

\* Slip: without memory the legacy title is left as it was.
LegacyUncut(t, memory_available) ==
    LET call == WithLatin1(Bytes(t), TRUE, FALSE, memory_available)
    IN  [net |-> t, call |-> call,
         chars |-> Latin1(SubSeq(Items(Bytes(t)), 1, call.done), 63)]

\* A title converted for the legacy properties: lossy, with '?' for what Latin-1
\* has not, and cut if there is no memory; and what the callback is given.
Legacy(t, memory_available) ==
    LET call == WithLatin1(Bytes(t), TRUE, TRUE, memory_available)
    IN  [net |-> t, call |-> call,
         chars |-> Latin1(SubSeq(Items(Bytes(t)), 1, call.done), 63)]

MemoryAvailable == IF "title memory" \in Failures THEN BOOLEAN ELSE {TRUE}
Conversions == UNION {{Legacy(t, m) : m \in MemoryAvailable} : t \in Titles}

\* The NetWM title is set as it is; the legacy title if it could be converted.
Titled(old, c) ==
    IF c.call.status = "OK"
    THEN [net |-> c.net, legacy |-> c.chars, end |-> c.call.end, size |-> c.call.size]
    ELSE [old EXCEPT !.net = c.net]

SetTitle(w) ==
    /\ w \in given
    /\ \E c \in Conversions : title' = [title EXCEPT ![w] = Titled(@, c)]
    /\ UNCHANGED <<client_vars, held, memory, given, client_of, window_map, at_server, style_vars>>

NewWindow(c, w) ==
    /\ c \in up /\ w \notin memory
    /\ UNCHANGED client_vars

\* Created at the server, titled if there is a title, registered, allocated.
Register(c, w) ==
    /\ memory' = memory \cup {w}
    /\ client_of' = [client_of EXCEPT ![w] = c]
    /\ window_map' = window_map \cup {w} /\ at_server' = at_server \cup {w}
    /\ \/ title' = [title EXCEPT ![w] = Untitled]
       \/ \E t \in Conversions : title' = [title EXCEPT ![w] = Titled(Untitled, t)]

\* The window map's buffer comes with its first element.  A window that has no
\* colour of its own takes the one of a style with the base extension.
CreateWindow(c, w) ==
    /\ NewWindow(c, w) /\ Register(c, w)
    /\ given' = given \cup {w}
    /\ held' = [held EXCEPT ![c] = @ \cup {"map buffer"}]
    /\ UNCHANGED style_vars \/ AddFallback(c, DefaultQuery, DefaultClass)

\* Out of memory for the object, or for its entry in the map when the server
\* has been asked for the window already: fini undoes what was done.
CreateWindowFails(c, w) ==
    /\ NewWindow(c, w)
    /\ \E step \in Failures \cap {"window memory", "insert"} :
          LET s == [map |-> window_map, server |-> at_server \cup {w}] IN
          /\ window_map' = IF step = "insert" THEN WindowFini(w, s).map ELSE window_map
          /\ at_server' = IF step = "insert" THEN WindowFini(w, s).server ELSE at_server
    /\ UNCHANGED <<held, memory, given, client_of, title, style_vars>>

\* The background colour cannot be determined: there is no style for it yet, and
\* the list does not grow or the style is not created.  The call fails, with the
\* window created, registered and never handed out.
CreateWindowStyleFails(c, w) ==
    /\ NewWindow(c, w) /\ Register(c, w)
    /\ \E step \in Failures \cap {"style list", "style"} :
          AddFallbackFails(c, DefaultQuery, DefaultClass, step)
    /\ held' = [held EXCEPT ![c] = @ \cup {"map buffer"}]
    /\ UNCHANGED given

DestroyWindow(w) ==
    LET s == WindowFini(w, [map |-> window_map, server |-> at_server]) IN
    /\ w \in given
    /\ memory' = memory \ {w} /\ given' = given \ {w}
    /\ window_map' = s.map /\ at_server' = s.server
    /\ title' = [title EXCEPT ![w] = Untitled]
    /\ UNCHANGED <<client_vars, held, client_of, style_vars>>

-----------------------------------------------------------------------------
(* Styles the application asks for, and what other threads do with them *)

FindOrCreateStyle(c) ==
    /\ c \in up
    /\ \E q \in Queries, k \in Classes :
          \/ AddFallback(c, q, k)
          \/ \E step \in Failures \cap {"style list", "style"} : AddFallbackFails(c, q, k, step)
    /\ UNCHANGED <<client_vars, held, window_vars>>

CreateStyleOfItsOwn(c) ==
    /\ c \in up
    /\ \E t \in Holders, k \in Classes : CreateStyle(t, k)
    /\ UNCHANGED <<client_vars, held, window_vars>>

UseStyles == HolderStep /\ UNCHANGED <<client_vars, held, window_vars>>

-----------------------------------------------------------------------------
Next ==
    \/ \E c \in Clients :
          \/ CreateClient(c) \/ CreateClientFails(c) \/ DestroyClient(c)
          \/ FindOrCreateStyle(c) \/ CreateStyleOfItsOwn(c)
          \/ \E w \in Windows :
                CreateWindow(c, w) \/ CreateWindowFails(c, w) \/ CreateWindowStyleFails(c, w)
    \/ \E w \in Windows : DestroyWindow(w) \/ SetTitle(w)
    \/ UseStyles

Spec == Init /\ [][Next]_vars

-----------------------------------------------------------------------------
(* Properties *)

\* A client the application has holds its memory, connection, colormap and
\* semaphore; one it does not have, whether destroyed or never created whole,
\* holds nothing (the error paths of autk_client_create).
TypeOK ==
    /\ owner \in [Descriptors -> {<<>>, <<"app">>} \cup (Clients \X Kinds)]
    /\ driver \in [Clients -> [Kinds -> Descriptors \cup {-1}]]
    /\ \A c \in Clients :
          IF c \in up THEN {"memory", "connection", "colormap", "semaphore"} \subseteq held[c]
                      ELSE held[c] = {}
    /\ held \in [Clients -> SUBSET Resources] /\ client_of \in [Windows -> Clients]
    /\ given \subseteq memory /\ memory \subseteq Windows
    /\ \A w \in Windows : DOMAIN title[w] = DOMAIN Untitled
    /\ StylesTypeOK

\* No creation that fails and no client that is destroyed closes a descriptor
\* of somebody else: the application's own stays open, and each client's
\* numbers stand for its own connection and pipe.
LiveDescriptors ==
    /\ owner[0] = <<"app">>
    /\ \A c \in up, k \in Kinds : owner[driver[c][k]] = <<c, k>>

\* When the last client is destroyed, the driver and the client's lists have
\* returned all they took: descriptors, colormaps, semaphores, the map, the lists
\* and every style that no thread still holds, whatever failed in between and
\* whoever came and went before.
NothingLeft ==
    up = {} =>
        /\ \A c \in Clients : held[c] = {}
        /\ \A d \in Descriptors \ {0} : owner[d] = <<>>
        /\ window_map = {} /\ at_server = {}
        /\ \A c \in Clients : room[c] = 0
        /\ allocated \subseteq Range(holds) \cup Range(last)

\* The window map, through which events find their windows, names exactly the
\* windows the server has, and none whose memory or whose client is gone.
RegisteredIsAlive ==
    /\ window_map = at_server
    /\ \A w \in window_map : w \in memory /\ client_of[w] \in up

\* Every window at the server has a legacy title that is its NetWM title in
\* Latin-1, never one from before: whole, or cut where the stack buffer ends.
LegacyTitleFollows ==
    \A w \in at_server :
        WholeOrCut(title[w].legacy, Latin1Of(title[w].net), {StackSize - 1})

\* The terminator of a converted title is written inside the buffer.
LegacyTitleInBounds == \A w \in at_server : title[w].end < title[w].size
=============================================================================
