# A verification of autk in TLA+

autk is a C toolkit for desktop windows. An application makes an *instance*
(an allocator and a message function), a *client* (the connection to a display
server and the event loop) and *windows*; under them lie styles, a lock-free job
queue, a hash table and text conversion. The back ends are X11 (over XCB) and
Windows. The repository has no tests. What it promises stands in its comments,
its headers and its example, and what it does is what these modules say.

Paths below are relative to the repository: `src/...` is the library,
`include/autk/...` its headers, `examples/playground.c` the example.

## 1. The system

### Components

| component | state | operations | talks to | modelled in |
|---|---|---|---|---|
| job queue, `src/utility/job_queue.c` | ring of 32 nodes (`AUTK_JOB_QUEUE_MAX`) (`job`, `ready`), `nodes_front`, `nodes_back`, `n_queued_jobs`, semaphore of free nodes | push, try_push (any thread), try_pop (one thread) | semaphore | `JobQueue`, abstractly `JobLine` |
| POSIX job queue, `src/os/posix/job_queue.c` | the above and a non-blocking pipe | push/try_push with wakeup, try_pop, poll on pipe and display, drain, init, fini | kernel | `JobQueue`, `ClientLife` |
| semaphore, `src/os/posix/sync.c` | a count, `was_init` | init, fini, acquire, try_acquire, release | kernel | `JobQueue`, `ClientLife` |
| X11 client driver, `src/client/x11/client.c` | connection, colormap, `window_map`, `quit_requested`, the queue | init, fini, run, quit, event handlers, redraw | all of the above, XCB, callbacks | `X11Loop`, `ClientLife` |
| X11 windows, `src/client/x11/window.c` | window id, dirty box | init, fini, map, setters, invalidate | hash table, XCB | `X11Loop` with `Boxes`, `ClientLife` (in part) |
| hash table, `src/utility/hash.c` | bucket array, `used_count`, `worst_miss` | init, fini, get, insert, reserve, remove, begin/next | allocator | `HashTable`, abstractly `KeyedSet` |
| client and window objects, `src/core/client.c`, `window.c` | memory, driver data, style lists | create, destroy, run, quit, set_title | drivers | `ClientLife`, `X11Loop`, `WindowsLoop` |
| styles, `src/core/style.c`, and the fallback lists in `client.c` | reference counts, a list with its capacity per client | create, retain, release, find_or_create | client, style classes | `Styles`, composed in `ClientLife` |
| text conversion, `src/utility/encoding.c` | none; a stack and a heap buffer | decode, convert to Latin-1 and UTF-16 | allocator, a callback | `TextConversion`, composed in `ClientLife` and `WindowsLoop` |
| Windows back end, `src/client/windows` | thread message queue, window handles, brushes | run, quit, window procedure, init, fini, titles | Win32, callbacks | `WindowsLoop` |
| arithmetic, `src/utility/math.c`, `src/core/math.c` | none | alignment, layout of blocks, boxes | | `Layout`, composed in `WindowsLoop`; `Boxes`, composed in `X11Loop` |
| instance, `src/core/instance.c`, `diagnostics.c` | allocator and message callbacks | alloc, message | application | as the failures of others |
| style extensions, devices, `os/compat.c` | constant tables, accessors | | | classes and what they provide in `Styles`; else nothing with a state of its own |

### How they interact, and what is hard

Any thread may call `autk_client_quit`. It becomes a job: take a permit of the
semaphore (or block), take a number from `nodes_back`, fill that node, set
`ready`, raise `n_queued_jobs`, write a byte to the pipe. Six shared accesses, in
which any number of threads interleave. The loop's thread pops without a lock,
runs jobs, flushes XCB, handles all events, calls `begin_wait`, redraws dirty
windows and sleeps in `poll` on the pipe and the display's descriptor; callbacks
run on that thread, and may themselves quit, create and destroy windows, or make requests
which, when XCB's output buffer is full, make XCB write and read.

What a test would hardly reach, and what PROJECT.json lists line by line:

- *interleaving*: pushes against pushes and against the pop, across the wrap of
  the ring and of the counter; the counter seen before or after the flag;
- *lost wakeups*: a byte written while the loop drains; events XCB has already
  read when the loop goes to sleep;
- *limits*: a full ring seen from other threads and from the loop's own; a full
  pipe; a hash table that has to grow or cannot;
- *shared ownership*: styles of a client's list held by other threads, released
  before, while and after the client is destroyed;
- *boundaries*: a title that fills its buffer, a character cut in the middle, a
  size that wraps when it is aligned;
- *re-entrance*: callbacks that destroy, retitle and quit from inside the loop,
  and on Windows `DestroyWindow` calling the window procedure in turn;
- *partial failure*: EINTR in `sem_wait`, a failing `sem_post` or `write`, a
  creation that stops half-way, and whoever cleans up behind it;
- *stale state*: events in flight for windows destroyed here or by the server;
- *long legal sequences*: tombstones in the hash table, iterations across
  insertions and removals.

### What makes each component correct

- Job queue: a node belongs to one thread at a time; jobs come out once, in the
  order of their claims; every permit comes back; the counter is never wrong by
  more than the steps under way; a job's context is released once.
- Wakeup: the loop does not sleep on a job it could run; what claimed a node is
  executed.
- Event loop: a quit or a lost connection ends the run; one quit ends one run;
  nothing dirty and no event at hand is slept on; a redraw is given all that was
  exposed; the application learns of windows the server destroys.
- Hash table: it is a finite map, over any sequence of operations, also when
  growing fails; iterations yield what stays once.
- Life cycle: whatever fails, what was taken is returned, and nothing else.
- Styles: a count is the number of references, of lists and of threads; each
  style is cleaned up and freed once; a list has room for what it holds and
  nothing it does not need.
- Text: what is converted is the text or its longest prefix that fits, with one
  replacement for each ill-formed sequence, and the terminator is inside the buffer.
- Windows: the application is told of a loss once and of no other; handles,
  pointers back and brushes agree with what the system has; a quit ends one run,
  and what needs paint is painted.
- Blocks: regions lie inside the block, aligned and apart.

## 2. The modules

`JobLine` <- refined by - `JobQueue` (proofs: `JobQueueProofs`)
`JobLine` <- instantiated by - `X11Loop` - extends -> `Boxes` (proofs: `X11LoopProofs`)
`KeyedSet` <- refined by - `HashTable` (proofs: `HashTableProofs`)
`ClientLife` - extends -> `Styles`, `TextConversion` (proofs: `ClientLifeProofs`, which
extends `StylesProofs` and `TextConversionProofs`)
`WindowsLoop` - extends -> `TextConversion`, `Layout` (proofs: `WindowsLoopProofs`,
which extends `TextConversionProofs`)
`NumberLemmas` holds what the proofs share: remainders, least elements, induction
over a range of numbers and the existence of functions defined by recursion.

The windows of ClientLife are few enough never to make the map grow.

Definitions whose comment begins with "Slip:" are not part of a specification.
Each is a plausible mistake in the definition after it; PROJECT.json
("mutants") says which property notices it.

### JobLine

What `job_queue.c` promises its users: a bounded line. `Enter` takes a place,
`Publish` makes the job visible, `Serve` hands out the head once it is published.
A slow publisher holds back the jobs behind it, as `AUTK_ERR_TRY_AGAIN` does.
This module is an abstraction of the code and the interface X11Loop uses, so
X11Loop does not repeat the six steps of a push.

### JobQueue

| TLA+ | code |
|---|---|
| `free_nodes` | value of `n_free_nodes_sem` |
| `nodes_back` (modulo `Wrap`), `nodes_front`, `n_queued_jobs` | the same; `Wrap` stands for 2^w |
| `node_job`, `node_ready` | `node_pool[s].job`, `.ready` |
| `wakeup` | bytes in the pipe (`PipeCapacity` at most) |
| `pc`, `arg`, `node_index` | a producer inside `autk_x11_client_post_job` |
| `loop`, `out_job` | the consumer inside `autk_x11_client_run` |
| `posted`, `execs`, `finis` | which jobs were handed in, run, had their context released |
| `claims`, `popped`, `ticket`, `leaked` | history: order of claims and pops, lost permits |

An action is one atomic access, one semaphore call or one system call:
`Acquire`, `Claim` (the `fetch_add`), `Store`, `SetReady`, `Count`, `Wake` for the
push; `PopCheck`, `PopReady`, `PopTake`, `PopClear`, `PopUncount`, `PopRelease`,
`Exec` for the pop; `Work` is everything the loop does before `PollWakeup` or
`PollOther`; `DrainRead` and `DrainEnd` empty the pipe. `AcquireFails`,
`WakeFails` and `PopReleaseFails` are the error paths, enabled by `Faults`.
`PopClear` puts the store to `ready` and the move of `nodes_front` together,
because only the consumer reads `nodes_front`.

The memory is sequentially consistent. In the code a node is handed over by
release and acquire accesses of `ready` and of `n_queued_jobs`; what weaker
orders could add (the relaxed `fetch_add` of `nodes_back` is only used for its
number) is not examined.

`Poll` and `PollOther` are the outcomes of `poll` (lines 460-475). When `poll` or the
drain fails, `autk_window_client_run` returns an error; here that is the next
iteration starting over. The application is taken to run the client again, which
is what the fairness of `Pop \/ Poll` says.

### X11Loop

The loop of `autk_x11_client_run` between four neighbours: the job queue
(`Queue == INSTANCE JobLine`, plus the pipe as one flag `wakeup`), XCB
(`outbuf`, `xq` for events read but not polled, `wire` for those in the socket,
`conn`), the server (`ServerSends`, `ServerDestroysWindow`, `ConnectionLost`,
and its answers to destroy requests) and the callbacks (`Callbacks` says what
the application's may do, `Redrawing` which windows have a redraw callback).
`outbuf` records what XCB has not written yet: how many requests draw, which
windows they create and which they destroy, so that the server answers for a
window only from the moment it can know of it (`AtServer`).
`dirty[w]` is the window driver's `dirty_region`, a box that `HandleExpose`
extends by the box of the event (`Extend`) and `RedrawOne` resets; `exposed[w]`
is history, the boxes exposed since then, and `created` the windows that ever
were. The window of `BeginWaitCreates` is registered before the server has seen
it. `MCX11Loop` gives the exposures: two boxes that cross. `loop` is the place in `run`: pop, flush, events,
begin_wait, redraw, poll, or out of it. `autk_client_quit` is `CallQuit` followed
by `EnterQueue`, `PublishQuit` and `WakeLoop`; when the loop's own thread makes
the call from a callback, the loop is stuck inside it until it returns (`At`).
That is how a full queue can block its own consumer.

### Boxes

`Extend` is `autk_bbox_extend`: a box without pixels adds nothing and gives way to
one that has some; otherwise each side moves outwards. `Within` compares boxes by
the pixels they hold.

### KeyedSet and HashTable

`KeyedSet` is a finite map. `HashTable` is `hash.c` with its bucket array, one
action per public operation (it is used by one thread): `DoInsert` with its
three cases (tombstone, empty bucket, the extended probe), `Hits`/`Found` for
the search bounded by `worst_miss`, `Remove`, `Insert`, `GrowAndInsert`,
`InsertFails`, `Reserve`, `Fini`, and `Begin`/`Advance`/`End` for an iteration during which the
other operations may happen, as they do inside redraw callbacks. Buckets hold
the hash with the occupied bit (`OccupiedBit`); sizes are computed modulo the
width of `size_t` (`SizeBits`) where the code checks for overflow. In the library
only `autk_hash_table_insert` calls `autk_hash_table_reserve`; `Reservations` are
the counts of other calls, none in hash_rehash and some in hash_probe. `owned` is
history: the keys put in and not taken out.

The growing step is what the code does, not what its comment says; see the
findings.

### TextConversion and MCText

`encoding.c` as operators. `Decode` is `decode_utf8_sequence` on bytes: how many
it uses, the code point, whether it is valid (an overlong form is not, but keeps
its code point). `Items` is the walk both loops make over a text. `Latin1Loop`
and `Utf16Loop` say how far a loop gets in a given room and why it stops, in the
order in which the code looks (Latin-1 checks the room before it decodes, UTF-16
after). `With` is the common course of `autk_with_utf8_to_latin1` and `_utf16`:
stack buffer, counting pass, heap buffer, truncation; `WithLatin1` gives the
stack buffer one place less than its size, `WithUtf16` all of them, as the code
does. `Given` records where the terminator goes and how large the buffer is.

The reference half does not use the code's arithmetic: a character is a record
of its bytes, its UTF-16 units and its Latin-1 place, written down in `MCText`
from the Unicode tables, and a title is a sequence of them. A property compares
what was converted with `UnitsOf` or `Latin1Of` of the title. `IsUnicode` says
which characters those may be. A character of the standard (IsEncoded) has one
unit outside the surrogates or a pair of them, the bytes `Utf8` gives for the
scalar value, and its place in Latin-1 or a '?'. Bytes that are none (IsReplaced)
have U+FFFD and a '?': a sequence that another character or the end interrupts, a
byte that begins nothing, a surrogate, a value above U+10FFFF. How many
replacements such bytes get is the code's choice: one for each sequence, whose
length is as decode_utf8_sequence returns it, where the standard recommends one
for each byte of an encoded surrogate or of a value that is too large. The MC modules
assume it of their titles (TitlesAreUnicode), so that TLC compares the tables of
MCText with this definition. Overlong forms are not among them: the code gives
them the value they would have without their padding, where the standard has no
character.

### Layout

`AlignUp` and `AddRegion` are `autk_align_up` and `autk_add_alloc_region` with
sizes modulo `SizeCount`; `Block` is the sequence of calls every `create` makes.
Sizes of user data are 32 bits wide, so an overflow needs a 32-bit `size_t`.

### Styles

Style objects with their reference counts, and the fallback list of each client
with `capacity` (the 16-bit field) and `room` (what the memory behind it holds).
`Holders` are threads with one reference each: they get it from the client's
thread or from each other (`Retain`), or create a style themselves
(`CreateStyle`), and let go in two steps, `Release` (the atomic subtraction) and
`Free` (cleanup and free, by whoever brought the count to zero). `AddFallback` is
the part of `autk_client_find_or_create_style_extension` that changes anything;
`AddFallbackFails` is its failure before the list grows or after.

A client releases a style of its list in `ReleaseList` in one step: the count
and what follows from it. Between the two nobody can reach the style.

### ClientLife

What an application's objects hold, from `autk_client_create` and
`autk_window_create` to their destruction: one action per call, on one thread,
with failure possible at every step in `Failures`, while other threads use
styles (`UseStyles`). `owner` is the process's descriptor table, in which the
lowest free number is handed out, so that a descriptor closed by mistake can be
one that has since become somebody else's. `driver` holds the numbers in
`autk_x11_client_data_t`, `held` the other resources, `window_map` and
`at_server` the windows here and there, `title` their titles at the server. A
failing creation runs the cleanup the code runs (`Reached`, `QueueFini`,
`ClientFini`, `WindowFini`), on the numbers the driver data holds at that point.
A window without a colour of its own asks for the base extension and thereby may
create the first style. Applications are assumed to destroy their windows before
their client; styles may outlive it.

### WindowsLoop

`autk_window_client_run`, the window procedure and the window driver of
Windows. The system's part is modelled as the code uses it and marked external:
the thread's posted messages in order, paint messages when nothing is posted and
as long as a visible window has an update region, `WM_DESTROY` sent from inside
`PeekMessageW`/`GetMessageW` when the system destroys a window, or from
`DestroyWindow`.

| TLA+ | code |
|---|---|
| `win[w].hwnd`, `.brush` | `autk_windows_window_data_t` |
| `win[w].exists`, `.userdata`, `.visible`, `.dirty`, `.title` | the system's window: it exists, `GWLP_USERDATA`, shown, update region, text |
| `win[w].wanted`, `.end`, `.size` | the title asked for; the terminator's place and the buffer's size in its conversion |
| `loop`, `subject`, `back` | the place in `autk_window_client_run`; the callback it is in, of which window, and where it goes on |
| `memory`, `given`, `layout` | allocated window objects, those the application has, their blocks |
| `told`, `lost`, `posted`, `ended` | history |

Calls of the application happen outside the loop and inside callbacks
(`InApplication`). `Fini` is `autk_windows_window_fini` on one window's record,
including whether `WM_DESTROY` reports the loss. A client is created once: the
class stays registered after `autk_client_destroy`, and `RegisterClassExW` then
fails for the next client (`CreateClient` is not enabled again). `Initialized` is
what the driver's init leaves, a window with or without a title: a creation whose
brush fails afterwards leaves that behind, registered and out of the application's
hands.

Preconditions, also at the head of the module: an `invalidated` callback does not
destroy its own window; no part of a window becomes invalid while it is being
painted (`ValidateRect` afterwards would drop it); windows are created outside
the loop or in `begin_wait`.

## 3. What is checked

| run | module | shows | bounds |
|---|---|---|---|
| jq_faults | MCJobQueue | TypeOK, SlotExclusive, FifoOrder, PermitConservation, CountAccurate, RingInv, FiniOnce | 3 producers (one uses try_push), 5 jobs, ring of 2, counter modulo 4, pipe of 2, all faults |
| jq_live | MCJobQueue | NoLostWakeup, ClaimedIsExecuted, LineSpec (JobQueue implements JobLine, its fairness included) | 2 producers, 3 jobs, no faults |
| x11_run | MCX11Loop | TypeOK, OneQuitPerRun, RedrawnBeforeSleep, ExposedIsDirty, QuitReturns, LostConnectionEndsRun | 1 other thread, 2 windows, one of which is created by the loop, exposures of 2 boxes, 2 places, 2 quits, 2 events, 1 drawing request, a buffer of 1, connection may break; callbacks quit, create and destroy |
| hash_probe | MCHashTable | TypeOK, ProbeInv, NothingLost, IterationSound, MapSpec (HashTable implements KeyedSet) | 4 keys, 2 values, 4 buckets that cannot grow |
| life_failures | MCClientLife | TypeOK, LiveDescriptors, NothingLeft, RegisteredIsAlive, RefsCounted, ClassDataLives, FallbacksNeeded, ListHasRoom, LegacyTitleFollows, LegacyTitleInBounds | 2 clients, 1 window, 7 descriptors, 2 style objects, 2 holders, 2 classes, 3 queries, lists that grow by 1, 2 titles, a stack buffer of 3, failures from the job queue on |
| win_run | MCWindowsLoop | TypeOK, OneQuitPerRun, ToldOfLosses, HandlesAgree, BrushesOwned, BlocksSound, TitleIsText, QuitReturns, Painted | 1 window, 7 titles, a stack buffer of 3, 2 quits, 2 closes or losses, all failures, sizes of 5 bits aligned to 4 |

Why these bounds reach the cases that matter:

- Five jobs through a ring of two wrap the ring twice and the counter of four
  once; three producers can hold both nodes while a third waits, overtake each
  other between claim and publication, and fill the pipe. A pipe of two bytes
  drained one at a time has full, partial and empty reads.
- In the hash table three of four keys start at the same bucket, one of them
  with a different hash, and the fourth at the bucket where their probes go on;
  the table can be full, so every search passes tombstones and wraps.
- Two windows and two events give an event in flight for a destroyed window, and
  one more request than XCB buffers makes it write on its own: what it writes
  may be the creation or the destruction of a window.
- Two exposures that cross, neither of which contains the other, move the sides
  of a region in both directions; a region that grows by one side only forgets
  part of one of them.
- Two quits in two places is the most X11Loop takes without the finding below.
- Two clients are enough for a wrong descriptor to hit a live one: one is
  created and fails while the other comes and goes, and takes the numbers that
  became free. One window at a time belongs to either; it can be left behind by
  a failing background and die with its client.
- Two classes, one of which answers all three queries and the other only the
  plainest, give lists of one and two styles whose order matters; two holders
  can race for the last release with each other and with a client that goes.
  Holders are alike, so TLC takes them as a symmetry set.
- A stack buffer of three, with titles that leave room in it, fill it exactly,
  need more, have a surrogate pair across its end, a sequence cut before another
  character, a lone surrogate and a stray byte.
- On Windows windows share nothing but the queue, and one loop, callbacks and
  the system suffice to interleave what happens to one; two quits wait together
  or one after the other. Painted is thereby a statement about one window:
  whether the system serves the update regions of several in turn is not examined.
- Sizes of 0 .. 31: user data of none, of the largest size that still fits, of
  one more, and of one that aligns to zero.

Fairness. `Push(p)`, `Pop \/ Poll` and `QuitStep(t)`, `LoopStep` are weakly fair:
the scheduler runs every thread, and a thread inside one of these functions
always has one next step. Posting, quitting, drawing, failing and sending are
not fair. `Acquire` needs no more than weak fairness for the properties here:
ClaimedIsExecuted speaks of jobs that have a node, and in x11_run there are no
more quits than places. In WindowsLoop the step of the loop, which includes the
return of the callback it is in, is weakly fair; `GetFails`, the user, the
system and the application are not. `CHECK_DEADLOCK FALSE` appears in violation
runs, where the program may stop (blocked in `sem_wait`, or at an assertion), and
in win_run, where the application may destroy its client and be done.

### Findings

Violation runs, each with the one property the repository states and the code breaks:

- **hash_rehash**, `NothingLost`: `autk_hash_table_reserve` overwrites `ht->data`
  with the new zeroed buffer (line 281) and then walks `ht->data` to reinsert
  "all elements" (283-284). Nothing is reinserted. The table forgets all it held:
  two keys are in two buckets, and the third call of `autk_hash_table_insert` grows
  the buffer and leaves only the key it inserts. For the window map of a 64-bit
  build that is when the ninth window is created.
- **x11_invalidated**, `InvalidatedIsTold`: the DestroyNotify and error handlers
  pass `window->driver_data` where `autk_x11_window_invalidate` expects the
  window. The application is never told.
- **x11_close_quits**, `QuitReturns`: the documented way to quit on close pushes
  from the only thread that pops. With a full ring it blocks for ever.
- **x11_missed_event**, `NoEventAtSleep`: events XCB read while it wrote requests
  of `begin_wait` or of a redraw are not in the descriptor `poll` watches.
- **life_descriptors**, `LiveDescriptors`: a creation that fails before the job
  queue is initialized cleans up a zeroed one, whose descriptor numbers are 0,
  and closes descriptor 0 of the process. A retry may get number 0 for its
  connection, and the next failure closes that one.
- **text_terminator**, `TitleInBounds`: the UTF-16 conversion may fill its stack
  buffer to the last unit (line 306) and then null-terminates it (354-355), one
  unit past the end. The Latin-1 conversion keeps a place; LegacyTitleInBounds
  holds in life_failures.

Read in the code and modelled as it is, without a run of its own: on Windows
`begin_wait` is called with messages still waiting, although `types.h:227` says
the queue "has been fully consumed"; a second client cannot be created after
the first, the class being registered still; `autk_style_release` subtracts with
acquire order and fences with release, the reverse of what would order the other
threads' accesses before the cleanup.

life_failures leaves the early failures of a creation out and checks the same property on
all the others. A window whose background style fails remains registered and
allocated but is not handed out (`src/core/window.c:134`); the model does that
too (`CreateWindowStyleFails`), and what RegisteredIsAlive and NothingLeft say
holds of it. That the object's memory is lost is a fact about the code, no
property here forbids it.

## 4. What is proved

Every theorem holds for every value of the constants that the named assumptions
of the modules admit; where one needs more, its hypothesis is stated in it and
named below. Every safety invariant a passing run checks is a theorem.

### The job queue (`JobQueueProofs`)

For any number of producers, ring size, counter width that is a multiple of it,
pipe and set of faults:

| theorem | property | argument |
|---|---|---|
| TypeCorrect | TypeOK | inductive as it stands; `n_queued_jobs > 0` from PopCheck to PopUncount because only the consumer lowers it |
| PermitsConserved | PermitConservation | inductive with TypeOK: a permit moves from the semaphore to a push, its node, the loop and back, one term of the sum at a time |
| WakeupsNotLost | NoLostWakeup | inductive with TypeOK: a push that has set `ready` is itself the promise of a byte until it has written one, and the loop enters `work` only by a failed check |
| RingSound | RingInv | the inductive invariant, below |
| PopsInOrder | FifoOrder | a conjunct of RingInv |
| NodesExclusive | SlotExclusive | from RingInv, by arithmetic |
| CounterAccurate | CountAccurate | inductive with the types and the ring: every step changes the ready nodes, the pushes about to count or the counter by one |
| FatesSound, ReleasedOnce | FateInv, FiniOnce | inductive, below |
| ImplementsLine | | Init is `Line!Init`, and each step is `Line!Enter`, `Publish`, `Serve` or a stutter: `[][Line!Next]_(Line!vars)`, the safety half of LineSpec |

The assumptions: `RingAssumption` (the ring is not empty and `Wrap` is a
multiple of its size, which the static_assert on `AUTK_JOB_QUEUE_MAX` ensures),
`PipeAssumption`, `ThreadAssumption` (finitely many producers, `NoJob` not a job).

SlotExclusive and FifoOrder are not inductive: that a claimed node is free
depends on where its previous job went. RingInv numbers the claims. The
*tickets* from `Len(popped)` to `Len(claims) - 1` are outstanding; ticket t lives
in node t % MAX; the node is ready exactly when no push is still filling it; and
no other node is ready. Each push in progress has its own ticket. That a new
claim finds a node free is a counting argument: it holds a permit, so by
PermitConservation there are fewer than MAX tickets, and MAX consecutive numbers
have different remainders (`ModDistinct`). That `nodes_back % MAX` is the ticket's
node although the counter wraps is `ModMod` with the static_assert.

FiniOnce says of a job that it is released at most once, which is not inductive
either: FateInv adds who has the job. It is in the hands of one push that has no
node yet, or it has one claim and is executed and released exactly when its pop
is complete, or its push has failed and released it.

### The X11 loop (`X11LoopProofs`)

For any number of other threads, windows, places and quits, any exposures, output
buffer and callbacks (`LoopAssumption`, with finitely many threads):

| theorem | property | argument |
|---|---|---|
| TypesHold | TypeOK | inductive with QuitsFit: jobs in the line, jobs served and quits on their way are together no more than the quits there were |
| QuitsCounted | OneQuitPerRun | inductive with QuitIsNext and the types of the sequences |
| SleepsRedrawn | RedrawnBeforeSleep | inductive: the loop goes to sleep only from the end of a redraw (GoesToSleep), and while it sleeps nothing gets dirty |
| NoPixelForgotten | ExposedIsDirty | inductive with the second half of RedrawnBeforeSleep: a window that is created starts with nothing exposed |
| ExtendIsLeast | | by cases of the eight comparisons: the region is the least box with both |

OneQuitPerRun alone is not inductive: a job is popped only while `quit_requested`
is false, and what keeps it false from one turn of the loop to the next is
QuitIsNext, that between the pop and the return nothing else happens. For the
regions, RegionsChange reduces every step to three: an exposure, a creation, or a
window that is cleaned. ExtendContains then says that the region keeps what it
had and takes in what is added.

### The hash table (`HashTableProofs`)

For any keys, hash function, bucket size and width of `size_t`:

| theorem | property | hypotheses |
|---|---|---|
| SearchesMayStop | ProbeInv | |
| TypesAndBounds | TypeOK | |
| IterationsSound | IterationSound | no table with elements grows |
| ElementsKept | NothingLost | the same, and NoTopBit |
| ImplementsMap | MapSpec | the same two |

`Good(t, n)` is the invariant of a table of n buckets: IsTable (types, and
`worst_miss` below n), Searchable (from where the search of an element starts to
where it lies no bucket is empty, and that is at most `worst_miss` away), Unique
and Counted. It is stated of a record, so that the same lemmas serve the table
and the new one of a growth. The proofs say what `do_insert` does by the bucket
it chooses (Place): first the least distance at which a bucket is not occupied,
then the search beyond `worst_miss`. A tombstone is reused only after the key has
been looked for, which is where Unique comes from; a removal empties no bucket,
which is why Searchable survives it. TableInv, that some n makes the table Good,
is inductive whatever happens, growing included.

The two hypotheses name what is wrong in the code. `[][~Outgrows]_vars` excludes
the growth of a table that has elements, which forgets them (the finding
hash_rehash). `NoTopBit` says that no hash has the bit that marks occupied
buckets: `find` starts at the hash modulo the buckets and `do_insert` at the hash
without that bit, which is the same bucket only then (`src/utility/hash.c:98`
and 155). SearchesMayStop does not need it, since it measures distances from
where `do_insert` starts. `hash_probe` is an instance of both.

### Styles and life cycles (`StylesProofs`, `ClientLifeProofs`)

For any number of clients, threads, objects, classes and queries, and any set of
steps that fail:

| theorem | property |
|---|---|
| StylesPreserved | `StylesInv /\ StyleStep => StylesInv'` |
| ReferencesCounted, ClassesInitAndFini, NoNeedlessFallbacks, ListsFit | RefsCounted, ClassDataLives, FallbacksNeeded, ListHasRoom |
| TypesAndHoldings, AllReturnedAtTheEnd | TypeOK, NothingLeft |
| EventsFindLiveWindows | RegisteredIsAlive |
| DescriptorsLive | LiveDescriptors, if `NoEarlyFailure` |
| LegacyTitlesEndInBuffer | LegacyTitleInBounds |
| LegacyTitlesFollow | LegacyTitleFollows, if the titles are Unicode |

Styles has no next-state relation of its own; StylesPreserved speaks of every
step that anybody can take with styles (StyleStep), and ClientLifeProofs shows
that every step of ClientLife is one of them or leaves styles alone. StylesInv
adds to the properties that a thread which is to free a style is the only one
and holds no other (OneAtATime, RefsOf): that is what makes the two halves of a
release safe.

LifeInv says who has what. OwnersRight is the heart: a descriptor open for a
client is the number in that client's driver data, and that client is up. So the
descriptors a client closes at its end are its own, and when no client is up none
is open. Creation and its cleanup are folded into one action in the model; the
lemmas about `Reached` go through its steps with the record of what has been
acquired, and show that the cleanup takes the record back to where it began. A
lowest free descriptor exists because there are three for every client
(`LastDescriptor >= 3 * Cardinality(Clients)`: running out is not modelled).
NoEarlyFailure excludes the three steps before the descriptors of the job queue
are set to -1, which is the finding life_descriptors.

`StyleAssumption`: finitely many clients, threads, objects and queries, and a
16-bit capacity that can count one style per query and one increment more.
`LifeAssumption`: at most eight windows, for which the window map never grows;
titles are sequences of characters, which are non-empty sequences of bytes.
LegacyTitlesFollow asks of the titles that they are `IsUnicode`; the other
theorems hold for any bytes and any table of characters. It is a conjunct of what
LifeInv says of a title (IsTitle): the conversion never fails, since it may cut,
so both forms of a title change in one step (ConversionsAreTitles, TitledWhole).

### Text (`TextConversionProofs`)

For any text and any size of the stack buffer:

| theorem | what it says |
|---|---|
| Latin1Terminated | a lossy conversion to Latin-1 puts its terminator inside the buffer, on the stack, on the heap, or on the stack with the text cut |
| Latin1WholeOrCut, Utf16WholeOrCut | a lossy conversion with truncation allowed succeeds, and its callback gets the conversion of the whole text, or a prefix of it as long as the stack buffer allows |
| TextIsUnicode | a text of Unicode characters and replaced bytes (`IsUnicode`) converts to the units and the Latin-1 characters the standard gives |

The same as Latin1Terminated is not true of UTF-16, see text_terminator.

The first three are about any bytes and rest on what the loops do: a lossy loop
stops at nothing but the end or a full buffer (LossyLatin1, LossyUtf16), so the
counting pass finds exactly what the second pass needs. For UTF-16 that takes the
number of units after every item (IsCount), which grows by one or two; where the
room ends is the last item whose count fits, and one unit may then be left over.
That is why the cut has one of two lengths, and never splits a pair. The lemmas
before give the types of everything: an item uses at least one byte and no more
than there are (DecodeUses), which makes the walk over a text end (ItemsTypes),
code points are in the Unicode range and units have 16 bits.

TextIsUnicode is about decode_utf8_sequence. ItemAt is what it makes of one place
in a text, and the walk (IsWalk, ItemsWalk) goes from place to place.
CharacterMeans shows, by the length that the first byte announces (FirstBytes) and
the six bits of each byte that follows (TrailBytes, SixBits), that a character at
the front of any rest of a text is decoded to what it stands for, and the walk
goes on exactly behind it. EncodedMeans, BrokenMeans, CutMeans and NoScalarMeans
are its cases. For a sequence that ends early the next character matters, hence
the last line of IsUnicode. PlacesOfCharacters then says that the walk visits
the characters' first bytes and nothing else, by RangeInduction, and
ItemsOfCharacters that there is one item for each.

### The Windows back end (`WindowsLoopProofs`)

For any number of windows, titles, sizes, failures, quits and losses, any
alignment and width of a size (`WindowsAssumption`, `SizeAssumption`):

| theorem | property | argument |
|---|---|---|
| LossesReported, PointersFindObjects, NoBrushLeaks | ToldOfLosses, HandlesAgree, BrushesOwned | conjuncts of DriverInv |
| WindowBlocksSound | BlocksSound | every block is one that `Block` did not refuse, and BlockIsSound |
| QuitsEndRuns | OneQuitPerRun | inductive with the types of the queue |
| TypesHold | TypeOK | with DriverInv: who is shown exists, and whose window exists is allocated |
| TitlesAreText | TitleIsText | if the titles are Unicode: a conjunct of the types of the windows (IsData) |

ToldOfLosses rests on HandlesAgree: the system destroys only a window that
exists, the object of one that exists has its handle, and so WM_DESTROY reports
the loss; the application's own DestroyWindow comes after the handle is cleared
and reports none. HandlesAgree has an exception while the loss is being reported,
so CallbacksRight adds that the window is then gone already.

QueueStep is all that a step can do to the queue: nothing, a quit at its end, a
message for a visible window at its end, its head taken, or a window gone with
its messages. QuitPosted, QuitTaken and WindowTakesNoQuits count the quits in
each; the last goes through the queue message by message, by RangeInduction.

BlockIsSound is arithmetic: `AlignUp` gives a multiple of the alignment that is
not smaller, or zero when it wrapped (AlignUpAligns), and `AddRegion` refuses the
wraps that matter (RegionFits).

### How recursion is treated

The library's induction theorems cannot be used here, so NumberLemmas derives
what is needed from the well-foundedness of the numbers: LeastExists, from it
RangeInduction (a property is given as the set of the numbers that have it), and
from that RecursionExists, that a function defined by recursion over a range
exists. Definitions by recursion are therefore written as functions on a range of
numbers (`Items`, `Codepoint`, `Block`, `WithoutMessages`), and the proofs about
them exhibit the function once and then go through the range. `FlattenSeq` of
the community modules is treated alike: FlattenJoins says that it is the last
value of a joining (IsJoin), which lemmas about prefixes and rests go through.

### Only model-checked

- Liveness under fairness: ClaimedIsExecuted, QuitReturns, LostConnectionEndsRun,
  Painted, and the fairness that LineSpec promises. TLAPS does not treat ENABLED
  and weak fairness here.
- Texts with overlong forms. Nothing states what they should become.
- The findings: what the code gets wrong, TLC shows.

## 5. What is not modelled

- Which screen, visual and atoms the X11 driver chooses, the reuse of X11 ids
  (`autk_x11_window_map_insert` finding the id taken), and requests that have no
  reply and no effect here: mapping, colours, size hints.
- Boxes on Windows, where the system keeps the region: there a window is dirty
  or not. Scaling, clamping and colours of `math.h`.
- Messages, status names, colours and the tables behind style extensions.
- Strict conversions and refusal without truncation: nothing in the library
  calls the conversion that way. `With` has the branches, no run takes them.
- Weak memory. Structural parameter checks (`struct_size`, NULL arguments), which
  return before anything changes.
- Jobs still queued when a client is destroyed: the only job there is, the quit,
  has no context to release.
- On Windows: erasing the background, positions and sizes, modal loops of the
  system, which take thread messages.

## 6. Plan

Done, in this order: JobLine, JobQueue, its proofs; X11Loop over JobLine;
KeyedSet, HashTable; ClientLife; TextConversion; Styles into ClientLife;
WindowsLoop with Layout; callbacks that create, destroy and quit inside the loop;
Boxes, and the proofs about X11Loop.

Then proved: HashTable with the step of its refinement of KeyedSet; CountAccurate,
FiniOnce and the steps of JobQueue as steps of JobLine; the TypeOK of X11Loop; Styles
and ClientLife for any number of clients and holders; the blocks of Layout; the
terminator of Latin-1 titles; the invariants of WindowsLoop; the text of titles,
from the bytes of Unicode characters through decode_utf8_sequence and the two
passes of `With` to what the system and the server have.

Left: the liveness properties, which stay with TLC. Modules to be proved about
have no RECURSIVE operators, constants with named assumptions and invariants in
named conjuncts; the present ones are written so.
