------------------------------ MODULE JobQueue ------------------------------
(***************************************************************************)
(* The multi-producer, single-consumer job queue: the ring of nodes in     *)
(* src/utility/job_queue.c and the wakeup pipe that                        *)
(* src/os/posix/job_queue.c adds to it, driven from one side by            *)
(* autk_x11_client_post_job() on any thread and from the other by the      *)
(* pop/poll skeleton of autk_x11_client_run() on the loop's thread.        *)
(*                                                                         *)
(* One action is one atomic access to shared memory, one semaphore call or *)
(* one system call.  The atomics are sequentially consistent here; each    *)
(* hand-over of a node in the code is a release/acquire pair.              *)
(***************************************************************************)
EXTENDS Naturals, Sequences, FiniteSets, Functions

CONSTANTS Producers,    \* threads that post jobs
          TryPushers,   \* those that call try_push instead of push
          Jobs,         \* the jobs they may post, each once: the bound of a run
          NoJob,        \* what a node or a thread holds when it holds none of them
          MAX,          \* AUTK_JOB_QUEUE_MAX
          Wrap,         \* nodes_back counts modulo this (2^w for a w-bit size_t)
          PipeCapacity, \* bytes the kernel buffers in the wakeup pipe
          ReadSize,     \* sizeof(buf) in drain_wakeup_pipe()
          Faults        \* the system calls that may fail: see FaultKinds

FaultKinds == {"sem_wait", "sem_post", "write"}

\* The static_assert on AUTK_JOB_QUEUE_MAX: nodes_back wraps at a multiple of
\* the ring's size, so the node index stays continuous across the wrap.
ASSUME RingAssumption ==
    /\ MAX \in Nat \ {0}
    /\ Wrap \in Nat /\ \E k \in 1 .. Wrap : Wrap = k * MAX
ASSUME PipeAssumption ==
    /\ PipeCapacity \in Nat \ {0}
    /\ ReadSize \in Nat \ {0}
ASSUME ThreadAssumption ==
    /\ IsFiniteSet(Producers)
    /\ TryPushers \subseteq Producers
    /\ NoJob \notin Jobs
    /\ Faults \subseteq FaultKinds

VARIABLES
    \* autk_job_queue_t and the pipe
    free_nodes,     \* value of n_free_nodes_sem
    nodes_back, nodes_front,
    n_queued_jobs,
    node_job, node_ready,   \* node_pool[s].job and .ready
    wakeup,                 \* bytes in the pipe
    \* the producers
    pc, arg, node_index,
    \* the consumer
    loop, out_job,
    \* what happened to each job's context
    posted, execs, finis,
    \* history: the order of the claims and of the pops, each producer's place
    \* in the first, and the permits lost to failed sem_post calls
    claims, popped, ticket, leaked

ring     == <<nodes_back, nodes_front, n_queued_jobs, node_job, node_ready>>
producer == <<pc, arg, node_index, ticket>>
consumer == <<loop, out_job>>
fates    == <<posted, execs, finis>>
history  == <<claims, popped, leaked>>
vars     == <<free_nodes, wakeup, ring, producer, consumer, fates, history>>

Slots == 0 .. MAX - 1

PushStates == {"idle", "acquire", "claim", "store", "publish", "count", "wake"}
LoopStates == {"check", "ready", "take", "clear", "uncount", "release", "exec",
               "work", "poll", "drain"}

\* AUTK_JOB_QUEUE_MAX permits, every index zero, an empty non-blocking pipe.
Init ==
    /\ free_nodes = MAX
    /\ nodes_back = 0 /\ nodes_front = 0
    /\ n_queued_jobs = 0
    /\ node_job = [s \in Slots |-> NoJob]
    /\ node_ready = [s \in Slots |-> FALSE]
    /\ wakeup = 0
    /\ pc = [p \in Producers |-> "idle"]
    /\ arg = [p \in Producers |-> NoJob]
    /\ node_index = [p \in Producers |-> 0]
    /\ ticket = [p \in Producers |-> 0]
    /\ loop = "check"
    /\ out_job = NoJob
    /\ posted = {}
    /\ execs = [j \in Jobs |-> 0]
    /\ finis = [j \in Jobs |-> 0]
    /\ claims = <<>> /\ popped = <<>> /\ leaked = 0

-----------------------------------------------------------------------------
(* autk_x11_client_post_job() and below it the push, on a producer's thread *)

Goto(p, from, to) == pc[p] = from /\ pc' = [pc EXCEPT ![p] = to]

\* The call of post_job with a job of the application.
Post(p) ==
    /\ Goto(p, "idle", "acquire")
    /\ \E j \in Jobs \ posted :
          /\ posted' = posted \cup {j}
          /\ arg' = [arg EXCEPT ![p] = j]
    /\ UNCHANGED <<free_nodes, wakeup, ring, node_index, ticket, consumer,
                   execs, finis, history>>

\* Slip: a push that does not take its permit.
AcquireNoPermit(p) ==
    /\ Goto(p, "acquire", "claim")
    /\ UNCHANGED <<free_nodes, wakeup, ring, arg, node_index, ticket, consumer, fates, history>>

\* sem_wait or sem_trywait takes a permit.
Acquire(p) ==
    /\ Goto(p, "acquire", "claim")
    /\ free_nodes > 0
    /\ free_nodes' = free_nodes - 1
    /\ UNCHANGED <<wakeup, ring, arg, node_index, ticket, consumer, fates, history>>

\* Slip: the interrupted wait is taken for a success.
AcquireIgnoresEINTR(p) ==
    /\ "sem_wait" \in Faults
    /\ Goto(p, "acquire", "claim")
    /\ UNCHANGED <<free_nodes, wakeup, ring, arg, node_index, ticket, consumer, fates, history>>

\* try_push finds no permit, or a signal interrupts sem_wait.  The job was
\* not queued, so post_job releases its context.
AcquireFails(p) ==
    /\ Goto(p, "acquire", "idle")
    /\ (p \in TryPushers /\ free_nodes = 0) \/ "sem_wait" \in Faults
    /\ finis' = [finis EXCEPT ![arg[p]] = @ + 1]
    /\ UNCHANGED <<free_nodes, wakeup, ring, arg, node_index, ticket, consumer,
                   posted, execs, history>>

\* Slip: the node is taken from the counter after it was raised.
ClaimNext(p) ==
    /\ Goto(p, "claim", "store")
    /\ node_index' = [node_index EXCEPT ![p] = ((nodes_back + 1) % Wrap) % MAX]
    /\ nodes_back' = (nodes_back + 1) % Wrap
    /\ ticket' = [ticket EXCEPT ![p] = Len(claims)]
    /\ claims' = Append(claims, arg[p])
    /\ UNCHANGED <<free_nodes, wakeup, nodes_front, n_queued_jobs, node_job,
                   node_ready, arg, consumer, fates, popped, leaked>>

\* The relaxed fetch-and-add on nodes_back hands out the next node.
Claim(p) ==
    /\ Goto(p, "claim", "store")
    /\ node_index' = [node_index EXCEPT ![p] = nodes_back % MAX]
    /\ nodes_back' = (nodes_back + 1) % Wrap
    /\ ticket' = [ticket EXCEPT ![p] = Len(claims)]
    /\ claims' = Append(claims, arg[p])
    /\ UNCHANGED <<free_nodes, wakeup, nodes_front, n_queued_jobs, node_job,
                   node_ready, arg, consumer, fates, popped, leaked>>

Store(p) ==
    /\ Goto(p, "store", "publish")
    /\ node_job' = [node_job EXCEPT ![node_index[p]] = arg[p]]
    /\ UNCHANGED <<free_nodes, wakeup, nodes_back, nodes_front, n_queued_jobs,
                   node_ready, arg, node_index, ticket, consumer, fates, history>>

SetReady(p) ==
    /\ Goto(p, "publish", "count")
    /\ node_ready' = [node_ready EXCEPT ![node_index[p]] = TRUE]
    /\ UNCHANGED <<free_nodes, wakeup, nodes_back, nodes_front, n_queued_jobs,
                   node_job, arg, node_index, ticket, consumer, fates, history>>

\* Slip: a plain increment, which may lose an update of the other side.
CountUnatomic(p) ==
    /\ Goto(p, "count", "wake")
    /\ n_queued_jobs' \in {n_queued_jobs, n_queued_jobs + 1}
    /\ UNCHANGED <<free_nodes, wakeup, nodes_back, nodes_front, node_job,
                   node_ready, arg, node_index, ticket, consumer, fates, history>>

Count(p) ==
    /\ Goto(p, "count", "wake")
    /\ n_queued_jobs' = n_queued_jobs + 1
    /\ UNCHANGED <<free_nodes, wakeup, nodes_back, nodes_front, node_job,
                   node_ready, arg, node_index, ticket, consumer, fates, history>>

\* Slip: only the push that finds the queue empty wakes the loop.
WakeFirstOnly(p) ==
    /\ Goto(p, "wake", "idle")
    /\ wakeup' = IF wakeup < PipeCapacity /\ n_queued_jobs = 1 THEN wakeup + 1 ELSE wakeup
    /\ UNCHANGED <<free_nodes, ring, arg, node_index, ticket, consumer, fates, history>>

\* The byte that wakes the loop; EAGAIN means bytes are already waiting and is
\* a success, EINTR is retried at once.
Wake(p) ==
    /\ Goto(p, "wake", "idle")
    /\ wakeup' = IF wakeup < PipeCapacity THEN wakeup + 1 ELSE wakeup
    /\ UNCHANGED <<free_nodes, ring, arg, node_index, ticket, consumer, fates, history>>

\* Slip: post_job releases the context after any failure.
WakeFailsFini(p) ==
    /\ "write" \in Faults
    /\ Goto(p, "wake", "idle")
    /\ finis' = [finis EXCEPT ![arg[p]] = @ + 1]
    /\ UNCHANGED <<free_nodes, wakeup, ring, arg, node_index, ticket, consumer,
                   posted, execs, history>>

\* Any other errno is an error to the caller, but *queued is already true: the
\* loop owns the job and post_job leaves its context alone.
WakeFails(p) ==
    /\ "write" \in Faults
    /\ Goto(p, "wake", "idle")
    /\ UNCHANGED <<free_nodes, wakeup, ring, arg, node_index, ticket, consumer,
                   fates, history>>

Push(p) == Acquire(p) \/ Claim(p) \/ Store(p) \/ SetReady(p) \/ Count(p) \/ Wake(p)

-----------------------------------------------------------------------------
(* autk_job_queue_try_pop() and autk_posix_job_queue_poll(), on the loop's thread *)

LoopGoto(from, to) == loop = from /\ loop' = to

\* Slip: try_pop looks at the node without asking the counter.
PopUncounted ==
    /\ LoopGoto("check", "ready")
    /\ UNCHANGED <<free_nodes, wakeup, ring, producer, out_job, fates, history>>

\* QUEUE_EMPTY unless the counter announces a job.
PopCheck ==
    /\ loop = "check"
    /\ loop' = IF n_queued_jobs = 0 THEN "work" ELSE "ready"
    /\ UNCHANGED <<free_nodes, wakeup, ring, producer, out_job, fates, history>>

\* Slip: a counted job is taken for a ready one.
PopUnready ==
    /\ LoopGoto("ready", "take")
    /\ UNCHANGED <<free_nodes, wakeup, ring, producer, out_job, fates, history>>

\* TRY_AGAIN unless the job in front, the only one that may be taken, is ready.
PopReady ==
    /\ loop = "ready"
    /\ loop' = IF node_ready[nodes_front] THEN "take" ELSE "work"
    /\ UNCHANGED <<free_nodes, wakeup, ring, producer, out_job, fates, history>>

PopTake ==
    /\ LoopGoto("take", "clear")
    /\ out_job' = node_job[nodes_front]
    /\ UNCHANGED <<free_nodes, wakeup, ring, producer, fates, history>>

\* ready is cleared and nodes_front, which no producer reads, moves on.
PopClear ==
    /\ LoopGoto("clear", "uncount")
    /\ node_ready' = [node_ready EXCEPT ![nodes_front] = FALSE]
    /\ nodes_front' = (nodes_front + 1) % MAX
    /\ popped' = Append(popped, out_job)
    /\ UNCHANGED <<free_nodes, wakeup, nodes_back, n_queued_jobs, node_job,
                   producer, out_job, fates, claims, leaked>>

PopUncount ==
    /\ LoopGoto("uncount", "release")
    /\ n_queued_jobs' = n_queued_jobs - 1
    /\ UNCHANGED <<free_nodes, wakeup, nodes_back, nodes_front, node_job,
                   node_ready, producer, out_job, fates, history>>

PopRelease ==
    /\ LoopGoto("release", "exec")
    /\ free_nodes' = free_nodes + 1
    /\ UNCHANGED <<wakeup, ring, producer, out_job, fates, history>>

\* sem_post fails: logged as "Message producers may freeze", the pop succeeds.
PopReleaseFails ==
    /\ "sem_post" \in Faults
    /\ LoopGoto("release", "exec")
    /\ leaked' = leaked + 1
    /\ UNCHANGED <<free_nodes, wakeup, ring, producer, out_job, fates, claims, popped>>

\* The loop runs the job, releases its context and pops again.
Exec ==
    /\ LoopGoto("exec", "check")
    /\ execs' = [execs EXCEPT ![out_job] = @ + 1]
    /\ finis' = [finis EXCEPT ![out_job] = @ + 1]
    /\ UNCHANGED <<free_nodes, wakeup, ring, producer, out_job, posted, history>>

\* Events, callbacks and redrawing, between the last failed pop and the poll.
Work ==
    /\ LoopGoto("work", "poll")
    /\ UNCHANGED <<free_nodes, wakeup, ring, producer, out_job, fates, history>>

PollWakeup ==
    /\ LoopGoto("poll", "drain")
    /\ wakeup > 0
    /\ UNCHANGED <<free_nodes, wakeup, ring, producer, out_job, fates, history>>

\* poll returns for the display's descriptor, or with EINTR.  It may also fail and
\* make autk_x11_client_run return; the application's next run starts at the same
\* place, as does one after a pipe that cannot be read (DrainEnd).
PollOther ==
    /\ LoopGoto("poll", "check")
    /\ UNCHANGED <<free_nodes, wakeup, ring, producer, out_job, fates, history>>

DrainRead ==
    /\ loop = "drain"
    /\ wakeup > 0
    /\ wakeup' = IF wakeup > ReadSize THEN wakeup - ReadSize ELSE 0
    /\ UNCHANGED <<free_nodes, ring, producer, consumer, fates, history>>

\* EAGAIN on an empty pipe, or EINTR with bytes left in it.
DrainEnd ==
    /\ LoopGoto("drain", "check")
    /\ UNCHANGED <<free_nodes, wakeup, ring, producer, out_job, fates, history>>

Pop == PopCheck \/ PopReady \/ PopTake \/ PopClear \/ PopUncount \/ PopRelease \/ Exec
Poll == Work \/ PollWakeup \/ DrainRead \/ DrainEnd

-----------------------------------------------------------------------------
Next ==
    \/ \E p \in Producers : Post(p) \/ Push(p) \/ AcquireFails(p) \/ WakeFails(p)
    \/ Pop \/ PopReleaseFails
    \/ Poll \/ PollOther

Spec == Init /\ [][Next]_vars

\* The threads are scheduled.  Nothing makes applications post, calls fail or
\* the display become readable.
Fairness ==
    /\ \A p \in Producers : WF_vars(Push(p))
    /\ WF_vars(Pop \/ Poll)
FairSpec == Spec /\ Fairness

-----------------------------------------------------------------------------
(* Properties *)

\* Producers that hold a node: its number is fixed, its job not yet announced.
Writers == {p \in Producers : pc[p] \in {"store", "publish"}}

\* Producers that hold a permit and no node yet.
Claimers == {p \in Producers : pc[p] = "claim"}

\* Every variable has its type; n_queued_jobs, an unsigned counter that
\* producers raise only after the consumer may have taken the job, stays above
\* zero wherever try_pop is about to lower it.
TypeOK ==
    /\ free_nodes \in Nat /\ wakeup \in 0 .. PipeCapacity
    /\ nodes_back \in 0 .. Wrap - 1 /\ nodes_front \in Slots
    /\ n_queued_jobs \in Nat
    /\ loop \in {"ready", "take", "clear", "uncount"} => n_queued_jobs > 0
    /\ node_job \in [Slots -> Jobs \cup {NoJob}]
    /\ node_ready \in [Slots -> BOOLEAN]
    /\ pc \in [Producers -> PushStates]
    /\ arg \in [Producers -> Jobs \cup {NoJob}]
    /\ \A p \in Producers : pc[p] # "idle" => arg[p] \in Jobs
    /\ node_index \in [Producers -> Slots]
    /\ ticket \in [Producers -> Nat]
    /\ loop \in LoopStates
    /\ out_job \in Jobs \cup {NoJob}
    /\ posted \subseteq Jobs
    /\ execs \in [Jobs -> Nat] /\ finis \in [Jobs -> Nat]
    /\ claims \in Seq(Jobs) /\ popped \in Seq(Jobs \cup {NoJob}) /\ leaked \in Nat

\* A node belongs to one thread at a time: two pushes never fill the same
\* node, a push never fills a node whose job is still to be popped, and the
\* loop reads only a node whose push is complete (do_push and try_pop touch
\* node->job without a lock).
SlotExclusive ==
    /\ \A p, q \in Writers : p # q => node_index[p] # node_index[q]
    /\ \A p \in Writers : ~node_ready[node_index[p]]
    /\ loop \in {"take", "clear"} => node_ready[nodes_front]

\* Jobs come out in the order in which nodes_back was incremented, none lost,
\* none twice, across every wrap of the ring and of the counter.
FifoOrder ==
    /\ Len(popped) <= Len(claims)
    /\ \A i \in 1 .. Len(popped) : popped[i] = claims[i]

\* Every permit of the semaphore is accounted for: free, held by a push that
\* has yet to claim, standing for a claimed node, about to be released by the
\* loop, or lost to a failed sem_post.  No path of try_push, push or try_pop
\* takes or returns one too many.
PermitConservation ==
    free_nodes + Cardinality(Claimers)
      + (Len(claims) - Len(popped))
      + (IF loop \in {"uncount", "release"} THEN 1 ELSE 0) + leaked = MAX

\* n_queued_jobs never announces a job that is not there: it counts the nodes
\* that are ready, less those whose push has still to count its job, plus the
\* one the loop has emptied and not yet subtracted.
CountAccurate ==
    n_queued_jobs + Cardinality({p \in Producers : pc[p] = "count"})
      = Cardinality({s \in Slots : node_ready[s]}) + (IF loop = "uncount" THEN 1 ELSE 0)

\* The loop never goes to sleep on a job it could run: past its last failed
\* pop, if the job in front has become ready and is counted, a byte is in the
\* pipe or a push is still on its way to write one.  (A failed write breaks it.)
NoLostWakeup ==
    /\ "write" \notin Faults
    /\ loop \in {"work", "poll"}
    /\ n_queued_jobs > 0
    /\ node_ready[nodes_front]
    => wakeup > 0 \/ \E p \in Producers : pc[p] \in {"count", "wake"}

\* A job's context is released at most once, never while the job is still in
\* the ring, and always after its execution: post_job and the loop agree on
\* who owns it, also when sem_wait or the wakeup fails.
FiniOnce ==
    \A j \in Jobs :
        /\ execs[j] <= finis[j] /\ finis[j] <= 1
        /\ j \in Range(claims) \ Range(popped) => finis[j] = 0

\* Why the ring is sound.  Number the claims from zero: the tickets between the
\* pops and the claims are outstanding, each lives in the node its number gives,
\* and the node is ready exactly when no push is still filling it.
Tickets == Len(popped) .. Len(claims) - 1

Indexes ==
    /\ Len(popped) <= Len(claims)
    /\ nodes_back = Len(claims) % Wrap
    /\ nodes_front = Len(popped) % MAX

WriterTickets ==
    /\ \A p \in Writers : /\ ticket[p] \in Tickets
                          /\ node_index[p] = ticket[p] % MAX
                          /\ claims[ticket[p] + 1] = arg[p]
                          /\ pc[p] = "publish" => node_job[node_index[p]] = arg[p]
    /\ \A p, q \in Writers : p # q => ticket[p] # ticket[q]

Nodes ==
    /\ \A t \in Tickets : /\ node_ready[t % MAX] <=> \A p \in Writers : ticket[p] # t
                          /\ node_ready[t % MAX] => node_job[t % MAX] = claims[t + 1]
    /\ \A s \in Slots : node_ready[s] => \E t \in Tickets : t % MAX = s

PopProgress ==
    /\ loop \in {"take", "clear"} => node_ready[nodes_front]
    /\ loop = "clear" => out_job = node_job[nodes_front]

\* Together these are preserved by every step, and they imply SlotExclusive.
RingInv ==
    /\ PermitConservation
    /\ Indexes /\ WriterTickets /\ Nodes /\ PopProgress
    /\ FifoOrder

\* A job that has claimed its node is executed, whatever the other producers do.
ClaimedIsExecuted ==
    \A j \in Jobs : j \in Range(claims) ~> execs[j] = 1

\* The queue is a bounded line of jobs.
Line == INSTANCE JobLine WITH
            Places    <- MAX,
            line      <- SubSeq(claims, Len(popped) + 1, Len(claims)),
            published <- Range(claims) \ {arg[p] : p \in Writers},
            served    <- popped
LineSpec == Line!Spec
=============================================================================
