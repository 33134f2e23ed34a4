------------------------------ MODULE JobLine ------------------------------
(***************************************************************************)
(* What the job queue of src/utility/job_queue.c promises its users: a     *)
(* bounded line of jobs.  A job takes a place in the line, is published    *)
(* when its contents are visible, and the job at the head is served once   *)
(* it is published.  Places are taken and served in the same order, so a   *)
(* job that is slow to be published holds back the jobs behind it.         *)
(* JobQueue refines this specification, and X11Loop is written over it.    *)
(***************************************************************************)
EXTENDS Naturals, Sequences, Functions

CONSTANTS Jobs,      \* the jobs that may be posted
          Places     \* AUTK_JOB_QUEUE_MAX

VARIABLES line,      \* jobs that hold a place, oldest first
          published, \* jobs whose push has made them visible
          served     \* jobs handed to the consumer, oldest first

vars == <<line, published, served>>

Init == line = <<>> /\ published = {} /\ served = <<>>

\* A producer obtains a place; a job enters once in its life.
Enter(j) ==
    /\ Len(line) < Places
    /\ j \notin Range(line) \cup Range(served)
    /\ line' = Append(line, j)
    /\ UNCHANGED <<published, served>>

Publish(j) ==
    /\ j \in Range(line) \ published
    /\ published' = published \cup {j}
    /\ UNCHANGED <<line, served>>

Serve ==
    /\ line # <<>>
    /\ Head(line) \in published
    /\ line' = Tail(line)
    /\ served' = Append(served, Head(line))
    /\ UNCHANGED published

Next == Serve \/ \E j \in Jobs : Enter(j) \/ Publish(j)

\* A published head is eventually served, whatever the producers do next.
Spec == Init /\ [][Next]_vars /\ WF_vars(Serve)
=============================================================================
