--------------------------- MODULE JobQueueProofs ---------------------------
(***************************************************************************)
(* Theorems about JobQueue, for any number of threads and jobs, any ring   *)
(* size and pipe capacity, and every combination of failing calls.         *)
(***************************************************************************)
EXTENDS JobQueue, NumberLemmas, FiniteSetTheorems

\* The counter's range is not empty.
LEMMA WrapPositive == MAX \in Nat \ {0} /\ Wrap \in Nat \ {0}
<1>1. MAX \in Nat \ {0} BY RingAssumption
<1>2. PICK k \in 1 .. Wrap : Wrap = k * MAX BY RingAssumption
<1>3. Wrap \in Nat BY RingAssumption
<1>4. Wrap # 0 BY <1>2, <1>3
<1>5. QED BY <1>1, <1>3, <1>4

\* Type correctness is inductive by itself: no step of a push, of the pop or of
\* the poll leaves the types, and the counter is positive from the check of
\* try_pop to its decrement because only the consumer lowers it.
LEMMA TypeInit == Init => TypeOK
BY WrapPositive, PipeAssumption, ThreadAssumption
   DEF Init, TypeOK, PushStates, LoopStates, Slots

\* Each step of a push or of its failure paths keeps the types.
LEMMA TypePush ==
    ASSUME TypeOK, NEW p \in Producers,
           Post(p) \/ Push(p) \/ AcquireFails(p) \/ WakeFails(p)
    PROVE  TypeOK'
<1> USE DEF TypeOK, Goto, PushStates
<1>1. CASE Post(p)
  BY <1>1 DEF Post, ring, consumer, history
<1>2. CASE Acquire(p)
  BY <1>2 DEF Acquire, ring, consumer, fates, history
<1>3. CASE AcquireFails(p)
  BY <1>3 DEF AcquireFails, ring, consumer, history
<1>4. CASE Claim(p)
  <2>1. nodes_back % MAX \in Slots /\ (nodes_back + 1) % Wrap \in 0 .. Wrap - 1
    BY WrapPositive, DivMod DEF Slots
  <2>2. arg[p] \in Jobs /\ Len(claims) \in Nat
    BY <1>4 DEF Claim
  <2>3. QED BY <1>4, <2>1, <2>2 DEF Claim, consumer, fates
<1>5. CASE Store(p)
  BY <1>5 DEF Store, consumer, fates, history
<1>6. CASE SetReady(p)
  BY <1>6 DEF SetReady, consumer, fates, history
<1>7. CASE Count(p)
  BY <1>7 DEF Count, consumer, fates, history
<1>8. CASE Wake(p)
  BY <1>8, PipeAssumption DEF Wake, ring, consumer, fates, history
<1>9. CASE WakeFails(p)
  BY <1>9 DEF WakeFails, ring, consumer, fates, history
<1>10. QED
  BY <1>1, <1>2, <1>3, <1>4, <1>5, <1>6, <1>7, <1>8, <1>9 DEF Push

\* Each step of try_pop, of the execution and of the poll keeps the types.
LEMMA TypeLoop ==
    ASSUME TypeOK, Pop \/ PopReleaseFails \/ Poll \/ PollOther
    PROVE  TypeOK'
<1> USE DEF TypeOK, LoopGoto, LoopStates
<1>1. CASE PopCheck
  BY <1>1 DEF PopCheck, ring, producer, fates, history
<1>2. CASE PopReady
  BY <1>2 DEF PopReady, ring, producer, fates, history
<1>3. CASE PopTake
  BY <1>3 DEF PopTake, ring, producer, fates, history
<1>4. CASE PopClear
  <2>1. (nodes_front + 1) % MAX \in Slots
    BY WrapPositive, DivMod DEF Slots
  <2>2. QED BY <1>4, <2>1 DEF PopClear, producer, fates
<1>5. CASE PopUncount
  BY <1>5 DEF PopUncount, producer, fates, history
<1>6. CASE PopRelease
  BY <1>6 DEF PopRelease, ring, producer, fates, history
<1>7. CASE PopReleaseFails
  BY <1>7 DEF PopReleaseFails, ring, producer, fates
<1>8. CASE Exec
  <2>1. \A f \in [Jobs -> Nat] : [f EXCEPT ![out_job] = f[out_job] + 1] \in [Jobs -> Nat]
    <3> SUFFICES ASSUME NEW f \in [Jobs -> Nat]
                 PROVE  [f EXCEPT ![out_job] = f[out_job] + 1] \in [Jobs -> Nat]
      OBVIOUS
    <3>1. CASE out_job \in Jobs
      BY <3>1
    <3>2. CASE out_job \notin Jobs
      <4>1. [f EXCEPT ![out_job] = f[out_job] + 1] = f
        BY <3>2
      <4>2. QED BY <4>1
    <3>3. QED BY <3>1, <3>2
  <2>2. QED BY <1>8, <2>1 DEF Exec, ring, producer, history
<1>9. CASE Work \/ PollWakeup \/ PollOther \/ DrainEnd
  BY <1>9 DEF Work, PollWakeup, PollOther, DrainEnd, ring, producer, fates, history
<1>10. CASE DrainRead
  BY <1>10, PipeAssumption DEF DrainRead, ring, producer, consumer, fates, history
<1>11. QED
  BY <1>1, <1>2, <1>3, <1>4, <1>5, <1>6, <1>7, <1>8, <1>9, <1>10 DEF Pop, Poll

\* The types hold throughout, and n_queued_jobs is never lowered below zero.
THEOREM TypeCorrect == Spec => []TypeOK
<1>1. TypeOK /\ UNCHANGED vars => TypeOK'
  BY DEF TypeOK, vars, ring, producer, consumer, fates, history
<1>2. TypeOK /\ [Next]_vars => TypeOK'
  BY <1>1, TypePush, TypeLoop DEF Next
<1>3. QED BY TypeInit, <1>2, PTL DEF Spec

-----------------------------------------------------------------------------
(* The semaphore *)

\* The pushes that hold a permit can be counted.
LEMMA ClaimersFinite ==
    /\ IsFiniteSet(Claimers) /\ Cardinality(Claimers) \in Nat
    /\ IsFiniteSet(Claimers') /\ Cardinality(Claimers') \in Nat
BY ThreadAssumption, FS_Subset, FS_CardinalityType DEF Claimers

\* PermitConservation is inductive given the types: a permit moves from the
\* semaphore to a push, from the push to a node, from the node to the loop and
\* from the loop back to the semaphore, one step at a time.
LEMMA PermitInit == Init => PermitConservation
<1> SUFFICES ASSUME Init PROVE PermitConservation
  OBVIOUS
<1>1. Claimers = {}
  BY DEF Init, Claimers
<1>2. Cardinality(Claimers) = 0 /\ Len(claims) = 0 /\ Len(popped) = 0
  BY <1>1, FS_EmptySet DEF Init
<1>3. QED BY <1>2, WrapPositive DEF Init, PermitConservation

\* A push takes one permit, carries it to its node, or gives up without one.
LEMMA PermitPush ==
    ASSUME TypeOK, PermitConservation, NEW p \in Producers,
           Post(p) \/ Push(p) \/ AcquireFails(p) \/ WakeFails(p)
    PROVE  PermitConservation'
<1> USE DEF Goto
<1>0. /\ Len(claims) \in Nat /\ Len(popped) \in Nat /\ free_nodes \in Nat
      /\ leaked \in Nat /\ MAX \in Nat
  BY WrapPositive DEF TypeOK
<1>1. CASE Acquire(p)
  <2>1. Claimers' = Claimers \cup {p} /\ p \notin Claimers
    BY <1>1 DEF Acquire, Claimers, TypeOK
  <2>2. Cardinality(Claimers') = Cardinality(Claimers) + 1
    BY <2>1, ClaimersFinite, FS_AddElement
  <2>3. QED
    BY <1>0, <1>1, <2>2, ClaimersFinite
       DEF Acquire, PermitConservation, TypeOK, consumer, history
<1>2. CASE Claim(p)
  <2>1. Claimers' = Claimers \ {p} /\ p \in Claimers
    BY <1>2 DEF Claim, Claimers, TypeOK
  <2>2. Cardinality(Claimers') = Cardinality(Claimers) - 1
    BY <2>1, ClaimersFinite, FS_RemoveElement
  <2>3. Len(claims') = Len(claims) + 1
    BY <1>2 DEF Claim, TypeOK
  <2>4. QED
    BY <1>0, <1>2, <2>2, <2>3, ClaimersFinite
       DEF Claim, PermitConservation, consumer
<1>3. CASE Post(p) \/ AcquireFails(p) \/ Store(p) \/ SetReady(p) \/ Count(p)
           \/ Wake(p) \/ WakeFails(p)
  <2>1. Claimers' = Claimers
    BY <1>3 DEF Post, AcquireFails, Store, SetReady, Count, Wake, WakeFails,
                Claimers, TypeOK
  <2>2. UNCHANGED <<free_nodes, claims, popped, leaked, loop>>
    BY <1>3 DEF Post, AcquireFails, Store, SetReady, Count, Wake, WakeFails,
                consumer, history
  <2>3. QED BY <2>1, <2>2 DEF PermitConservation
<1>4. QED BY <1>1, <1>2, <1>3 DEF Push

\* A pop takes the permit over from its node and gives it back, or leaks it.
LEMMA PermitLoop ==
    ASSUME TypeOK, PermitConservation, Pop \/ PopReleaseFails \/ Poll \/ PollOther
    PROVE  PermitConservation'
<1> USE DEF LoopGoto
<1>0. /\ Len(claims) \in Nat /\ Len(popped) \in Nat /\ free_nodes \in Nat
      /\ leaked \in Nat /\ MAX \in Nat
  BY WrapPositive DEF TypeOK
<1>1. Claimers' = Claimers
  BY DEF Pop, PopCheck, PopReady, PopTake, PopClear, PopUncount, PopRelease, Exec,
         PopReleaseFails, Poll, Work, PollWakeup, DrainRead, DrainEnd, PollOther,
         producer, Claimers
<1>2. CASE PopClear
  <2>1. Len(popped') = Len(popped) + 1
    BY <1>2 DEF PopClear, TypeOK
  <2>2. QED
    BY <1>0, <1>1, <1>2, <2>1, ClaimersFinite DEF PopClear, PermitConservation
<1>3. CASE PopRelease
  BY <1>0, <1>1, <1>3, ClaimersFinite
     DEF PopRelease, PermitConservation, history
<1>4. CASE PopReleaseFails
  BY <1>0, <1>1, <1>4, ClaimersFinite DEF PopReleaseFails, PermitConservation
<1>5. CASE PopCheck \/ PopReady \/ PopTake \/ PopUncount \/ Exec \/ Poll \/ PollOther
  <2>1. UNCHANGED <<free_nodes, claims, popped, leaked>>
    BY <1>5 DEF PopCheck, PopReady, PopTake, PopUncount, Exec, Poll, Work, PollWakeup,
                DrainRead, DrainEnd, PollOther, history
  <2>2. loop' \in {"uncount", "release"} <=> loop \in {"uncount", "release"}
    BY <1>5 DEF PopCheck, PopReady, PopTake, PopUncount, Exec, Poll, Work, PollWakeup,
                DrainRead, DrainEnd, PollOther, consumer
  <2>3. QED BY <1>1, <2>1, <2>2 DEF PermitConservation
<1>6. QED BY <1>2, <1>3, <1>4, <1>5 DEF Pop

\* No path through try_push, push or try_pop loses a permit or makes one.
THEOREM PermitsConserved == Spec => []PermitConservation
<1>1. PermitConservation /\ UNCHANGED vars => PermitConservation'
  BY DEF PermitConservation, Claimers, vars, producer, consumer, history
<1>2. TypeOK /\ PermitConservation /\ [Next]_vars => PermitConservation'
  BY <1>1, PermitPush, PermitLoop DEF Next
<1>3. QED BY PermitInit, <1>2, TypeCorrect, PTL DEF Spec

-----------------------------------------------------------------------------
(* The wakeup pipe *)

\* NoLostWakeup is inductive given the types.  A push makes the job ready, then
\* counts it, then writes, so between the first and the last it is itself the
\* promise of a byte; and the loop reaches "work" only by finding, after it
\* drained the pipe, that no job is counted or that the one in front is not ready.
LEMMA WakeupStep ==
    ASSUME TypeOK, NoLostWakeup, [Next]_vars
    PROVE  NoLostWakeup'
<1> SUFFICES ASSUME "write" \notin Faults, loop' \in {"work", "poll"},
                    n_queued_jobs' > 0, node_ready'[nodes_front']
             PROVE  wakeup' > 0 \/ \E p \in Producers : pc'[p] \in {"count", "wake"}
  BY DEF NoLostWakeup
<1> USE DEF Goto, LoopGoto, TypeOK
<1>1. ASSUME NEW p \in Producers, Post(p) \/ Acquire(p) \/ AcquireFails(p) \/ Claim(p) \/ Store(p)
      PROVE  wakeup' > 0 \/ \E q \in Producers : pc'[q] \in {"count", "wake"}
  <2>1. UNCHANGED <<n_queued_jobs, node_ready, nodes_front, loop, wakeup>>
    BY <1>1 DEF Post, Acquire, AcquireFails, Claim, Store, ring, consumer
  <2>2. \A q \in Producers : pc[q] \in {"count", "wake"} => pc'[q] = pc[q]
    BY <1>1 DEF Post, Acquire, AcquireFails, Claim, Store
  <2>3. QED BY <2>1, <2>2 DEF NoLostWakeup
<1>2. ASSUME NEW p \in Producers, SetReady(p) \/ Count(p)
      PROVE  \E q \in Producers : pc'[q] \in {"count", "wake"}
  BY <1>2 DEF SetReady, Count
<1>3. ASSUME NEW p \in Producers, Wake(p)
      PROVE  wakeup' > 0
  BY <1>3, PipeAssumption DEF Wake
<1>4. ASSUME NEW p \in Producers, WakeFails(p)
      PROVE  FALSE
  BY <1>4 DEF WakeFails
<1>5. CASE PopCheck \/ PopReady
  <2>1. loop' = "work" => n_queued_jobs' = 0 \/ ~node_ready'[nodes_front']
    BY <1>5 DEF PopCheck, PopReady, ring
  <2>2. loop' \in {"work", "ready", "take"}
    BY <1>5 DEF PopCheck, PopReady
  <2>3. QED BY <2>1, <2>2
<1>6. CASE Work \/ UNCHANGED vars
  <2>1. UNCHANGED <<n_queued_jobs, node_ready, nodes_front, wakeup, pc>>
    BY <1>6 DEF Work, vars, ring, producer
  <2>2. loop \in {"work", "poll"}
    BY <1>6 DEF Work, vars, consumer
  <2>3. QED BY <2>1, <2>2 DEF NoLostWakeup
<1>7. CASE \/ PopTake \/ PopClear \/ PopUncount \/ PopRelease \/ PopReleaseFails \/ Exec
           \/ PollWakeup \/ PollOther \/ DrainRead \/ DrainEnd
  <2>1. loop' \notin {"work", "poll"}
    BY <1>7 DEF PopTake, PopClear, PopUncount, PopRelease, PopReleaseFails, Exec,
                PollWakeup, PollOther, DrainRead, DrainEnd, consumer
  <2>2. QED BY <2>1
<1>8. QED
  BY <1>1, <1>2, <1>3, <1>4, <1>5, <1>6, <1>7 DEF Next, Push, Pop, Poll

\* The loop never blocks in poll on a job it could run.
THEOREM WakeupsNotLost == Spec => []NoLostWakeup
<1>1. Init => NoLostWakeup
  BY DEF Init, NoLostWakeup
<1>2. QED BY <1>1, WakeupStep, TypeCorrect, PTL DEF Spec

-----------------------------------------------------------------------------
(* The ring *)

RingCore == Indexes /\ WriterTickets /\ Nodes /\ PopProgress /\ FifoOrder

\* The permits bound the outstanding tickets, with room for one more while a
\* push holds a permit it has not used.
LEMMA RingSize ==
    ASSUME TypeOK, PermitConservation, Indexes
    PROVE  /\ Len(claims) <= Len(popped) + MAX
           /\ \A p \in Producers : pc[p] = "claim" => Len(claims) < Len(popped) + MAX
<1>1. /\ Len(claims) \in Nat /\ Len(popped) \in Nat /\ free_nodes \in Nat
      /\ leaked \in Nat /\ MAX \in Nat /\ Cardinality(Claimers) \in Nat
  BY WrapPositive, ClaimersFinite DEF TypeOK
<1>2. Len(claims) <= Len(popped) + MAX - Cardinality(Claimers)
  BY <1>1 DEF PermitConservation
<1>3. ASSUME NEW p \in Producers, pc[p] = "claim"
      PROVE  Cardinality(Claimers) > 0
  <2>1. Claimers # {}
    BY <1>3 DEF Claimers
  <2>2. QED BY <1>1, <2>1, ClaimersFinite, FS_EmptySet
<1>4. QED BY <1>1, <1>2, <1>3

\* Two outstanding tickets never share a node.
LEMMA TicketsApart ==
    ASSUME TypeOK, Indexes, Len(claims) <= Len(popped) + MAX
    PROVE  \A t, u \in Tickets : t # u => t % MAX # u % MAX
<1> SUFFICES ASSUME NEW t \in Tickets, NEW u \in Tickets, t # u
             PROVE  t % MAX # u % MAX
  OBVIOUS
<1>1. t \in Nat /\ u \in Nat /\ t < u + MAX /\ u < t + MAX
  BY WrapPositive DEF Tickets, TypeOK
<1>2. QED BY <1>1, WrapPositive, ModDistinct

\* Steps that leave the ring alone.
LEMMA RingFrame ==
    ASSUME RingCore,
           UNCHANGED <<nodes_back, nodes_front, node_job, node_ready, node_index,
                       ticket, claims, popped, out_job>>,
           Writers' = Writers,
           \A p \in Writers : pc'[p] = pc[p] /\ arg'[p] = arg[p],
           loop' \in {"take", "clear"} => loop' = loop
    PROVE  RingCore'
<1>1. Tickets' = Tickets
  BY DEF Tickets
<1>2. QED
  BY <1>1 DEF RingCore, Indexes, WriterTickets, Nodes, PopProgress, FifoOrder

\* Claiming a node: the permit in hand says that the next node is a free one.
LEMMA RingClaim ==
    ASSUME TypeOK, PermitConservation, RingCore, NEW p \in Producers, Claim(p)
    PROVE  RingCore'
<1> DEFINE T == Len(claims)
<1> USE DEF RingCore
<1>1. /\ T \in Nat /\ Len(popped) \in Nat /\ Len(popped) <= T
      /\ T < Len(popped) + MAX
  BY RingSize DEF Claim, Goto, TypeOK, Indexes
<1>2. /\ Len(claims') = T + 1 /\ claims'[T + 1] = arg[p]
      /\ \A t \in Tickets : claims'[t + 1] = claims[t + 1]
  BY <1>1 DEF Claim, TypeOK, Tickets
<1>3. /\ UNCHANGED <<nodes_front, node_job, node_ready, arg, loop, out_job, popped>>
      /\ ticket' = [ticket EXCEPT ![p] = T]
  BY DEF Claim, consumer
<1>4. Tickets' = Tickets \cup {T} /\ T \notin Tickets
  BY <1>1, <1>2, <1>3 DEF Tickets
<1>5. Writers' = Writers \cup {p} /\ p \notin Writers /\ pc'[p] = "store"
  BY DEF Claim, Goto, Writers, TypeOK
<1>6. \A q \in Writers : /\ q \in Producers /\ q # p /\ pc'[q] = pc[q]
                         /\ ticket'[q] = ticket[q] /\ node_index'[q] = node_index[q]
  BY <1>5 DEF Claim, Goto, Writers, TypeOK
<1>7. ticket'[p] = T
  BY DEF Claim, TypeOK
<1>8. /\ nodes_back' = (T + 1) % Wrap
      /\ node_index'[p] = T % MAX
  <2>1. PICK k \in Nat \ {0} : Wrap = k * MAX
    <3>1. PICK k \in 1 .. Wrap : Wrap = k * MAX
      BY RingAssumption
    <3>2. k \in Nat \ {0}
      BY <3>1, WrapPositive
    <3>3. QED BY <3>1, <3>2
  <2>2. nodes_back = T % Wrap
    BY DEF Indexes
  <2>3. (T % Wrap) % MAX = T % MAX
    BY <1>1, <2>1, WrapPositive, ModMod
  <2>4. ((T % Wrap) + 1) % Wrap = (T + 1) % Wrap
    BY <1>1, WrapPositive, ModSucc
  <2>5. QED BY <2>2, <2>3, <2>4 DEF Claim, TypeOK
<1>9. \A t \in Tickets : t \in Nat /\ t % MAX # T % MAX
  <2> SUFFICES ASSUME NEW t \in Tickets PROVE t \in Nat /\ t % MAX # T % MAX
    OBVIOUS
  <2>1. t \in Nat /\ t < T /\ T < t + MAX
    BY <1>1, WrapPositive DEF Tickets
  <2>2. t < T + MAX /\ t # T
    BY <1>1, <2>1, WrapPositive
  <2> HIDE DEF T
  <2>3. QED BY <1>1, <2>1, <2>2, WrapPositive, ModDistinct
<1>10. T % MAX \in Slots /\ ~node_ready[T % MAX]
  <2>1. T % MAX \in Slots
    BY <1>1, WrapPositive, DivMod DEF Slots
  <2>2. QED BY <1>9, <2>1 DEF Nodes
<1> HIDE DEF T
<1>11. Indexes'
  BY <1>1, <1>2, <1>3, <1>8 DEF Indexes
<1>12. WriterTickets'
  <2>1. ASSUME NEW q \in Writers'
        PROVE  /\ ticket'[q] \in Tickets'
               /\ node_index'[q] = ticket'[q] % MAX
               /\ claims'[ticket'[q] + 1] = arg'[q]
               /\ pc'[q] = "publish" => node_job'[node_index'[q]] = arg'[q]
    <3>1. CASE q = p
      BY <1>2, <1>3, <1>4, <1>5, <1>7, <1>8, <3>1
    <3>2. CASE q \in Writers
      BY <1>2, <1>3, <1>4, <1>6, <3>2 DEF WriterTickets
    <3>3. QED BY <1>5, <2>1, <3>1, <3>2
  <2>2. ASSUME NEW q \in Writers', NEW r \in Writers', q # r
        PROVE  ticket'[q] # ticket'[r]
    BY <1>4, <1>5, <1>6, <1>7, <2>2 DEF WriterTickets
  <2>3. QED BY <2>1, <2>2 DEF WriterTickets
<1>13. Nodes'
  <2>1. ASSUME NEW t \in Tickets
        PROVE  /\ node_ready'[t % MAX] <=> \A q \in Writers' : ticket'[q] # t
               /\ node_ready'[t % MAX] => node_job'[t % MAX] = claims'[t + 1]
    <3>1. (\A q \in Writers' : ticket'[q] # t) <=> \A q \in Writers : ticket[q] # t
      BY <1>4, <1>5, <1>6, <1>7
    <3>2. QED BY <1>2, <1>3, <3>1 DEF Nodes
  <2>2. /\ ~node_ready'[T % MAX]
        /\ p \in Writers' /\ ticket'[p] = T
    BY <1>3, <1>5, <1>7, <1>10
  <2>3. \A s \in Slots : node_ready'[s] => \E t \in Tickets' : t % MAX = s
    BY <1>3, <1>4 DEF Nodes
  <2>4. QED BY <1>4, <2>1, <2>2, <2>3 DEF Nodes
<1>14. PopProgress'
  BY <1>3 DEF PopProgress
<1>15. FifoOrder'
  <2>1. \A i \in 1 .. Len(popped) : claims'[i] = claims[i]
    BY <1>1 DEF Claim, TypeOK, T
  <2>2. QED BY <1>1, <1>2, <1>3, <2>1 DEF FifoOrder
<1>16. QED BY <1>11, <1>12, <1>13, <1>14, <1>15

\* Filling a node: no other push and no other ticket is there.
LEMMA RingStore ==
    ASSUME TypeOK, PermitConservation, RingCore, NEW p \in Producers, Store(p)
    PROVE  RingCore'
<1> USE DEF RingCore
<1>1. /\ p \in Writers /\ Writers' = Writers
      /\ \A q \in Writers : q # p => pc'[q] = pc[q]
  BY DEF Store, Goto, Writers, TypeOK
<1>2. /\ UNCHANGED <<nodes_back, nodes_front, node_ready, node_index, ticket, arg,
                      claims, popped, loop, out_job>>
      /\ node_job' = [node_job EXCEPT ![node_index[p]] = arg[p]]
  BY DEF Store, consumer, history
<1>3. Tickets' = Tickets
  BY <1>2 DEF Tickets
<1>4. \A t, u \in Tickets : t # u => t % MAX # u % MAX
  BY RingSize, TicketsApart
<1>5. /\ ticket[p] \in Tickets /\ node_index[p] = ticket[p] % MAX
      /\ ~node_ready[node_index[p]]
  BY <1>1 DEF WriterTickets, Nodes
<1>6. node_index[p] \in Slots /\ node_job'[node_index[p]] = arg[p]
  BY <1>2 DEF TypeOK
<1>7. \A s : s # node_index[p] => node_job'[s] = node_job[s]
  BY <1>2 DEF TypeOK
<1>8. \A q \in Writers : q # p => node_index[q] # node_index[p]
  BY <1>1, <1>4 DEF WriterTickets
<1>9. WriterTickets'
  BY <1>1, <1>2, <1>3, <1>6, <1>7, <1>8 DEF WriterTickets
<1>10. Nodes'
  BY <1>1, <1>2, <1>3, <1>5, <1>7 DEF Nodes
<1>11. PopProgress'
  BY <1>2, <1>5, <1>7 DEF PopProgress
<1>12. QED BY <1>2, <1>9, <1>10, <1>11 DEF Indexes, FifoOrder

\* Publishing a node: its ticket is the only one there, and the job is in it.
LEMMA RingSetReady ==
    ASSUME TypeOK, PermitConservation, RingCore, NEW p \in Producers, SetReady(p)
    PROVE  RingCore'
<1> USE DEF RingCore
<1>1. /\ p \in Writers /\ pc[p] = "publish" /\ Writers' = Writers \ {p}
      /\ \A q \in Writers' : pc'[q] = pc[q]
  BY DEF SetReady, Goto, Writers, TypeOK
<1>2. /\ UNCHANGED <<nodes_back, nodes_front, node_job, node_index, ticket, arg,
                      claims, popped, loop, out_job>>
      /\ node_ready' = [node_ready EXCEPT ![node_index[p]] = TRUE]
  BY DEF SetReady, consumer, history
<1>3. Tickets' = Tickets
  BY <1>2 DEF Tickets
<1>4. \A t, u \in Tickets : t # u => t % MAX # u % MAX
  BY RingSize, TicketsApart
<1>5. /\ ticket[p] \in Tickets /\ node_index[p] = ticket[p] % MAX
      /\ node_job[node_index[p]] = claims[ticket[p] + 1]
      /\ \A q \in Writers : q # p => ticket[q] # ticket[p]
  BY <1>1 DEF WriterTickets
<1>6. node_index[p] \in Slots /\ node_ready'[node_index[p]]
  BY <1>2 DEF TypeOK
<1>7. \A s : s # node_index[p] => node_ready'[s] = node_ready[s]
  BY <1>2 DEF TypeOK
<1>8. WriterTickets'
  BY <1>1, <1>2, <1>3 DEF WriterTickets
<1>9. Nodes'
  <2>1. ASSUME NEW t \in Tickets
        PROVE  /\ node_ready'[t % MAX] <=> \A q \in Writers' : ticket'[q] # t
               /\ node_ready'[t % MAX] => node_job'[t % MAX] = claims'[t + 1]
    <3>1. CASE t = ticket[p]
      BY <1>1, <1>2, <1>5, <1>6, <3>1
    <3>2. CASE t # ticket[p]
      <4>1. node_ready'[t % MAX] = node_ready[t % MAX]
        BY <1>4, <1>5, <1>7, <3>2
      <4>2. (\A q \in Writers' : ticket'[q] # t) <=> \A q \in Writers : ticket[q] # t
        BY <1>1, <1>2, <3>2
      <4>3. QED BY <1>2, <4>1, <4>2 DEF Nodes
    <3>3. QED BY <3>1, <3>2
  <2>2. \A s \in Slots : node_ready'[s] => \E t \in Tickets : t % MAX = s
    BY <1>5, <1>7 DEF Nodes
  <2>3. QED BY <1>3, <2>1, <2>2 DEF Nodes
<1>10. PopProgress'
  BY <1>2, <1>6, <1>7 DEF PopProgress
<1>11. QED BY <1>2, <1>8, <1>9, <1>10 DEF Indexes, FifoOrder

\* The front node, when ready, holds the oldest outstanding ticket's job.
LEMMA FrontTicket ==
    ASSUME TypeOK, PermitConservation, RingCore, node_ready[nodes_front]
    PROVE  /\ Len(popped) \in Tickets
           /\ nodes_front = Len(popped) % MAX
           /\ node_job[nodes_front] = claims[Len(popped) + 1]
           /\ \A p \in Writers : ticket[p] # Len(popped)
<1> DEFINE n == Len(popped)
<1> USE DEF RingCore
<1>1. nodes_front = n % MAX /\ nodes_front \in Slots /\ n \in Nat
  BY DEF Indexes, TypeOK
<1>2. PICK t \in Tickets : t % MAX = nodes_front
  BY <1>1 DEF Nodes
<1>3. t \in Nat /\ n <= t /\ t < n + MAX
  BY RingSize, WrapPositive DEF Tickets, TypeOK
<1>4. n = t
  <2> SUFFICES ASSUME n # t PROVE FALSE
    OBVIOUS
  <2>1. n < t + MAX
    BY <1>1, <1>3, WrapPositive
  <2> HIDE DEF n
  <2>2. n % MAX # t % MAX
    BY <1>1, <1>3, <2>1, WrapPositive, ModDistinct
  <2>3. QED BY <1>1, <1>2, <2>2
<1>5. QED BY <1>1, <1>2, <1>4 DEF Nodes

\* Emptying the front node: the outstanding tickets lose their oldest.
LEMMA RingPopClear ==
    ASSUME TypeOK, PermitConservation, RingCore, PopClear
    PROVE  RingCore'
<1> DEFINE n == Len(popped)
<1> USE DEF RingCore
<1>1. loop = "clear" /\ node_ready[nodes_front] /\ out_job = node_job[nodes_front]
  BY DEF PopClear, LoopGoto, PopProgress
<1>2. /\ n \in Tickets /\ n \in Nat /\ n < Len(claims)
      /\ nodes_front = n % MAX
      /\ out_job = claims[n + 1]
      /\ \A p \in Writers : ticket[p] # n
  BY <1>1, FrontTicket DEF Tickets, TypeOK
<1>3. /\ UNCHANGED <<nodes_back, node_job, pc, arg, node_index, ticket, claims>>
      /\ nodes_front' = (nodes_front + 1) % MAX
      /\ node_ready' = [node_ready EXCEPT ![nodes_front] = FALSE]
      /\ loop' = "uncount"
  BY DEF PopClear, LoopGoto, producer
<1>4. /\ Len(popped') = n + 1 /\ popped'[n + 1] = out_job
      /\ \A i \in 1 .. n : popped'[i] = popped[i]
  BY DEF PopClear, TypeOK
<1>5. Tickets' = Tickets \ {n}
  BY <1>2, <1>3, <1>4 DEF Tickets, TypeOK
<1>6. Writers' = Writers
  BY <1>3 DEF Writers
<1>7. \A t \in Tickets : t # n => t % MAX # n % MAX
  BY <1>2, RingSize, TicketsApart
<1>8. ~node_ready'[nodes_front] /\ \A s : s # nodes_front => node_ready'[s] = node_ready[s]
  BY <1>3 DEF TypeOK
<1>9. nodes_front' = (n + 1) % MAX
  <2> HIDE DEF n
  <2>1. ((n % MAX) + 1) % MAX = (n + 1) % MAX
    BY <1>2, WrapPositive, ModSucc
  <2>2. QED BY <1>2, <1>3, <2>1
<1> HIDE DEF n
<1>10. Indexes'
  BY <1>2, <1>3, <1>4, <1>9 DEF Indexes, TypeOK
<1>11. WriterTickets'
  BY <1>2, <1>3, <1>5, <1>6 DEF WriterTickets
<1>12. Nodes'
  <2>1. \A t \in Tickets' : node_ready'[t % MAX] = node_ready[t % MAX]
    BY <1>2, <1>5, <1>7, <1>8
  <2>2. ASSUME NEW s \in Slots, node_ready'[s]
        PROVE  \E t \in Tickets' : t % MAX = s
    <3>1. s # nodes_front /\ node_ready[s]
      BY <1>8, <2>2
    <3>2. PICK t \in Tickets : t % MAX = s
      BY <3>1 DEF Nodes
    <3>3. QED BY <1>2, <1>5, <3>1, <3>2
  <2>3. QED BY <1>3, <1>5, <1>6, <2>1, <2>2 DEF Nodes
<1>13. PopProgress'
  BY <1>3 DEF PopProgress
<1>14. FifoOrder'
  <2>1. \A i \in 1 .. n + 1 : popped'[i] = claims[i]
    <3> SUFFICES ASSUME NEW i \in 1 .. n + 1 PROVE popped'[i] = claims[i]
      OBVIOUS
    <3>1. i \in 1 .. n \/ i = n + 1
      BY <1>2
    <3>2. QED BY <1>2, <1>4, <3>1 DEF FifoOrder, n
  <2>2. QED BY <1>2, <1>3, <1>4, <2>1 DEF FifoOrder, TypeOK
<1>15. QED BY <1>10, <1>11, <1>12, <1>13, <1>14

\* Every step keeps the ring sound, given the types and the permits.
LEMMA RingStep ==
    ASSUME TypeOK, PermitConservation, RingCore, [Next]_vars
    PROVE  RingCore'
<1> USE DEF Goto, LoopGoto
<1>1. ASSUME NEW p \in Producers,
             \/ Post(p) \/ Acquire(p) \/ AcquireFails(p)
             \/ Count(p) \/ Wake(p) \/ WakeFails(p)
      PROVE  RingCore'
  <2>1. UNCHANGED <<nodes_back, nodes_front, node_job, node_ready, node_index,
                    ticket, claims, popped, out_job, loop>>
    BY <1>1 DEF Post, Acquire, AcquireFails, Count, Wake, WakeFails,
                ring, consumer, history
  <2>2. /\ Writers' = Writers
        /\ \A q \in Writers : pc'[q] = pc[q] /\ arg'[q] = arg[q]
    BY <1>1 DEF Post, Acquire, AcquireFails, Count, Wake, WakeFails, Writers, TypeOK
  <2>3. QED BY <2>1, <2>2, RingFrame
<1>2. ASSUME NEW p \in Producers, Claim(p) \/ Store(p) \/ SetReady(p)
      PROVE  RingCore'
  BY <1>2, RingClaim, RingStore, RingSetReady
<1>3. CASE \/ PopCheck \/ PopUncount \/ PopRelease \/ PopReleaseFails \/ Exec
           \/ Work \/ PollWakeup \/ PollOther \/ DrainRead \/ DrainEnd \/ UNCHANGED vars
  <2>1. /\ UNCHANGED <<nodes_back, nodes_front, node_job, node_ready, node_index,
                       ticket, claims, popped, out_job, pc, arg>>
        /\ loop' \in {"take", "clear"} => loop' = loop
    BY <1>3 DEF PopCheck, PopUncount, PopRelease, PopReleaseFails, Exec, Work,
                PollWakeup, PollOther, DrainRead, DrainEnd,
                vars, ring, producer, consumer, history
  <2>2. Writers' = Writers
    BY <2>1 DEF Writers
  <2>3. QED BY <2>1, <2>2, RingFrame DEF Writers
<1>4. CASE PopReady \/ PopTake
  <2>1. UNCHANGED <<nodes_back, nodes_front, node_job, node_ready, node_index,
                    ticket, claims, popped, pc, arg>>
    BY <1>4 DEF PopReady, PopTake, ring, producer, history
  <2>2. Writers' = Writers /\ Tickets' = Tickets
    BY <2>1 DEF Writers, Tickets
  <2>3. PopProgress'
    BY <1>4, <2>1 DEF PopReady, PopTake, PopProgress, RingCore
  <2>4. QED
    BY <2>1, <2>2, <2>3 DEF RingCore, Indexes, WriterTickets, Nodes, FifoOrder
<1>5. CASE PopClear
  BY <1>5, RingPopClear
<1>6. QED BY <1>1, <1>2, <1>3, <1>4, <1>5 DEF Next, Push, Pop, Poll

\* The empty ring is sound.
LEMMA RingInit == Init => RingCore
<1> SUFFICES ASSUME Init PROVE RingCore
  OBVIOUS
<1>1. Writers = {} /\ Len(claims) = 0 /\ Len(popped) = 0
  BY DEF Init, Writers
<1>2. Tickets = {}
  BY <1>1 DEF Tickets
<1>3. 0 % Wrap = 0 /\ 0 % MAX = 0
  <2>1. \A n \in Nat \ {0} : 0 % n = 0
    <3> SUFFICES ASSUME NEW n \in Nat \ {0} PROVE 0 % n = 0
      OBVIOUS
    <3>1. 0 = n * 0 + 0 /\ 0 \in 0 .. n - 1
      OBVIOUS
    <3>2. QED BY <3>1, ModUnique
  <2>2. QED BY <2>1, WrapPositive
<1>4. QED
  BY <1>1, <1>2, <1>3
     DEF Init, RingCore, Indexes, WriterTickets, Nodes, PopProgress, FifoOrder, Slots

\* The inductive invariant of the ring, and with it the order of the pops: for
\* every ring size, counter width and number of threads, the jobs popped are the
\* jobs claimed, in the order of the claims.
THEOREM RingSound == Spec => []RingInv
<1>1. TypeOK /\ PermitConservation /\ RingCore /\ [Next]_vars => RingCore'
  BY RingStep
<1>2. PermitConservation /\ RingCore => RingInv
  BY DEF RingInv, RingCore
<1>3. QED
  BY <1>1, <1>2, RingInit, TypeCorrect, PermitsConserved, PTL DEF Spec

\* FifoOrder is one of its conjuncts.
THEOREM PopsInOrder == Spec => []FifoOrder
<1>1. RingInv => FifoOrder
  BY DEF RingInv
<1>2. QED BY <1>1, RingSound, PTL

\* No node is filled by two pushes, refilled before it is popped, or read before
\* it is filled: the accesses to node->job need no lock.
THEOREM NodesExclusive == Spec => []SlotExclusive
<1>1. ASSUME TypeOK, RingInv PROVE SlotExclusive
  <2>1. \A t, u \in Tickets : t # u => t % MAX # u % MAX
    BY <1>1, RingSize, TicketsApart DEF RingInv
  <2>2. QED
    BY <1>1, <2>1 DEF RingInv, WriterTickets, Nodes, PopProgress, SlotExclusive
<1>2. QED BY <1>1, TypeCorrect, RingSound, PTL

-----------------------------------------------------------------------------
(* The counter *)

Counters == {p \in Producers : pc[p] = "count"}
ReadyNodes == {s \in Slots : node_ready[s]}

\* Both can be counted.
LEMMA CountersFinite ==
    /\ IsFiniteSet(Counters) /\ IsFiniteSet(Counters')
    /\ IsFiniteSet(ReadyNodes) /\ IsFiniteSet(ReadyNodes')
    /\ Cardinality(Counters) \in Nat /\ Cardinality(Counters') \in Nat
    /\ Cardinality(ReadyNodes) \in Nat /\ Cardinality(ReadyNodes') \in Nat
<1>1. IsFiniteSet(Slots)
  BY WrapPositive, FS_Interval DEF Slots
<1>2. /\ Counters \in SUBSET Producers /\ Counters' \in SUBSET Producers
      /\ ReadyNodes \in SUBSET Slots /\ ReadyNodes' \in SUBSET Slots
  BY DEF Counters, ReadyNodes
<1>3. QED BY <1>1, <1>2, ThreadAssumption, FS_Subset, FS_CardinalityType

\* CountAccurate with its sets named.
LEMMA CountEquation ==
    /\ CountAccurate <=> n_queued_jobs + Cardinality(Counters)
                           = Cardinality(ReadyNodes) + (IF loop = "uncount" THEN 1 ELSE 0)
    /\ CountAccurate' <=> n_queued_jobs' + Cardinality(Counters')
                            = Cardinality(ReadyNodes') + (IF loop' = "uncount" THEN 1 ELSE 0)
BY DEF CountAccurate, Counters, ReadyNodes

\* A job is counted after its node is ready and uncounted after it is not: each
\* step moves one job from one term of the equation to another.
LEMMA CountStep ==
    ASSUME TypeOK, SlotExclusive, CountAccurate, [Next]_vars
    PROVE  CountAccurate'
<1> USE CountersFinite DEF Goto, LoopGoto
<1>0. n_queued_jobs \in Nat /\ n_queued_jobs' \in Nat
  BY TypePush, TypeLoop DEF TypeOK, Next, vars, ring
<1>1. ASSUME NEW p \in Producers, SetReady(p)
      PROVE  CountAccurate'
  <2>1. Counters' = Counters \cup {p} /\ p \notin Counters
    BY <1>1 DEF SetReady, Counters, TypeOK
  <2>2. node_index[p] \in Slots /\ ~node_ready[node_index[p]]
    BY <1>1 DEF SetReady, SlotExclusive, Writers, TypeOK
  <2>3. ReadyNodes' = ReadyNodes \cup {node_index[p]} /\ node_index[p] \notin ReadyNodes
    BY <1>1, <2>2 DEF SetReady, ReadyNodes, TypeOK
  <2>4. /\ Cardinality(Counters') = Cardinality(Counters) + 1
        /\ Cardinality(ReadyNodes') = Cardinality(ReadyNodes) + 1
    BY <2>1, <2>3, FS_AddElement
  <2>5. n_queued_jobs' = n_queued_jobs /\ loop' = loop
    BY <1>1 DEF SetReady, consumer
  <2>6. QED BY <1>0, <2>4, <2>5, CountEquation
<1>2. ASSUME NEW p \in Producers, Count(p)
      PROVE  CountAccurate'
  <2>1. Counters' = Counters \ {p} /\ p \in Counters
    BY <1>2 DEF Count, Counters, TypeOK
  <2>2. ReadyNodes' = ReadyNodes
    BY <1>2 DEF Count, ReadyNodes
  <2>3. Cardinality(Counters') = Cardinality(Counters) - 1
    BY <2>1, FS_RemoveElement
  <2>4. n_queued_jobs' = n_queued_jobs + 1 /\ loop' = loop
    BY <1>2 DEF Count, consumer
  <2>5. QED BY <1>0, <2>2, <2>3, <2>4, CountEquation
<1>3. CASE PopClear
  <2>1. node_ready[nodes_front] /\ nodes_front \in Slots
    BY <1>3 DEF PopClear, SlotExclusive, TypeOK
  <2>2. ReadyNodes' = ReadyNodes \ {nodes_front} /\ nodes_front \in ReadyNodes
    BY <1>3, <2>1 DEF PopClear, ReadyNodes, TypeOK
  <2>3. Counters' = Counters
    BY <1>3 DEF PopClear, Counters, producer
  <2>4. Cardinality(ReadyNodes') = Cardinality(ReadyNodes) - 1
    BY <2>2, FS_RemoveElement
  <2>5. n_queued_jobs' = n_queued_jobs /\ loop = "clear" /\ loop' = "uncount"
    BY <1>3 DEF PopClear
  <2>6. QED BY <1>0, <2>3, <2>4, <2>5, CountEquation
<1>4. CASE PopUncount
  <2>1. Counters' = Counters /\ ReadyNodes' = ReadyNodes
    BY <1>4 DEF PopUncount, Counters, ReadyNodes, producer
  <2>2. n_queued_jobs' = n_queued_jobs - 1 /\ loop = "uncount" /\ loop' = "release"
    BY <1>4 DEF PopUncount
  <2>3. QED BY <1>0, <2>1, <2>2, CountEquation
<1>5. ASSUME NEW p \in Producers,
             \/ Post(p) \/ Acquire(p) \/ AcquireFails(p) \/ Claim(p) \/ Store(p)
             \/ Wake(p) \/ WakeFails(p)
      PROVE  CountAccurate'
  <2>1. UNCHANGED <<n_queued_jobs, node_ready, loop>>
    BY <1>5 DEF Post, Acquire, AcquireFails, Claim, Store, Wake, WakeFails, ring, consumer
  <2>2. Counters' = Counters /\ ReadyNodes' = ReadyNodes
    BY <1>5, <2>1 DEF Post, Acquire, AcquireFails, Claim, Store, Wake, WakeFails,
                      Counters, ReadyNodes, TypeOK
  <2>3. QED BY <2>1, <2>2, CountEquation
<1>6. CASE \/ PopCheck \/ PopReady \/ PopTake \/ PopRelease \/ PopReleaseFails \/ Exec
           \/ Work \/ PollWakeup \/ PollOther \/ DrainRead \/ DrainEnd \/ UNCHANGED vars
  <2>1. /\ UNCHANGED <<n_queued_jobs, node_ready, pc>>
        /\ loop' = "uncount" <=> loop = "uncount"
    BY <1>6 DEF PopCheck, PopReady, PopTake, PopRelease, PopReleaseFails, Exec, Work,
                PollWakeup, PollOther, DrainRead, DrainEnd, vars, ring, producer, consumer
  <2>2. QED BY <2>1 DEF CountAccurate
<1>7. QED
  BY <1>1, <1>2, <1>3, <1>4, <1>5, <1>6 DEF Next, Push, Pop, Poll

\* n_queued_jobs is the number of ready nodes, but for the pushes that have still
\* to count theirs and the pop that has still to subtract its own.
THEOREM CounterAccurate == Spec => []CountAccurate
<1>1. Init => CountAccurate
  <2> SUFFICES ASSUME Init PROVE CountAccurate
    OBVIOUS
  <2>1. Counters = {} /\ ReadyNodes = {}
    BY DEF Init, Counters, ReadyNodes
  <2>2. Cardinality(Counters) = 0 /\ Cardinality(ReadyNodes) = 0
    BY <2>1, FS_EmptySet
  <2>3. QED BY <2>2 DEF Init, CountAccurate, Counters, ReadyNodes
<1>2. QED BY <1>1, CountStep, TypeCorrect, NodesExclusive, PTL DEF Spec

-----------------------------------------------------------------------------
(* The fate of a job *)

\* Pushes whose job has no node yet.
Pending == {p \in Producers : pc[p] \in {"acquire", "claim"}}

\* The pops that are complete: those whose job has been executed.
Done == Len(popped) - (IF loop \in {"uncount", "release", "exec"} THEN 1 ELSE 0)

\* A job that waits for a node is in the hands of one push and of nothing else.
PendingOwned ==
    /\ \A p \in Pending : /\ arg[p] \in posted
                          /\ \A i \in 1 .. Len(claims) : claims[i] # arg[p]
                          /\ finis[arg[p]] = 0
    /\ \A p, q \in Pending : p # q => arg[p] # arg[q]

\* A job claims at most one node.
ClaimedOnce ==
    /\ \A i \in 1 .. Len(claims) : claims[i] \in posted
    /\ \A i, k \in 1 .. Len(claims) : i # k => claims[i] # claims[k]

\* A job without a node is never executed, and released at most by its push; a
\* job with one is executed and released once, when its pop is complete.
Fates ==
    /\ \A j \in Jobs : j \notin posted => finis[j] = 0
    /\ \A j \in Jobs : (\A i \in 1 .. Len(claims) : claims[i] # j)
                          => execs[j] = 0 /\ finis[j] <= 1
    /\ \A i \in 1 .. Len(claims) : /\ execs[claims[i]] = IF i <= Done THEN 1 ELSE 0
                                   /\ finis[claims[i]] = execs[claims[i]]
    /\ loop \in {"uncount", "release", "exec"} =>
          Len(popped) > 0 /\ out_job = popped[Len(popped)]

FateInv == PendingOwned /\ ClaimedOnce /\ Fates

\* FateInv and the order of the pops say what FiniOnce says.
LEMMA FateImpliesFiniOnce ==
    ASSUME TypeOK, FifoOrder, FateInv
    PROVE  FiniOnce
<1> SUFFICES ASSUME NEW j \in Jobs
             PROVE  /\ execs[j] <= finis[j] /\ finis[j] <= 1
                    /\ j \in Range(claims) \ Range(popped) => finis[j] = 0
  BY DEF FiniOnce
<1>0. DOMAIN claims = 1 .. Len(claims) /\ DOMAIN popped = 1 .. Len(popped)
      /\ Len(claims) \in Nat /\ Len(popped) \in Nat
  BY DEF TypeOK
<1>1. CASE \A i \in 1 .. Len(claims) : claims[i] # j
  <2>1. j \notin Range(claims)
    BY <1>0, <1>1 DEF Range
  <2>2. execs[j] = 0 /\ finis[j] <= 1
    <3>1. Fates
      BY DEF FateInv
    <3>2. QED BY <1>1, <3>1 DEF Fates
  <2>3. finis[j] \in Nat
    <3>1. finis \in [Jobs -> Nat]
      BY DEF TypeOK
    <3>2. QED BY <3>1
  <2>4. QED BY <2>1, <2>2, <2>3
<1>2. CASE \E i \in 1 .. Len(claims) : claims[i] = j
  <2>1. PICK i \in 1 .. Len(claims) : claims[i] = j
    BY <1>2
  <2>2. execs[j] = finis[j] /\ finis[j] = IF i <= Done THEN 1 ELSE 0
    BY <2>1 DEF FateInv, Fates
  <2>3. ASSUME j \notin Range(popped) PROVE ~(i <= Done)
    <3>1. i \notin 1 .. Len(popped)
      BY <1>0, <2>1, <2>3 DEF Range, FifoOrder
    <3>2. QED BY <1>0, <3>1 DEF Done
  <2>4. QED BY <2>2, <2>3
<1>3. QED BY <1>1, <1>2

\* Steps that change neither the claims, nor the pops, nor a job's fate.
LEMMA FateFrame ==
    ASSUME FateInv,
           UNCHANGED <<posted, execs, finis, claims, popped>>,
           Pending' = Pending, \A p \in Pending : arg'[p] = arg[p],
           loop' \in {"uncount", "release", "exec"} <=> loop \in {"uncount", "release", "exec"},
           loop' \in {"uncount", "release", "exec"} => out_job' = out_job
    PROVE  FateInv'
<1>1. Done' = Done
  BY DEF Done
<1>2. QED BY <1>1 DEF FateInv, PendingOwned, ClaimedOnce, Fates

\* A job is posted once, so the push that takes it on is its only owner.
LEMMA FatePost ==
    ASSUME TypeOK, FateInv, NEW p \in Producers, Post(p)
    PROVE  FateInv'
<1>1. PICK j \in Jobs \ posted : /\ posted' = posted \cup {j}
                                 /\ arg' = [arg EXCEPT ![p] = j]
  BY DEF Post
<1>2. UNCHANGED <<execs, finis, claims, popped, loop, out_job>>
  BY DEF Post, history, consumer
<1>3. Pending' = Pending \cup {p} /\ p \notin Pending
  BY DEF Post, Goto, Pending, TypeOK
<1>4. arg'[p] = j /\ \A q \in Pending : arg'[q] = arg[q]
  BY <1>1, <1>3 DEF Pending, TypeOK
<1>5. /\ finis[j] = 0
      /\ \A i \in 1 .. Len(claims) : claims[i] # j
      /\ \A q \in Pending : arg[q] # j
  BY <1>1 DEF FateInv, PendingOwned, ClaimedOnce, Fates
<1>6. PendingOwned'
  BY <1>1, <1>2, <1>3, <1>4, <1>5 DEF FateInv, PendingOwned
<1>7. ClaimedOnce'
  BY <1>1, <1>2 DEF FateInv, ClaimedOnce
<1>8. Fates'
  BY <1>1, <1>2 DEF FateInv, Fates, Done
<1>9. QED BY <1>6, <1>7, <1>8 DEF FateInv

\* A push that gets no permit releases a job that is its own and has no node.
LEMMA FateAcquireFails ==
    ASSUME TypeOK, FateInv, NEW p \in Producers, AcquireFails(p)
    PROVE  FateInv'
<1> DEFINE j == arg[p]
<1>1. /\ finis' = [finis EXCEPT ![j] = finis[j] + 1]
      /\ UNCHANGED <<arg, posted, execs, claims, popped, loop, out_job>>
  BY DEF AcquireFails, history, consumer
<1>2. Pending' = Pending \ {p} /\ p \in Pending
  BY DEF AcquireFails, Goto, Pending, TypeOK
<1>3. /\ j \in Jobs /\ j \in posted /\ finis[j] = 0
      /\ \A i \in 1 .. Len(claims) : claims[i] # j
      /\ \A q \in Pending : q # p => arg[q] # j
  BY <1>2 DEF FateInv, PendingOwned, Pending, TypeOK
<1> HIDE DEF j
<1>4. finis'[j] = 1 /\ \A k \in Jobs : k # j => finis'[k] = finis[k]
  BY <1>1, <1>3 DEF TypeOK
<1>5. \A q \in Pending : arg[q] \in Jobs
  BY DEF Pending, TypeOK
<1>6. \A i \in 1 .. Len(claims) : claims[i] \in Jobs
  BY DEF TypeOK
<1>7. PendingOwned'
  BY <1>1, <1>2, <1>3, <1>4, <1>5 DEF FateInv, PendingOwned
<1>8. ClaimedOnce'
  BY <1>1 DEF FateInv, ClaimedOnce
<1>9. Fates'
  BY <1>1, <1>3, <1>4, <1>6 DEF FateInv, Fates, Done
<1>10. QED BY <1>7, <1>8, <1>9 DEF FateInv

\* A claim hands the push's job over to the ring.
LEMMA FateClaim ==
    ASSUME TypeOK, FifoOrder, FateInv, NEW p \in Producers, Claim(p)
    PROVE  FateInv'
<1> DEFINE T == Len(claims)
           j == arg[p]
<1>1. UNCHANGED <<arg, posted, execs, finis, popped, loop, out_job>>
  BY DEF Claim, consumer, fates
<1>2. Pending' = Pending \ {p} /\ p \in Pending
  BY DEF Claim, Goto, Pending, TypeOK
<1>3. /\ T \in Nat /\ Len(popped) \in Nat /\ Len(popped) <= T
      /\ Len(claims') = T + 1 /\ claims'[T + 1] = j
      /\ \A i \in 1 .. T : claims'[i] = claims[i]
  BY DEF Claim, Goto, TypeOK, FifoOrder
<1>4. /\ j \in Jobs /\ j \in posted /\ finis[j] = 0
      /\ \A i \in 1 .. T : claims[i] # j
      /\ \A q \in Pending : q # p => arg[q] # j
  BY <1>2 DEF FateInv, PendingOwned, Pending, TypeOK
<1>5. execs[j] = 0
  BY <1>4 DEF FateInv, Fates
<1>6. Done' = Done /\ Done < T + 1
  BY <1>1, <1>3 DEF Done
<1> HIDE DEF j
<1>7. \A i \in 1 .. Len(claims') : \/ i \in 1 .. T /\ claims'[i] = claims[i]
                                   \/ i = T + 1 /\ claims'[i] = j
  BY <1>3
<1>8. PendingOwned'
  BY <1>1, <1>2, <1>4, <1>7 DEF FateInv, PendingOwned
<1>9. ClaimedOnce'
  BY <1>1, <1>4, <1>7 DEF FateInv, ClaimedOnce
<1>10. Fates'
  <2>1. ASSUME NEW k \in Jobs, \A i \in 1 .. Len(claims') : claims'[i] # k
        PROVE  \A i \in 1 .. Len(claims) : claims[i] # k
    BY <1>3, <2>1
  <2>2. ASSUME NEW i \in 1 .. Len(claims')
        PROVE  /\ execs'[claims'[i]] = IF i <= Done' THEN 1 ELSE 0
               /\ finis'[claims'[i]] = execs'[claims'[i]]
    <3>1. CASE i \in 1 .. T /\ claims'[i] = claims[i]
      BY <1>1, <1>6, <3>1 DEF FateInv, Fates
    <3>2. CASE i = T + 1 /\ claims'[i] = j
      <4>1. ~(i <= Done')
        BY <1>3, <1>6, <3>2 DEF Done
      <4>2. QED BY <1>1, <1>4, <1>5, <3>2, <4>1
    <3>3. QED BY <1>7, <3>1, <3>2
  <2>3. QED BY <1>1, <2>1, <2>2 DEF FateInv, Fates
<1>11. QED BY <1>8, <1>9, <1>10 DEF FateInv

\* The pop takes the job out; it is not yet executed.
LEMMA FatePopClear ==
    ASSUME TypeOK, FateInv, PopClear
    PROVE  FateInv'
<1>1. UNCHANGED <<pc, arg, posted, execs, finis, claims, out_job>>
  BY DEF PopClear, producer, fates
<1>2. /\ loop = "clear" /\ loop' = "uncount"
      /\ Len(popped) \in Nat /\ Len(popped') = Len(popped) + 1
      /\ popped'[Len(popped')] = out_job
  BY DEF PopClear, LoopGoto, TypeOK
<1>3. Pending' = Pending
  BY <1>1 DEF Pending
<1>4. Done' = Done
  BY <1>2 DEF Done
<1>5. QED BY <1>1, <1>2, <1>3, <1>4 DEF FateInv, PendingOwned, ClaimedOnce, Fates

\* The execution and the release complete the last pop.
LEMMA FateExec ==
    ASSUME TypeOK, FifoOrder, FateInv, Exec
    PROVE  FateInv'
<1> DEFINE n == Len(popped)
           j == out_job
<1>1. /\ execs' = [execs EXCEPT ![j] = execs[j] + 1]
      /\ finis' = [finis EXCEPT ![j] = finis[j] + 1]
      /\ UNCHANGED <<pc, arg, posted, claims, popped, out_job>>
      /\ loop = "exec" /\ loop' = "check"
  BY DEF Exec, LoopGoto, producer, history
<1>2. /\ n \in Nat /\ n > 0 /\ n <= Len(claims) /\ Len(claims) \in Nat
      /\ j = claims[n] /\ j \in Jobs
  <2>1. n \in Nat /\ Len(claims) \in Nat /\ n <= Len(claims)
    BY DEF FifoOrder, TypeOK
  <2>2. n > 0 /\ j = popped[n]
    BY <1>1 DEF FateInv, Fates
  <2>3. j = claims[n]
    BY <2>1, <2>2 DEF FifoOrder
  <2>4. claims[n] \in Jobs
    BY <2>1, <2>2 DEF TypeOK
  <2>5. QED BY <2>1, <2>2, <2>3, <2>4
<1>3. Pending' = Pending /\ Done = n - 1 /\ Done' = n
  BY <1>1, <1>2 DEF Pending, Done
<1>4. \A k \in Jobs : execs[k] \in Nat /\ finis[k] \in Nat
  BY DEF TypeOK
<1>5. execs[j] = 0 /\ finis[j] = 0
  BY <1>2, <1>3 DEF FateInv, Fates
<1> HIDE DEF j, n
<1>6. /\ execs'[j] = 1 /\ finis'[j] = 1
      /\ \A k \in Jobs : k # j => execs'[k] = execs[k] /\ finis'[k] = finis[k]
  BY <1>1, <1>2, <1>5 DEF TypeOK
<1>7. \A q \in Pending : arg[q] \in Jobs /\ arg[q] # j
  BY <1>2 DEF FateInv, PendingOwned, Pending, TypeOK
<1>8. PendingOwned'
  BY <1>1, <1>3, <1>6, <1>7 DEF FateInv, PendingOwned
<1>9. ClaimedOnce'
  BY <1>1 DEF FateInv, ClaimedOnce
<1>10. Fates'
  <2>1. j \in posted /\ n \in 1 .. Len(claims)
    BY <1>2 DEF FateInv, ClaimedOnce
  <2>2. ASSUME NEW i \in 1 .. Len(claims)
        PROVE  /\ execs'[claims[i]] = IF i <= n THEN 1 ELSE 0
               /\ finis'[claims[i]] = execs'[claims[i]]
    <3>1. CASE i = n
      BY <1>2, <1>6, <3>1
    <3>2. CASE i # n
      <4>1. claims[i] # j /\ claims[i] \in Jobs
        BY <1>2, <2>1, <3>2 DEF FateInv, ClaimedOnce, TypeOK
      <4>2. i <= n <=> i <= n - 1
        BY <1>2, <3>2
      <4>3. QED BY <1>3, <1>6, <4>1, <4>2 DEF FateInv, Fates
    <3>3. QED BY <3>1, <3>2
  <2>3. ASSUME NEW k \in Jobs, \A i \in 1 .. Len(claims) : claims[i] # k
        PROVE  execs'[k] = 0 /\ finis'[k] <= 1
    BY <1>2, <1>6, <2>1, <2>3 DEF FateInv, Fates
  <2>4. \A k \in Jobs : k \notin posted => finis'[k] = 0
    BY <1>6, <2>1 DEF FateInv, Fates
  <2>5. QED BY <1>1, <1>3, <2>2, <2>3, <2>4 DEF Fates
<1>11. QED BY <1>8, <1>9, <1>10 DEF FateInv

\* Every step keeps each job's owner unique, given the order of the pops.
LEMMA FateStep ==
    ASSUME TypeOK, FifoOrder, FateInv, [Next]_vars
    PROVE  FateInv'
<1> USE DEF Goto, LoopGoto
<1>1. ASSUME NEW p \in Producers, Post(p) \/ AcquireFails(p) \/ Claim(p)
      PROVE  FateInv'
  BY <1>1, FatePost, FateAcquireFails, FateClaim
<1>2. ASSUME NEW p \in Producers,
             Acquire(p) \/ Store(p) \/ SetReady(p) \/ Count(p) \/ Wake(p) \/ WakeFails(p)
      PROVE  FateInv'
  <2>1. UNCHANGED <<posted, execs, finis, claims, popped, loop, out_job, arg>>
    BY <1>2 DEF Acquire, Store, SetReady, Count, Wake, WakeFails, consumer, fates, history
  <2>2. Pending' = Pending
    BY <1>2 DEF Acquire, Store, SetReady, Count, Wake, WakeFails, Pending, TypeOK
  <2>3. QED BY <2>1, <2>2, FateFrame
<1>3. CASE PopClear \/ Exec
  BY <1>3, FatePopClear, FateExec
<1>4. CASE \/ PopCheck \/ PopReady \/ PopTake \/ PopUncount \/ PopRelease \/ PopReleaseFails
           \/ Work \/ PollWakeup \/ PollOther \/ DrainRead \/ DrainEnd \/ UNCHANGED vars
  <2>1. UNCHANGED <<posted, execs, finis, claims, popped, pc, arg>>
    BY <1>4 DEF PopCheck, PopReady, PopTake, PopUncount, PopRelease, PopReleaseFails, Work,
                PollWakeup, PollOther, DrainRead, DrainEnd, vars, producer, fates, history
  <2>2. /\ loop' \in {"uncount", "release", "exec"} <=> loop \in {"uncount", "release", "exec"}
        /\ loop' \in {"uncount", "release", "exec"} => out_job' = out_job
    BY <1>4 DEF PopCheck, PopReady, PopTake, PopUncount, PopRelease, PopReleaseFails, Work,
                PollWakeup, PollOther, DrainRead, DrainEnd, vars, consumer
  <2>3. Pending' = Pending
    BY <2>1 DEF Pending
  <2>4. QED BY <2>1, <2>2, <2>3, FateFrame
<1>5. QED
  BY <1>1, <1>2, <1>3, <1>4 DEF Next, Push, Pop, Poll

\* No job has two owners: it is in the hands of one push, in one node of the
\* ring, or done with.
THEOREM FatesSound == Spec => []FateInv
<1>1. Init => FateInv
  <2> SUFFICES ASSUME Init PROVE FateInv
    OBVIOUS
  <2>1. Pending = {} /\ Len(claims) = 0 /\ Len(popped) = 0
    BY DEF Init, Pending
  <2>2. QED BY <2>1 DEF Init, FateInv, PendingOwned, ClaimedOnce, Fates, Done
<1>2. QED BY <1>1, FateStep, TypeCorrect, PopsInOrder, PTL DEF Spec

\* Whichever way a job goes, its context is released at most once, never while
\* the job is in the ring, and never before the job was executed if it ever is.
THEOREM ReleasedOnce == Spec => []FiniOnce
BY FateImpliesFiniOnce, FatesSound, TypeCorrect, PopsInOrder, PTL

-----------------------------------------------------------------------------
(* The queue as a line of jobs *)

\* The variables of JobLine, as JobQueue's instance of it maps them.
line == SubSeq(claims, Len(popped) + 1, Len(claims))
published == Range(claims) \ {arg[p] : p \in Writers}
lineVars == <<line, published, popped>>

\* What is left of a list behind its first n places.
LEMMA RestIs ==
    ASSUME NEW s \in Seq(Jobs), NEW n \in Nat, n <= Len(s)
    PROVE  LET rest == SubSeq(s, n + 1, Len(s))
           IN  /\ rest \in Seq(Jobs) /\ Len(rest) = Len(s) - n
               /\ \A i \in 1 .. Len(rest) : rest[i] = s[n + i]
OBVIOUS

\* All that is popped was claimed.
Sizes == claims \in Seq(Jobs) /\ Len(popped) \in Nat /\ Len(popped) <= Len(claims)

\* The sizes the proof computes with are numbers.
LEMMA SizesFit == ASSUME TypeOK, RingInv PROVE Sizes
BY DEF TypeOK, RingInv, Indexes, Sizes

\* What the outstanding jobs are, before and after a step.
LEMMA LineIs ==
    ASSUME Sizes, Sizes'
    PROVE  /\ line \in Seq(Jobs) /\ Len(line) = Len(claims) - Len(popped)
           /\ \A i \in 1 .. Len(line) : line[i] = claims[Len(popped) + i]
           /\ line' \in Seq(Jobs) /\ Len(line') = Len(claims') - Len(popped')
           /\ \A i \in 1 .. Len(line') : line'[i] = claims'[Len(popped') + i]
<1>1. /\ claims \in Seq(Jobs) /\ Len(popped) \in Nat /\ Len(popped) <= Len(claims)
      /\ claims' \in Seq(Jobs) /\ Len(popped') \in Nat /\ Len(popped') <= Len(claims')
  BY DEF Sizes
<1>2. QED BY <1>1, RestIs DEF line

\* Two lists with the same places and the same jobs in them are the same.
LEMMA SameLine ==
    ASSUME NEW s \in Seq(Jobs), NEW t \in Seq(Jobs), Len(s) = Len(t),
           \A i \in 1 .. Len(s) : s[i] = t[i]
    PROVE  s = t
OBVIOUS

\* Claiming a node is taking the place behind the last: the permit says that
\* there is one, and FateInv that the job was never in the line.
LEMMA ClaimIsEnter ==
    ASSUME TypeOK, Sizes, Sizes', PermitConservation, RingInv, FateInv,
           NEW p \in Producers, Claim(p)
    PROVE  Line!Enter(arg[p]) /\ arg[p] \in Jobs
<1> DEFINE n == Len(popped)
           j == arg[p]
<1>1. /\ UNCHANGED <<popped, arg>> /\ claims' = Append(claims, j)
      /\ j \in Jobs /\ p \in Pending /\ p \notin Writers
  BY DEF Claim, Goto, Pending, Writers, TypeOK
<1>2. n \in Nat /\ Len(claims) \in Nat /\ n <= Len(claims) /\ Len(claims) < n + MAX
  BY RingSize DEF Claim, Goto, TypeOK, RingInv, Indexes
<1>3. /\ line \in Seq(Jobs) /\ Len(line) = Len(claims) - n
      /\ \A i \in 1 .. Len(line) : line[i] = claims[n + i]
  BY LineIs
<1>4. /\ line' \in Seq(Jobs) /\ Len(line') = Len(claims') - n
      /\ \A i \in 1 .. Len(line') : line'[i] = claims'[n + i]
  BY <1>1, <1>2, LineIs
<1>5. \A i \in 1 .. Len(claims) : claims[i] # j
  BY <1>1 DEF FateInv, PendingOwned
<1>6. line' = Append(line, j)
  <2>1. Len(claims') = Len(claims) + 1
    BY <1>1 DEF TypeOK
  <2>2. Append(line, j) \in Seq(Jobs) /\ Len(Append(line, j)) = Len(line')
    BY <1>1, <1>2, <1>3, <1>4, <2>1
  <2>3. ASSUME NEW i \in 1 .. Len(line')
        PROVE  line'[i] = Append(line, j)[i]
    <3>1. CASE i \in 1 .. Len(line)
      <4>1. n + i \in 1 .. Len(claims)
        BY <1>2, <1>3, <3>1
      <4>2. claims'[n + i] = claims[n + i]
        BY <1>1, <4>1 DEF TypeOK
      <4>3. Append(line, j)[i] = line[i]
        BY <1>1, <1>3, <3>1
      <4>4. QED BY <1>3, <1>4, <3>1, <4>2, <4>3
    <3>2. CASE i = Len(line) + 1
      <4>1. n + i = Len(claims) + 1
        BY <1>2, <1>3, <3>2
      <4>2. claims'[n + i] = j
        BY <1>1, <4>1 DEF TypeOK
      <4>3. QED BY <1>3, <1>4, <3>2, <4>2
    <3>3. i \in 1 .. Len(line) \/ i = Len(line) + 1
      BY <1>2, <1>3, <1>4, <2>1
    <3>4. QED BY <3>1, <3>2, <3>3
  <2>4. QED BY <1>4, <2>2, <2>3, SameLine
<1>7. Len(line) < MAX
  BY <1>2, <1>3, WrapPositive
<1>8. j \notin Range(line) \cup Range(popped)
  <2>1. j \notin Range(line)
    <3>1. \A i \in DOMAIN line : i \in 1 .. Len(line) /\ n + i \in 1 .. Len(claims)
      BY <1>2, <1>3
    <3>2. QED BY <1>3, <1>5, <3>1 DEF Range
  <2>2. j \notin Range(popped)
    <3>1. \A i \in DOMAIN popped : i \in 1 .. n /\ i \in 1 .. Len(claims)
      BY <1>2 DEF TypeOK
    <3>2. \A i \in 1 .. n : popped[i] = claims[i]
      BY DEF RingInv, FifoOrder
    <3>3. QED BY <1>5, <3>1, <3>2 DEF Range
  <2>3. QED BY <2>1, <2>2
<1>9. published' = published
  <2>1. Writers' = Writers \cup {p}
    BY DEF Claim, Goto, Writers, TypeOK
  <2>2. Range(claims') = Range(claims) \cup {j} /\ j \notin Range(claims)
    <3>1. DOMAIN claims = 1 .. Len(claims) /\ DOMAIN claims' = 1 .. Len(claims) + 1
      BY <1>1 DEF TypeOK
    <3>2. /\ \A i \in 1 .. Len(claims) : claims'[i] = claims[i]
          /\ claims'[Len(claims) + 1] = j
      BY <1>1 DEF TypeOK
    <3>3. 1 .. Len(claims) + 1 = (1 .. Len(claims)) \cup {Len(claims) + 1}
      BY <1>2
    <3>4. QED BY <1>5, <3>1, <3>2, <3>3 DEF Range
  <2>3. {arg'[q] : q \in Writers'} = {arg[q] : q \in Writers} \cup {j}
    BY <1>1, <2>1
  <2>4. QED BY <2>2, <2>3 DEF published
<1>10. QED
  BY <1>1, <1>6, <1>7, <1>8, <1>9 DEF Line!Enter, Line!Range, Range, line, published

\* Setting ready publishes the job: no other push has the same one.
LEMMA SetReadyIsPublish ==
    ASSUME TypeOK, Sizes, Sizes', RingInv, FateInv, NEW p \in Producers, SetReady(p)
    PROVE  Line!Publish(arg[p]) /\ arg[p] \in Jobs
<1> DEFINE n == Len(popped)
           j == arg[p]
<1>1. /\ UNCHANGED <<popped, claims, arg>> /\ j \in Jobs
      /\ p \in Writers /\ Writers' = Writers \ {p}
  BY DEF SetReady, Goto, Writers, TypeOK, consumer, history
<1>2. n \in Nat /\ Len(claims) \in Nat /\ n <= Len(claims)
  BY DEF TypeOK, RingInv, Indexes
<1>3. /\ line \in Seq(Jobs) /\ Len(line) = Len(claims) - n
      /\ \A i \in 1 .. Len(line) : line[i] = claims[n + i]
  BY LineIs
<1>4. line' = line
  BY <1>1 DEF line
<1>5. \A q \in Writers : /\ ticket[q] \in n .. Len(claims) - 1
                         /\ claims[ticket[q] + 1] = arg[q]
                         /\ q # p => ticket[q] # ticket[p]
  BY <1>1 DEF RingInv, WriterTickets, Tickets
<1>6. \A q \in Writers : q # p => arg[q] # j
  <2> SUFFICES ASSUME NEW q \in Writers, q # p PROVE arg[q] # j
    OBVIOUS
  <2>1. /\ ticket[q] + 1 \in 1 .. Len(claims) /\ ticket[p] + 1 \in 1 .. Len(claims)
        /\ ticket[q] + 1 # ticket[p] + 1
    BY <1>1, <1>2, <1>5
  <2>2. QED BY <1>1, <1>5, <2>1 DEF FateInv, ClaimedOnce
<1>7. j \in Range(line)
  <2>1. ticket[p] + 1 - n \in 1 .. Len(line)
    BY <1>1, <1>2, <1>3, <1>5
  <2>2. line[ticket[p] + 1 - n] = j
    <3>1. n + (ticket[p] + 1 - n) = ticket[p] + 1
      <4> HIDE DEF n
      <4>1. ticket[p] \in n .. Len(claims) - 1
        BY <1>1, <1>5
      <4>2. QED BY <1>2, <4>1
    <3>2. QED BY <1>1, <1>3, <1>5, <2>1, <3>1
  <2>3. DOMAIN line = 1 .. Len(line)
    BY <1>3
  <2>4. QED BY <2>1, <2>2, <2>3 DEF Range
<1>8. j \notin published
  BY <1>1 DEF published
<1>9. published' = published \cup {j}
  <2>1. j \in Range(claims)
    <3>1. ticket[p] + 1 \in DOMAIN claims
      BY <1>1, <1>2, <1>5 DEF TypeOK
    <3>2. QED BY <1>1, <1>5, <3>1 DEF Range
  <2>2. {arg'[q] : q \in Writers'} = {arg[q] : q \in Writers} \ {j}
    BY <1>1, <1>6
  <2>3. QED BY <1>1, <2>1, <2>2 DEF published
<1>10. QED
  BY <1>1, <1>4, <1>7, <1>8, <1>9 DEF Line!Publish, Line!Range, Range, line, published

\* PopClear serves the head, which is published because its node is ready.
LEMMA PopClearIsServe ==
    ASSUME TypeOK, Sizes, Sizes', PermitConservation, RingInv, FateInv, PopClear
    PROVE  Line!Serve
<1> DEFINE n == Len(popped)
<1>1. /\ UNCHANGED <<claims, arg, pc>> /\ popped' = Append(popped, out_job)
      /\ node_ready[nodes_front] /\ out_job = node_job[nodes_front]
  BY DEF PopClear, LoopGoto, producer, RingInv, PopProgress
<1>2. n \in Nat /\ Len(claims) \in Nat /\ n < Len(claims) /\ Len(popped') = n + 1
      /\ out_job = claims[n + 1] /\ \A q \in Writers : ticket[q] # n
  <2>1. RingCore
    BY DEF RingCore, RingInv
  <2>2. n \in Tickets /\ out_job = claims[n + 1] /\ \A q \in Writers : ticket[q] # n
    BY <1>1, <2>1, FrontTicket
  <2>3. Len(popped') = n + 1
    BY <1>1 DEF TypeOK
  <2>4. QED BY <2>2, <2>3 DEF TypeOK, Tickets
<1>3. /\ line \in Seq(Jobs) /\ Len(line) = Len(claims) - n
      /\ \A i \in 1 .. Len(line) : line[i] = claims[n + i]
  BY LineIs
<1>4. /\ line' \in Seq(Jobs) /\ Len(line') = Len(claims) - (n + 1)
      /\ \A i \in 1 .. Len(line') : line'[i] = claims[n + 1 + i]
  BY <1>1, <1>2, LineIs
<1>5. line # <<>> /\ Head(line) = out_job
  BY <1>2, <1>3
<1>6. line' = Tail(line)
  <2>1. Tail(line) \in Seq(Jobs) /\ Len(Tail(line)) = Len(line) - 1
    BY <1>3, <1>5
  <2>2. \A i \in 1 .. Len(line') : Tail(line)[i] = line[i + 1]
    BY <1>2, <1>3, <1>4, <1>5
  <2>3. \A i \in 1 .. Len(line') : line'[i] = line[i + 1]
    <3> SUFFICES ASSUME NEW i \in 1 .. Len(line') PROVE line'[i] = line[i + 1]
      OBVIOUS
    <3>1. i + 1 \in 1 .. Len(line) /\ n + (i + 1) = n + 1 + i
      BY <1>2, <1>3, <1>4
    <3>2. QED BY <1>3, <1>4, <3>1
  <2>4. QED BY <1>2, <1>3, <1>4, <2>1, <2>2, <2>3, SameLine
<1>7. out_job \in published
  <2>1. out_job \in Range(claims)
    BY <1>2, n + 1 \in DOMAIN claims DEF Range, TypeOK
  <2>2. ASSUME NEW q \in Writers PROVE arg[q] # out_job
    <3>1. /\ ticket[q] + 1 \in 1 .. Len(claims) /\ n + 1 \in 1 .. Len(claims)
          /\ ticket[q] + 1 # n + 1 /\ claims[ticket[q] + 1] = arg[q]
      BY <1>2 DEF RingInv, WriterTickets, Tickets
    <3>2. QED BY <1>2, <3>1 DEF FateInv, ClaimedOnce
  <2>3. QED BY <2>1, <2>2 DEF published
<1>8. published' = published
  BY <1>1 DEF published, Writers
<1>9. QED
  BY <1>1, <1>5, <1>6, <1>7, <1>8 DEF Line!Serve, line, published

\* Every other step is one of the queue's own and leaves the line as it is.
LEMMA LineStutters ==
    ASSUME TypeOK, [Next]_vars,
           ~PopClear, \A p \in Producers : ~Claim(p) /\ ~SetReady(p)
    PROVE  UNCHANGED lineVars
<1> USE DEF Goto, LoopGoto
<1>1. CASE Pop \/ PopReleaseFails \/ Poll \/ PollOther \/ UNCHANGED vars
  BY <1>1 DEF Pop, PopCheck, PopReady, PopTake, PopUncount, PopRelease, PopReleaseFails, Exec,
              Poll, Work, PollWakeup, PollOther, DrainRead, DrainEnd, vars, producer, history,
              lineVars, line, published, Writers
<1>2. ASSUME NEW p \in Producers,
             \/ Post(p) \/ Acquire(p) \/ AcquireFails(p) \/ Store(p)
             \/ Count(p) \/ Wake(p) \/ WakeFails(p)
      PROVE  UNCHANGED lineVars
  <2>1. UNCHANGED <<claims, popped>>
    BY <1>2 DEF Post, Acquire, AcquireFails, Store, Count, Wake, WakeFails, history
  <2>2. Writers' = Writers /\ \A q \in Writers : arg'[q] = arg[q]
    BY <1>2 DEF Post, Acquire, AcquireFails, Store, Count, Wake, WakeFails, Writers, TypeOK
  <2>3. {arg'[q] : q \in Writers'} = {arg[q] : q \in Writers}
    BY <2>2
  <2>4. QED BY <2>1, <2>3 DEF lineVars, line, published
<1>3. QED BY <1>1, <1>2 DEF Next, Push

\* A step of the queue is a step of the line or leaves it alone.
LEMMA LineStep ==
    ASSUME TypeOK, Sizes, Sizes', PermitConservation, RingInv, FateInv, [Next]_vars
    PROVE  [Line!Next]_(Line!vars)
<1>1. ASSUME NEW p \in Producers, Claim(p)
      PROVE  Line!Next
  BY <1>1, ClaimIsEnter DEF Line!Next
<1>2. ASSUME NEW p \in Producers, SetReady(p)
      PROVE  Line!Next
  <2>1. Line!Publish(arg[p]) /\ arg[p] \in Jobs
    BY <1>2, SetReadyIsPublish
  <2>2. QED BY <2>1 DEF Line!Next, Line!Publish
<1>3. CASE PopClear
  BY <1>3, PopClearIsServe DEF Line!Next
<1>4. CASE ~PopClear /\ \A p \in Producers : ~Claim(p) /\ ~SetReady(p)
  BY <1>4, LineStutters DEF Line!vars, lineVars, line, published
<1>5. QED BY <1>1, <1>2, <1>3, <1>4

\* The queue implements the safety part of JobLine: whatever the interleaving and
\* whatever fails, its users see places taken, jobs published and heads served.
THEOREM ImplementsLine == Spec => Line!Init /\ [][Line!Next]_(Line!vars)
<1>1. Init => Line!Init
  <2> SUFFICES ASSUME Init PROVE Line!Init
    OBVIOUS
  <2>1. claims = <<>> /\ popped = <<>> /\ Writers = {}
    BY DEF Init, Writers
  <2>2. SubSeq(claims, Len(popped) + 1, Len(claims)) = <<>> /\ Range(claims) = {}
    BY <2>1 DEF Range
  <2>3. QED BY <2>1, <2>2 DEF Line!Init
<1>2. QED
  BY <1>1, LineStep, SizesFit, TypeCorrect, PermitsConserved, RingSound, FatesSound, PTL
     DEF Spec
=============================================================================
