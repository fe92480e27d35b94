--------------------------- MODULE QueueLoopProofs ---------------------------
(***************************************************************************)
(* Proofs about QueueLoop, for any goroutines, capacity and number of      *)
(* operations: types, and what keeps workers from waiting for ever.        *)
(***************************************************************************)
EXTENDS QueueLoop, TLAPS

LEMMA InitTypes == Init => TypeOK
  BY QueueLoopAssumption DEF Init, TypeOK, ConfigType

LEMMA NextTypes == TypeOK /\ [Next]_vars => TypeOK'
<1> SUFFICES ASSUME TypeOK, [Next]_vars PROVE TypeOK'
  OBVIOUS
<1> USE QueueLoopAssumption DEF TypeOK
<1>1. ASSUME NEW g \in Goroutine, Putter(g) PROVE TypeOK'
  <2>1. CASE CheckFails(g) BY <2>1 DEF CheckFails, Putting, PutDone, More
  <2>2. CASE QueueFull(g) BY <2>2 DEF QueueFull, Putting, PutDone, More
  <2>3. CASE CallPut(g) BY <2>3 DEF CallPut, Putting, More
  <2>4. CASE Put(g)
    <3>1. size' \in [Queue -> 0..Capacity]
      BY <2>4 DEF Put, Size, SetSize, QueueNames
    <3> QED BY <2>4, <3>1 DEF Put, PutDone
  <2>5. CASE PutFails(g)
    <3>1. size' \in [Queue -> 0..Capacity]
      BY <2>5 DEF PutFails, Size, SetSize, QueueNames
    <3> QED BY <2>5, <3>1 DEF PutFails, PutDone
  <2> QED BY <1>1, <2>1, <2>2, <2>3, <2>4, <2>5 DEF Putter
<1>2. ASSUME NEW g \in Goroutine, Poller(g) PROVE TypeOK'
  <2>1. size' \in [Queue -> 0..Capacity]
    BY <1>2 DEF Poller, Poll, PollFails, Size, SetSize, AfterPoll, QueueNames
  <2>2. UNCHANGED <<cfg, queueOf, up, pc, waiting, putsLeft, lost>> /\ PollDone(g) /\ pollsLeft[g] > 0
    BY <1>2 DEF Poller, Poll, PollFails, AfterFailedPoll, More
  <2> QED BY <2>1, <2>2 DEF PollDone
<1>3. ASSUME NEW g \in Goroutine, StartOrEnd(g) PROVE TypeOK'
  <2>1. CASE GetQueue(g) BY <2>1 DEF GetQueue, work
  <2>2. CASE GetQueueFails(g) BY <2>2 DEF GetQueueFails, work
  <2>3. CASE Destroy(g)
    <3>1. 0 \in 0..Capacity OBVIOUS
    <3>2. g \notin waiting BY <2>3 DEF Destroy, WorkersDone, More
    <3>3. size' \in [Queue -> 0..Capacity] BY <2>3, <3>1 DEF Destroy, SetSize
    <3> QED BY <2>3, <3>2, <3>3 DEF Destroy, work
  <2>4. CASE DestroyFails(g)
    <3>1. queueOf[g] \in Queue BY DEF QueueNames
    <3> QED BY <2>4, <3>1 DEF DestroyFails, WorkersDone, More, work
  <2> QED BY <1>3, <2>1, <2>2, <2>3, <2>4 DEF StartOrEnd
<1>4. ASSUME NEW q \in Queue, OthersAct(q) PROVE TypeOK'
  BY <1>4 DEF OthersAct, work
<1>5. CASE UNCHANGED vars
  BY <1>5 DEF vars, work
<1> QED BY <1>1, <1>2, <1>3, <1>4, <1>5 DEF Next

(* Types are right, and no length leaves its bounds, for all parameters.   *)
THEOREM TypeCorrect == Spec => []TypeOK
  BY InitTypes, NextTypes, PTL DEF Spec

-----------------------------------------------------------------------------
(* What one step can do to the queues, the waiting workers and the         *)
(* goroutines, as far as the other invariants care.                        *)
Passes(g) == UNCHANGED <<pc, waiting, size, lost>>
Enters(g) == Size(g) < Capacity /\ waiting' = waiting \cup {g} /\ UNCHANGED <<pc, size, lost>>
Leaves(g) ==
  /\ g \in waiting /\ waiting' = waiting \ {g} /\ UNCHANGED <<pc, lost>>
  /\ \/ UNCHANGED size
     \/ Size(g) < Capacity /\ SetSize(g, Size(g) + 1)
Drains(g) ==
  /\ UNCHANGED <<pc, waiting, lost>>
  /\ UNCHANGED size \/ \E n \in Nat : SetSize(g, n) /\ (n < Size(g) \/ n = 0)
Begins(g) == pc' = [pc EXCEPT ![g] = "working"] /\ UNCHANGED <<waiting, size, lost>>
Ends(g) ==
  /\ g \notin waiting /\ pc' = [pc EXCEPT ![g] = "done"] /\ UNCHANGED waiting
  /\ \/ SetSize(g, 0) /\ UNCHANGED lost
     \/ lost' = lost \cup {queueOf[g]} /\ UNCHANGED size

Effect(g) == Passes(g) \/ Enters(g) \/ Leaves(g) \/ Drains(g) \/ Begins(g) \/ Ends(g)

LEMMA StepEffect ==
  ASSUME TypeOK, NEW g \in Goroutine, Putter(g) \/ Poller(g) \/ StartOrEnd(g)
  PROVE  Effect(g) /\ UNCHANGED <<cfg, queueOf>>
<1>1. queueOf[g] \in Queue /\ Size(g) \in Nat
  BY QueueLoopAssumption DEF TypeOK, QueueNames, Size
<1>2. CASE Putter(g)
  <2>1. CASE CheckFails(g) \/ QueueFull(g) BY <2>1 DEF CheckFails, QueueFull, Effect, Passes
  <2>2. CASE CallPut(g)
    <3>1. Enters(g) BY <2>2 DEF CallPut, HasCapacity, Enters
    <3> QED BY <2>2, <3>1 DEF CallPut, Effect
  <2>3. CASE Put(g) \/ PutFails(g)
    <3>1. Leaves(g) BY <2>3 DEF Put, PutFails, Leaves
    <3>2. UNCHANGED <<cfg, queueOf>> BY <2>3 DEF Put, PutFails
    <3> QED BY <3>1, <3>2 DEF Effect
  <2> QED BY <1>2, <2>1, <2>2, <2>3 DEF Putter
<1>3. CASE Poller(g)
  <2>1. UNCHANGED <<cfg, queueOf, pc, waiting, lost>> /\ (UNCHANGED size \/ SetSize(g, AfterPoll(g)))
    BY <1>3 DEF Poller, Poll, PollFails
  <2>2. AfterPoll(g) \in Nat /\ (AfterPoll(g) < Size(g) \/ AfterPoll(g) = 0)
    BY <1>1 DEF AfterPoll
  <2> QED BY <2>1, <2>2 DEF Effect, Drains
<1>4. CASE StartOrEnd(g)
  <2>1. CASE GetQueue(g) BY <2>1 DEF GetQueue, work, Effect, Begins
  <2>2. CASE GetQueueFails(g) BY <2>2 DEF GetQueueFails, work, Effect, Passes
  <2>3. CASE Destroy(g)
    BY <2>3 DEF Destroy, WorkersDone, More, work, TypeOK, Effect, Ends
  <2>4. CASE DestroyFails(g)
    BY <2>4 DEF DestroyFails, WorkersDone, More, work, TypeOK, Effect, Ends
  <2> QED BY <1>4, <2>1, <2>2, <2>3, <2>4 DEF StartOrEnd
<1> QED BY <1>2, <1>3, <1>4

-----------------------------------------------------------------------------
IInv == TypeOK /\ OwnQueueNeverBlocks /\ FullQueueHasAMover /\ QueuesEndEmpty

LEMMA InitIInv == Init => IInv
<1> SUFFICES ASSUME Init PROVE IInv
  OBVIOUS
<1>1. TypeOK BY InitTypes
<1>2. \A q \in Queue : size[q] = 0 BY DEF Init
<1>3. waiting = {} BY DEF Init
<1> QED BY <1>1, <1>2, <1>3, QueueLoopAssumption
        DEF IInv, OwnQueueNeverBlocks, FullQueueHasAMover, QueuesEndEmpty

LEMMA NextIInv == IInv /\ [Next]_vars => IInv'
<1> SUFFICES ASSUME IInv, [Next]_vars PROVE IInv'
  OBVIOUS
<1>0. TypeOK /\ TypeOK'
  BY NextTypes DEF IInv
<1>1. CASE UNCHANGED vars
  BY <1>0, <1>1 DEF vars, work, IInv, OwnQueueNeverBlocks, FullQueueHasAMover, QueuesEndEmpty, Size
<1>2. ASSUME NEW q \in Queue, OthersAct(q) PROVE IInv'
  BY <1>0, <1>2 DEF OthersAct, work, IInv, OwnQueueNeverBlocks, FullQueueHasAMover, QueuesEndEmpty
<1>3. ASSUME NEW g \in Goroutine, Putter(g) \/ Poller(g) \/ StartOrEnd(g) PROVE IInv'
  <2>1. Effect(g) /\ UNCHANGED <<cfg, queueOf>>
    BY <1>0, <1>3, StepEffect
  <2>2. queueOf \in [Goroutine -> Queue] /\ size \in [Queue -> 0..Capacity] /\ Capacity \in Nat \ {0}
    BY <1>0, QueueLoopAssumption DEF TypeOK, QueueNames
  <2>3. pc \in [Goroutine -> {"start", "working", "done"}] /\ \A h \in waiting : h \in Goroutine /\ pc[h] = "working"
    BY <1>0 DEF TypeOK
  <2>4. OwnQueueNeverBlocks'
    <3> SUFFICES ASSUME ~cfg.shared, ~cfg.others, NEW h \in waiting' PROVE Size(h)' < Capacity
      BY <2>1 DEF OwnQueueNeverBlocks
    <3>1. h \in waiting => Size(h) < Capacity
      BY DEF IInv, OwnQueueNeverBlocks
    <3>2. h \in Goroutine /\ (h # g => queueOf[h] # queueOf[g])
      BY <1>0, <2>1, <2>3 DEF TypeOK, QueueNames
    <3> QED
      BY <2>1, <2>2, <3>1, <3>2
      DEF Effect, Passes, Enters, Leaves, Drains, Begins, Ends, Size, SetSize
  <2>5. FullQueueHasAMover'
    <3> SUFFICES ASSUME ~cfg.others, NEW q \in Queue \ lost', size'[q] = Capacity
                 PROVE  \E h \in Goroutine : queueOf[h] = q /\ pc'[h] = "working" /\ h \notin waiting'
      BY <2>1 DEF FullQueueHasAMover
    <3>1. q \notin lost
      BY <2>1 DEF Effect, Passes, Enters, Leaves, Drains, Begins, Ends
    <3>2. CASE size[q] = Capacity
      <4>1. PICK h \in Goroutine : queueOf[h] = q /\ pc[h] = "working" /\ h \notin waiting
        BY <3>1, <3>2 DEF IInv, FullQueueHasAMover
      <4>2. h \notin waiting' /\ pc'[h] = "working"
        BY <2>1, <2>2, <2>3, <3>2, <4>1
        DEF Effect, Passes, Enters, Leaves, Drains, Begins, Ends, Size, SetSize
      <4> QED BY <4>1, <4>2
    <3>3. CASE size[q] # Capacity
      <4>1. Leaves(g) /\ queueOf[g] = q
        BY <2>1, <2>2, <3>3 DEF Effect, Passes, Enters, Leaves, Drains, Begins, Ends, Size, SetSize
      <4> QED BY <2>3, <4>1 DEF Leaves
    <3> QED BY <3>2, <3>3
  <2>6. QueuesEndEmpty'
    <3> SUFFICES ASSUME ~cfg.others, NEW q \in Queue \ lost', size'[q] > 0
                 PROVE  \E h \in Goroutine : queueOf[h] = q /\ pc'[h] = "working"
      BY <2>1 DEF QueuesEndEmpty
    <3>1. q \notin lost
      BY <2>1 DEF Effect, Passes, Enters, Leaves, Drains, Begins, Ends
    <3>2. CASE size[q] > 0
      <4>1. PICK h \in Goroutine : queueOf[h] = q /\ pc[h] = "working"
        BY <3>1, <3>2 DEF IInv, QueuesEndEmpty
      <4>2. pc'[h] = "working"
        BY <2>1, <2>2, <2>3, <4>1
        DEF Effect, Passes, Enters, Leaves, Drains, Begins, Ends, Size, SetSize
      <4> QED BY <4>1, <4>2
    <3>3. CASE ~(size[q] > 0)
      <4>1. Leaves(g) /\ queueOf[g] = q
        BY <2>1, <2>2, <3>3 DEF Effect, Passes, Enters, Leaves, Drains, Begins, Ends, Size, SetSize
      <4> QED BY <2>3, <4>1 DEF Leaves
    <3> QED BY <3>2, <3>3
  <2> QED BY <1>0, <2>4, <2>5, <2>6 DEF IInv
<1> QED BY <1>1, <1>2, <1>3 DEF Next

(* Types, waiting and fill levels of the queues are inductive together.    *)
THEOREM IInvHolds == Spec => []IInv
  BY InitIInv, NextIInv, PTL DEF Spec

(* A goroutine on a queue of its own never waits in Put.                   *)
THEOREM NeverBlocksAlone == Spec => []OwnQueueNeverBlocks
<1>1. IInv => OwnQueueNeverBlocks BY DEF IInv
<1> QED BY <1>1, IInvHolds, PTL

(* A full queue has a user that is not waiting: it is never the case that  *)
(* everybody waits for it to drain.                                        *)
THEOREM AlwaysAMover == Spec => []FullQueueHasAMover
<1>1. IInv => FullQueueHasAMover BY DEF IInv
<1> QED BY <1>1, IInvHolds, PTL

(* No values remain in a queue that all its users have destroyed.          *)
THEOREM EndEmpty == Spec => []QueuesEndEmpty
<1>1. IInv => QueuesEndEmpty BY DEF IInv
<1> QED BY <1>1, IInvHolds, PTL
-----------------------------------------------------------------------------
(* Why everybody ends (GoroutinesEnd).  First, there is a bound on the     *)
(* steps a goroutine and its workers can still take.                       *)
StepsLeft(g) ==
  CASE ~up \/ pc[g] = "done" -> 0
    [] up /\ pc[g] = "start" -> 2 * putsLeft[g] + pollsLeft[g] + 2
    [] up /\ pc[g] = "working" ->
         2 * putsLeft[g] + pollsLeft[g] + (IF g \in waiting THEN 0 ELSE 1)

StepOf(g) == Putter(g) \/ Poller(g) \/ StartOrEnd(g)

(* Every step of a goroutine lowers its bound, and no step raises it.      *)
StepsRunOut ==
  [][\A g \in Goroutine :
       /\ StepOf(g) => StepsLeft(g)' < StepsLeft(g)
       /\ StepsLeft(g)' <= StepsLeft(g)]_vars

(* Second, a goroutine can move on its own unless its put worker waits at  *)
(* a full queue and its poll worker has nothing left to do.                *)
CanMove(g) ==
  \/ pc[g] = "start"
  \/ pc[g] = "working" /\ ~(g \in waiting /\ Size(g) >= Capacity /\ ~More(pollsLeft[g]))

SomebodyCanMove ==
  ~cfg.others =>
    \A g \in Goroutine :
      pc[g] # "done" /\ queueOf[g] \notin lost =>
        \E h \in Goroutine : queueOf[h] = queueOf[g] /\ CanMove(h)

LEMMA LeftNatural ==
  ASSUME TypeOK, NEW g \in Goroutine
  PROVE  StepsLeft(g) \in Nat
  BY DEF TypeOK, StepsLeft

LEMMA StepRunsOut ==
  ASSUME TypeOK, NEW g \in Goroutine, StepOf(g)
  PROVE  StepsLeft(g)' < StepsLeft(g)
<1>0. /\ putsLeft \in [Goroutine -> Nat] /\ pollsLeft \in [Goroutine -> Nat]
      /\ pc \in [Goroutine -> {"start", "working", "done"}]
      /\ g \in waiting => pc[g] = "working" /\ putsLeft[g] > 0
  BY DEF TypeOK
<1>1. CASE CheckFails(g) \/ QueueFull(g)
  <2>1. UNCHANGED <<up, pc, waiting, pollsLeft>> /\ putsLeft'[g] = putsLeft[g] - 1 /\ up
        /\ pc[g] = "working" /\ g \notin waiting /\ putsLeft[g] > 0
    BY <1>0, <1>1 DEF CheckFails, QueueFull, Putting, PutDone, More
  <2> QED BY <1>0, <2>1 DEF StepsLeft
<1>2. CASE CallPut(g)
  <2>1. UNCHANGED <<up, pc, putsLeft, pollsLeft>> /\ up /\ pc[g] = "working" /\ g \notin waiting
        /\ waiting' = waiting \cup {g}
    BY <1>2 DEF CallPut, Putting
  <2> QED BY <1>0, <2>1 DEF StepsLeft
<1>3. CASE Put(g) \/ PutFails(g)
  <2>1. UNCHANGED <<up, pc, pollsLeft>> /\ putsLeft'[g] = putsLeft[g] - 1 /\ up
        /\ g \in waiting /\ waiting' = waiting \ {g}
    BY <1>0, <1>3 DEF Put, PutFails, PutDone
  <2> QED BY <1>0, <2>1 DEF StepsLeft
<1>4. CASE Poller(g)
  <2>1. UNCHANGED <<up, pc, waiting, putsLeft>> /\ up /\ pc[g] = "working"
        /\ pollsLeft'[g] = pollsLeft[g] - 1 /\ pollsLeft[g] > 0
    BY <1>0, <1>4 DEF Poller, Poll, PollFails, AfterFailedPoll, PollDone, More
  <2> QED BY <1>0, <2>1 DEF StepsLeft
<1>5. CASE GetQueue(g)
  <2>1. UNCHANGED <<up, waiting, putsLeft, pollsLeft>> /\ up /\ pc[g] = "start" /\ pc'[g] = "working"
    BY <1>0, <1>5 DEF GetQueue, work
  <2> QED BY <1>0, <2>1 DEF StepsLeft
<1>6. CASE GetQueueFails(g)
  <2>1. up /\ pc[g] = "start" /\ ~up'
    BY <1>6 DEF GetQueueFails
  <2> QED BY <1>0, <2>1 DEF StepsLeft
<1>7. CASE Destroy(g) \/ DestroyFails(g)
  <2>1. up /\ pc[g] = "working" /\ pc'[g] = "done" /\ g \notin waiting
    BY <1>0, <1>7 DEF Destroy, DestroyFails, WorkersDone, More
  <2> QED BY <1>0, <2>1 DEF StepsLeft
<1> QED BY <1>1, <1>2, <1>3, <1>4, <1>5, <1>6, <1>7 DEF StepOf, Putter, StartOrEnd

(* The steps of the others and of other instances leave it alone, or end   *)
(* the process.                                                            *)
LEMMA OthersLeaveIt ==
  ASSUME TypeOK, [Next]_vars, NEW g \in Goroutine, ~StepOf(g)
  PROVE  StepsLeft(g)' = StepsLeft(g) \/ ~up'
<1>1. ASSUME NEW k \in Goroutine, StepOf(k)
      PROVE  StepsLeft(g)' = StepsLeft(g) \/ ~up'
  <2>1. k # g BY <1>1
  <2>2. GetQueueFails(k) => ~up'
    BY DEF GetQueueFails
  <2>3. CASE ~GetQueueFails(k)
    <3>1. up' = up
      BY <1>1, <2>3 DEF StepOf, Putter, Poller, StartOrEnd, CheckFails, QueueFull, CallPut, Put,
                        PutFails, Poll, PollFails, GetQueue, Destroy, DestroyFails
    <3>2. pc'[g] = pc[g]
      BY <1>1, <2>1 DEF StepOf, Putter, Poller, StartOrEnd, CheckFails, QueueFull, CallPut, Put,
                        PutFails, Poll, PollFails, GetQueue, GetQueueFails, Destroy, DestroyFails,
                        TypeOK
    <3>3. putsLeft'[g] = putsLeft[g] /\ pollsLeft'[g] = pollsLeft[g]
      BY <1>1, <2>1 DEF StepOf, Putter, Poller, StartOrEnd, CheckFails, QueueFull, CallPut, Put,
                        PutFails, Poll, PollFails, AfterFailedPoll, PutDone, PollDone, GetQueue,
                        GetQueueFails, Destroy, DestroyFails, work, TypeOK
    <3>4. g \in waiting' <=> g \in waiting
      BY <1>1, <2>1 DEF StepOf, Putter, Poller, StartOrEnd, CheckFails, QueueFull, CallPut, Put,
                        PutFails, Poll, PollFails, GetQueue, GetQueueFails, Destroy, DestroyFails,
                        work
    <3> QED BY <3>1, <3>2, <3>3, <3>4 DEF StepsLeft
  <2> QED BY <2>2, <2>3
<1>2. ASSUME NEW q \in Queue, OthersAct(q)
      PROVE  StepsLeft(g)' = StepsLeft(g)
  BY <1>2 DEF OthersAct, work, StepsLeft
<1>3. CASE UNCHANGED vars
  BY <1>3 DEF vars, work, StepsLeft
<1> QED BY <1>1, <1>2, <1>3 DEF Next, StepOf

(* All loops over queues are finite, whatever calls return and whoever     *)
(* else uses the queues: the bound is a natural number, a goroutine's own  *)
(* steps lower it and nothing raises it.                                   *)
THEOREM WorkersRunOutOfSteps ==
  Spec => [](\A g \in Goroutine : StepsLeft(g) \in Nat) /\ StepsRunOut
<1>1. TypeOK => \A g \in Goroutine : StepsLeft(g) \in Nat
  BY LeftNatural
<1>2. TypeOK /\ [Next]_vars =>
        [\A g \in Goroutine :
           /\ StepOf(g) => StepsLeft(g)' < StepsLeft(g)
           /\ StepsLeft(g)' <= StepsLeft(g)]_vars
  <2> SUFFICES ASSUME TypeOK, [Next]_vars, NEW g \in Goroutine
               PROVE  /\ StepOf(g) => StepsLeft(g)' < StepsLeft(g)
                      /\ StepsLeft(g)' <= StepsLeft(g)
    OBVIOUS
  <2>1. StepsLeft(g) \in Nat BY LeftNatural
  <2>2. TypeOK' BY NextTypes
  <2>3. StepsLeft(g)' \in Nat BY <2>2 DEF TypeOK, StepsLeft
  <2>4. StepOf(g) => StepsLeft(g)' < StepsLeft(g) BY StepRunsOut
  <2>5. ~StepOf(g) => StepsLeft(g)' <= StepsLeft(g)
    <3>1. ~up' => StepsLeft(g)' = 0 BY DEF StepsLeft
    <3> QED BY <2>1, <2>3, <3>1, OthersLeaveIt
  <2> QED BY <2>1, <2>3, <2>4, <2>5
<1> QED BY <1>1, <1>2, InitTypes, NextTypes, PTL DEF Spec, StepsRunOut

(* Among the users of a queue that no other instance uses, somebody can    *)
(* move until all of them are done: workers that wait for a full queue to  *)
(* drain never wait in a circle, even when all polls are used up.          *)
THEOREM NeverStuck == Spec => []SomebodyCanMove
<1>1. IInv => SomebodyCanMove
  <2> SUFFICES ASSUME IInv, ~cfg.others, NEW g \in Goroutine, pc[g] # "done", queueOf[g] \notin lost
               PROVE  \E h \in Goroutine : queueOf[h] = queueOf[g] /\ CanMove(h)
    BY DEF SomebodyCanMove
  <2>1. /\ pc[g] \in {"start", "working"} /\ queueOf[g] \in Queue
        /\ size[queueOf[g]] \in 0..Capacity /\ Capacity \in Nat
    BY QueueLoopAssumption DEF IInv, TypeOK, QueueNames
  <2>2. CASE g \in waiting /\ Size(g) >= Capacity
    <3>1. size[queueOf[g]] = Capacity
      BY <2>1, <2>2 DEF Size
    <3>2. PICK h \in Goroutine : queueOf[h] = queueOf[g] /\ pc[h] = "working" /\ h \notin waiting
      BY <2>1, <3>1 DEF IInv, FullQueueHasAMover
    <3> QED BY <3>2 DEF CanMove
  <2>3. CASE ~(g \in waiting /\ Size(g) >= Capacity)
    BY <2>1, <2>3 DEF CanMove
  <2> QED BY <2>2, <2>3
<1> QED BY <1>1, IInvHolds, PTL
=============================================================================
