------------------------------ MODULE QueueLoop ------------------------------
(***************************************************************************)
(* The queue test loop of src/queues/testloop.go.  Each queue goroutine    *)
(* starts a worker that puts and one that polls, waits for both, and       *)
(* destroys the queue.  Goroutines may share a queue, and so may other     *)
(* instances.  Of a queue only its length is kept, of the loops over runs  *)
(* and elements only the number of operations left.                        *)
(*                                                                         *)
(* The capacity is checked before each put, but the put itself waits while *)
(* the queue is full.  A call that returns an error may have taken effect. *)
(***************************************************************************)
EXTENDS Integers, FiniteSets

CONSTANTS
  Goroutine,   \* queue goroutines of one runner
  Queue,       \* queues in the cluster
  Capacity,    \* maximum length of a queue
  Configs      \* the configurations to consider

(* shared: the queue name has no queue index; others: other instances use  *)
(* the queues.  numPuts and numPolls are numRuns times the number of       *)
(* elements, 0 if the operation is disabled.                               *)
ConfigType == [shared : BOOLEAN, others : BOOLEAN, numPuts : Nat, numPolls : Nat]

ASSUME QueueLoopAssumption ==
  /\ IsFiniteSet(Goroutine)
  /\ Capacity \in Nat \ {0}
  /\ Configs \subseteq ConfigType

VARIABLES
  cfg,        \* the runner's configuration, fixed
  queueOf,    \* the queue of each goroutine, fixed
  up,         \* FALSE once a fatal log event has ended the process
  pc,         \* each goroutine: "start", "working" or "done"
  waiting,    \* goroutines whose put worker has called Put
  putsLeft, pollsLeft,  \* operations the workers have left
  size,       \* number of values in each queue
  lost        \* history: queues of which a Destroy had no effect

work == <<waiting, putsLeft, pollsLeft>>
vars == <<cfg, queueOf, up, pc, work, size, lost>>

(* assembleQueueName: one name for all, or one for each.                   *)
QueueNames(shared) ==
  {f \in [Goroutine -> Queue] :
     \A g, h \in Goroutine : g # h => (f[g] = f[h] <=> shared)}

Init ==
  /\ cfg \in Configs
  /\ queueOf \in QueueNames(cfg.shared)
  /\ up = TRUE
  /\ pc = [g \in Goroutine |-> "start"]
  /\ waiting = {}
  /\ putsLeft = [g \in Goroutine |-> cfg.numPuts]
  /\ pollsLeft = [g \in Goroutine |-> cfg.numPolls]
  /\ size = [q \in Queue |-> 0]
  /\ lost = {}

-----------------------------------------------------------------------------
Size(g) == size[queueOf[g]]
SetSize(g, n) == size' = [size EXCEPT ![queueOf[g]] = n]
AfterPoll(g) == IF Size(g) = 0 THEN 0 ELSE Size(g) - 1

MutMore(n) == n >= 0

(* i < numRuns, i < len(elements)                                          *)
More(n) == n > 0

PutDone(g) == putsLeft' = [putsLeft EXCEPT ![g] = @ - 1]
PollDone(g) == pollsLeft' = [pollsLeft EXCEPT ![g] = @ - 1]

GetQueue(g) ==
  /\ up /\ pc[g] = "start"
  /\ pc' = [pc EXCEPT ![g] = "working"]
  /\ UNCHANGED <<cfg, queueOf, up, work, size, lost>>

(* Logged as fatal, which ends the process with all its goroutines.        *)
GetQueueFails(g) ==
  /\ up /\ pc[g] = "start"
  /\ up' = FALSE
  /\ UNCHANGED <<cfg, queueOf, pc, work, size, lost>>

Putting(g) == up /\ pc[g] = "working" /\ More(putsLeft[g]) /\ g \notin waiting

(* RemainingCapacity returns an error: the element is passed over.         *)
CheckFails(g) ==
  /\ Putting(g)
  /\ PutDone(g)
  /\ UNCHANGED <<cfg, queueOf, up, pc, waiting, pollsLeft, size, lost>>

MutHasCapacity(g) == Size(g) <= Capacity

HasCapacity(g) == Size(g) < Capacity

(* "won't execute put": the element is passed over, not tried again.       *)
QueueFull(g) ==
  /\ Putting(g) /\ ~HasCapacity(g)
  /\ PutDone(g)
  /\ UNCHANGED <<cfg, queueOf, up, pc, waiting, pollsLeft, size, lost>>

CallPut(g) ==
  /\ Putting(g) /\ HasCapacity(g)
  /\ waiting' = waiting \cup {g}
  /\ UNCHANGED <<cfg, queueOf, up, pc, putsLeft, pollsLeft, size, lost>>

(* Put does not return while the queue is full.                            *)
Put(g) ==
  /\ up /\ g \in waiting /\ Size(g) < Capacity
  /\ SetSize(g, Size(g) + 1)
  /\ waiting' = waiting \ {g} /\ PutDone(g)
  /\ UNCHANGED <<cfg, queueOf, up, pc, pollsLeft, lost>>

PutFails(g) ==
  /\ up /\ g \in waiting
  /\ waiting' = waiting \ {g} /\ PutDone(g)
  /\ \/ UNCHANGED size
     \/ Size(g) < Capacity /\ SetSize(g, Size(g) + 1)
  /\ UNCHANGED <<cfg, queueOf, up, pc, pollsLeft, lost>>

(* A value, or nil from an empty queue.                                    *)
Poll(g) ==
  /\ up /\ pc[g] = "working" /\ More(pollsLeft[g])
  /\ SetSize(g, AfterPoll(g))
  /\ PollDone(g)
  /\ UNCHANGED <<cfg, queueOf, up, pc, waiting, putsLeft, lost>>

MutAfterFailedPoll(g) == UNCHANGED pollsLeft

AfterFailedPoll(g) == PollDone(g)

PollFails(g) ==
  /\ up /\ pc[g] = "working" /\ More(pollsLeft[g])
  /\ UNCHANGED size \/ SetSize(g, AfterPoll(g))
  /\ AfterFailedPoll(g)
  /\ UNCHANGED <<cfg, queueOf, up, pc, waiting, putsLeft, lost>>

MutWorkersDone(g) == ~More(pollsLeft[g])

(* putWg.Wait, pollWg.Wait                                                 *)
WorkersDone(g) == ~More(putsLeft[g]) /\ ~More(pollsLeft[g])

(* The deferred Destroy, whose error is dropped.  The queue comes back     *)
(* empty with the next put.                                                *)
Destroy(g) ==
  /\ up /\ pc[g] = "working" /\ WorkersDone(g)
  /\ SetSize(g, 0)
  /\ pc' = [pc EXCEPT ![g] = "done"]
  /\ UNCHANGED <<cfg, queueOf, up, work, lost>>

DestroyFails(g) ==
  /\ up /\ pc[g] = "working" /\ WorkersDone(g)
  /\ lost' = lost \cup {queueOf[g]}
  /\ pc' = [pc EXCEPT ![g] = "done"]
  /\ UNCHANGED <<cfg, queueOf, up, work, size>>

(* The put and poll workers of other instances.                            *)
OthersAct(q) ==
  /\ cfg.others
  /\ \E n \in {size[q] - 1, size[q] + 1, 0} :
       n \in 0..Capacity /\ size' = [size EXCEPT ![q] = n]
  /\ UNCHANGED <<cfg, queueOf, up, pc, work, lost>>

Putter(g) == CheckFails(g) \/ QueueFull(g) \/ CallPut(g) \/ Put(g) \/ PutFails(g)
Poller(g) == Poll(g) \/ PollFails(g)
StartOrEnd(g) == GetQueue(g) \/ GetQueueFails(g) \/ Destroy(g) \/ DestroyFails(g)

Next ==
  \/ \E g \in Goroutine : Putter(g) \/ Poller(g) \/ StartOrEnd(g)
  \/ \E q \in Queue : OthersAct(q)

Spec == Init /\ [][Next]_vars

(* Goroutines are scheduled and calls return, except a Put on a full       *)
(* queue, which may fail but need not.                                     *)
Returns(g) == Putter(g) /\ (g \in waiting => Size(g) < Capacity)

FairSpec ==
  /\ Spec
  /\ \A g \in Goroutine :
       WF_vars(Returns(g)) /\ WF_vars(Poller(g)) /\ WF_vars(StartOrEnd(g))
-----------------------------------------------------------------------------
TypeOK ==
  /\ cfg \in Configs
  /\ queueOf \in QueueNames(cfg.shared)
  /\ up \in BOOLEAN
  /\ pc \in [Goroutine -> {"start", "working", "done"}]
  /\ waiting \subseteq {g \in Goroutine : pc[g] = "working" /\ putsLeft[g] > 0}
  /\ putsLeft \in [Goroutine -> Nat] /\ pollsLeft \in [Goroutine -> Nat]
  /\ size \in [Queue -> 0..Capacity]
  /\ lost \subseteq Queue

(* On a queue of its own, a goroutine never waits in Put: the capacity     *)
(* that was checked before is still there.                                 *)
OwnQueueNeverBlocks ==
  ~cfg.shared /\ ~cfg.others => \A g \in waiting : Size(g) < Capacity

(* On a shared queue the checked capacity can be gone.  But a full queue   *)
(* always has a user that is not waiting for it to drain and will destroy  *)
(* it in the end, unless a Destroy failed.                                 *)
FullQueueHasAMover ==
  ~cfg.others =>
    \A q \in Queue \ lost :
      size[q] = Capacity =>
        \E g \in Goroutine : queueOf[g] = q /\ pc[g] = "working" /\ g \notin waiting

(* Values in a queue belong to a goroutine that has yet to destroy it.     *)
QueuesEndEmpty ==
  ~cfg.others =>
    \A q \in Queue \ lost :
      size[q] > 0 => \E g \in Goroutine : queueOf[g] = q /\ pc[g] = "working"

(* Every goroutine ends, whatever calls fail, unless another instance      *)
(* fills the queue, a Destroy had no effect or the process dies.           *)
GoroutinesEnd ==
  ~cfg.others => <>(~up \/ lost # {} \/ \A g \in Goroutine : pc[g] = "done")

(* The poll workers end in any case.                                       *)
PollersEnd == <>(~up \/ \A g \in Goroutine : pollsLeft[g] = 0)
=============================================================================
