-------------------------- MODULE InstanceLifecycle --------------------------
(***************************************************************************)
(* One Hazeltest instance from its start (src/hazeltest.go): configuration *)
(* is parsed, the batch state cleaners run one after the other, and only   *)
(* then the actors -- map runners, queue runners and chaos monkeys -- are  *)
(* started, each in a goroutine.  Every actor tells src/api/endpoints.go   *)
(* when it is not ready yet and when it is; the readiness endpoint answers *)
(* for all of them with one flag.  Some errors make one actor give up,     *)
(* others are logged as fatal and end the process.                         *)
(***************************************************************************)
EXTENDS Integers, FiniteSets

CONSTANTS
  Actor,        \* runners and chaos monkeys
  Connecting,   \* actors that open a Hazelcast client: all runners
  Fallible,     \* actors that can give up between the two calls: map runners
  FatalInLoop,  \* actors whose test loop can end the process: queue runners
  NumCleaners   \* number of registered batch cleaner builders

ASSUME ActorAssumption ==
  /\ IsFiniteSet(Actor)
  /\ Connecting \subseteq Actor /\ Fallible \subseteq Actor /\ FatalInLoop \subseteq Actor

ASSUME CleanersAssumption == NumCleaners \in Nat

VARIABLES
  process,            \* "starting", "cleaning", "testing" or "exited"
  cleaned,            \* number of batch cleaners that have finished without error
  pc,                 \* [Actor -> state of the actor]
  up,                 \* readiness.Up
  registered,         \* readiness.atLeastOneActorRegistered
  numNonReadyActors   \* readiness.numNonReadyActors

readiness == <<up, registered, numNonReadyActors>>
vars == <<process, cleaned, pc, readiness>>

Init ==
  /\ process = "starting" /\ cleaned = 0
  /\ pc = [a \in Actor |-> "off"]
  /\ up = FALSE /\ registered = FALSE /\ numNonReadyActors = 0

-----------------------------------------------------------------------------
(* main                                                                    *)

Exit ==
  /\ process' = "exited"
  /\ UNCHANGED <<cleaned, pc, readiness>>

(* Arguments and config files parse, and cluster and members are named.    *)
ParseConfigs ==
  /\ process = "starting"
  /\ process' = "cleaning"
  /\ UNCHANGED <<cleaned, pc, readiness>>

ParseConfigsFails == process = "starting" /\ Exit

(* One round of the loop in RunCleaners; a disabled cleaner counts too.    *)
RunCleaner ==
  /\ process = "cleaning" /\ cleaned < NumCleaners
  /\ cleaned' = cleaned + 1
  /\ UNCHANGED <<process, pc, readiness>>

(* The first error ends RunCleaners, and main exits on it.                 *)
RunCleanerFails ==
  /\ process = "cleaning" /\ cleaned < NumCleaners
  /\ Exit

MutCleanersDone == TRUE

CleanersDone == cleaned = NumCleaners

StartTesters ==
  /\ process = "cleaning" /\ CleanersDone
  /\ process' = "testing"
  /\ pc' = [a \in Actor |-> "launched"]
  /\ UNCHANGED <<cleaned, readiness>>

-----------------------------------------------------------------------------
(* An actor, from its launch to its end.                                   *)

Running(a, state) == process = "testing" /\ pc[a] = state

Goto(a, state) == pc' = [pc EXCEPT ![a] = state]

(* The configuration is not valid, or says that the actor is disabled.     *)
StaysOut(a) ==
  /\ Running(a, "launched")
  /\ Goto(a, "ended")
  /\ UNCHANGED <<process, cleaned, readiness>>

MutOneMoreNonReady == IF registered THEN numNonReadyActors ELSE numNonReadyActors + 1

OneMoreNonReady == numNonReadyActors + 1

RaiseNotReady(a) ==
  /\ Running(a, "launched")
  /\ Goto(a, "preparing")
  /\ up' = FALSE /\ registered' = TRUE
  /\ numNonReadyActors' = OneMoreNonReady
  /\ UNCHANGED <<process, cleaned>>

(* The runner returns without ever calling RaiseReady: no test loop for    *)
(* the configured type, or no kind of payload enabled.                     *)
GivesUp(a) ==
  /\ Running(a, "preparing") /\ a \in Fallible
  /\ Goto(a, "given up")
  /\ UNCHANGED <<process, cleaned, readiness>>

(* The client cannot connect, or the elements' file cannot be parsed.      *)
DiesFatally(a) ==
  /\ Running(a, "preparing") /\ a \in Connecting
  /\ Exit

MutUpAfterReady == TRUE
MutUpBeforeCount == up \/ (numNonReadyActors = 0 /\ registered)

UpAfterReady == up \/ (numNonReadyActors = 1 /\ registered)

RaiseReady(a) ==
  /\ Running(a, "preparing")
  /\ Goto(a, "looping")
  /\ up' = UpAfterReady
  /\ numNonReadyActors' = numNonReadyActors - 1
  /\ UNCHANGED <<process, cleaned, registered>>

(* A queue cannot be retrieved; a map goroutine would just return.         *)
DiesInLoop(a) ==
  /\ Running(a, "looping") /\ a \in FatalInLoop
  /\ Exit

FinishLoop(a) ==
  /\ Running(a, "looping")
  /\ Goto(a, "ended")
  /\ UNCHANGED <<process, cleaned, readiness>>

-----------------------------------------------------------------------------
Main == ParseConfigs \/ ParseConfigsFails \/ RunCleaner \/ RunCleanerFails \/ StartTesters

Act(a) ==
  \/ StaysOut(a) \/ RaiseNotReady(a) \/ GivesUp(a) \/ DiesFatally(a) \/ RaiseReady(a)
  \/ DiesInLoop(a) \/ FinishLoop(a)

(* The system may stop: an exited process is over, and when all actors     *)
(* have ended only the endpoints are still served.                         *)
Next == Main \/ \E a \in Actor : Act(a)

Spec == Init /\ [][Next]_vars

(* Goroutines are scheduled, and what an actor does before its test loop   *)
(* comes to an end, well or badly.  The loop itself need not end.          *)
FairSpec ==
  /\ Spec /\ WF_vars(Main)
  /\ \A a \in Actor :
       WF_vars(StaysOut(a) \/ RaiseNotReady(a)) /\ WF_vars(GivesUp(a) \/ DiesFatally(a) \/ RaiseReady(a))
-----------------------------------------------------------------------------
States == {"off", "launched", "preparing", "given up", "looping", "ended"}

NonReady == {a \in Actor : pc[a] \in {"preparing", "given up"}}

(* Types, with the counter being exactly the number of actors that have    *)
(* raised not-ready and not ready since.                                   *)
TypeOK ==
  /\ process \in {"starting", "cleaning", "testing", "exited"}
  /\ cleaned \in 0..NumCleaners
  /\ pc \in [Actor -> States]
  /\ up \in BOOLEAN /\ registered \in BOOLEAN
  /\ numNonReadyActors = Cardinality(NonReady)

(* hazeltest.go: state has been evicted from the target cluster prior to   *)
(* the start of load tests.  No actor is beyond its launch unless every    *)
(* batch cleaner has finished, and without an error.                       *)
CleanedBeforeLoad ==
  (\E a \in Actor : pc[a] # "off") => cleaned = NumCleaners

(* The instance is only reported ready while every actor that announced    *)
(* itself is; in particular never again once one of them has given up, and *)
(* not before the cleaners are through.                                    *)
UpMeansReady == up => NonReady = {} /\ cleaned = NumCleaners

(* No step leaves the flag at false when the last announced actor becomes  *)
(* ready, or the readiness probe would fail with every actor at work: only *)
(* one that has yet to become ready, or gave up, can keep it down.         *)
ReadyMeansUp == registered /\ NonReady = {} => up

(* The readiness flag does not get stuck at false, in whichever order the  *)
(* actors raise: in the end it is up for good, unless no actor is enabled, *)
(* one of them gave up, or an error ended the process.                     *)
EventuallyReady ==
  <>[](\/ process = "exited"
       \/ ~registered
       \/ \E a \in Actor : pc[a] = "given up"
       \/ up)
=============================================================================
