----------------------- MODULE InstanceLifecycleProofs -----------------------
(***************************************************************************)
(* Proofs about InstanceLifecycle, for any number of actors and cleaners.  *)
(***************************************************************************)
EXTENDS InstanceLifecycle, FiniteSetTheorems, TLAPS

(* No actor exists before the testers are started.                         *)
OffBeforeTesting ==
  process \in {"starting", "cleaning"} => \A a \in Actor : pc[a] = "off"

(* The inductive invariant.                                                *)
IInv == TypeOK /\ CleanedBeforeLoad /\ UpMeansReady /\ OffBeforeTesting

(* The non-ready actors are finitely many.                                 *)
LEMMA NonReadyFinite == IsFiniteSet(NonReady)
BY ActorAssumption, FS_Subset DEF NonReady

(* The counter is right at the start.                                      *)
LEMMA LifecycleInit == Init => IInv
<1> SUFFICES ASSUME Init PROVE IInv
  OBVIOUS
<1>1. NonReady = {}
  BY DEF Init, NonReady
<1>2. Cardinality(NonReady) = 0
  BY <1>1, FS_EmptySet
<1>3. 0 \in 0..NumCleaners
  BY CleanersAssumption
<1> QED
  BY <1>1, <1>2, <1>3
  DEF Init, IInv, TypeOK, States, CleanedBeforeLoad, UpMeansReady, OffBeforeTesting

(* A step that leaves the set of non-ready actors and the readiness record *)
(* alone keeps the counter right.                                          *)
LEMMA MainNext == IInv /\ Main => IInv'
<1> SUFFICES ASSUME IInv, Main PROVE IInv'
  OBVIOUS
<1>0. cleaned \in 0..NumCleaners
  BY DEF IInv, TypeOK
<1> USE DEF IInv, TypeOK, States, CleanedBeforeLoad, UpMeansReady, OffBeforeTesting, readiness
<1>1. CASE ParseConfigs
  BY <1>1 DEF ParseConfigs, NonReady
<1>2. CASE ParseConfigsFails
  BY <1>2 DEF ParseConfigsFails, Exit, NonReady
<1>3. CASE RunCleaner
  <2>1. cleaned < NumCleaners /\ cleaned' = cleaned + 1
    BY <1>3 DEF RunCleaner
  <2>2. cleaned' \in 0..NumCleaners /\ cleaned # NumCleaners
    <3> HIDE DEF IInv
    <3> QED
      BY <1>0, <2>1, CleanersAssumption
  <2>3. ~up /\ \A a \in Actor : pc[a] = "off"
    BY <2>2, Zenon
  <2> QED
    BY <1>3, <2>2, <2>3, Zenon DEF RunCleaner, NonReady
<1>4. CASE RunCleanerFails
  BY <1>4 DEF RunCleanerFails, Exit, NonReady
<1>5. CASE StartTesters
  <2>1. NonReady = {} /\ NonReady' = {}
    BY <1>5 DEF StartTesters, NonReady
  <2>2. numNonReadyActors' = Cardinality(NonReady')
    BY <1>5, <2>1 DEF StartTesters
  <2> QED
    BY <1>5, <2>1, <2>2 DEF StartTesters, CleanersDone
<1> QED
  BY <1>1, <1>2, <1>3, <1>4, <1>5 DEF Main

(* Raising not-ready adds an actor to the non-ready ones, raising ready    *)
(* takes one away, and nothing else changes that set.                      *)
LEMMA ActNext == ASSUME NEW a \in Actor, IInv, Act(a) PROVE IInv'
<1> USE DEF IInv, TypeOK, States, CleanedBeforeLoad, UpMeansReady, OffBeforeTesting, readiness
<1>1. CASE StaysOut(a)
  <2>1. NonReady' = NonReady
    BY <1>1 DEF StaysOut, Running, Goto, NonReady
  <2> QED
    BY <1>1, <2>1 DEF StaysOut, Running, Goto
<1>2. CASE RaiseNotReady(a)
  <2>1. a \notin NonReady /\ NonReady' = NonReady \cup {a}
    BY <1>2 DEF RaiseNotReady, Running, Goto, NonReady
  <2>2. Cardinality(NonReady') = Cardinality(NonReady) + 1
    BY <2>1, NonReadyFinite, FS_AddElement
  <2> QED
    BY <1>2, <2>2 DEF RaiseNotReady, OneMoreNonReady, Running, Goto
<1>3. CASE GivesUp(a)
  <2>1. NonReady' = NonReady
    BY <1>3 DEF GivesUp, Running, Goto, NonReady
  <2> QED
    BY <1>3, <2>1 DEF GivesUp, Running, Goto
<1>4. CASE DiesFatally(a) \/ DiesInLoop(a)
  <2>1. Exit
    BY <1>4 DEF DiesFatally, DiesInLoop
  <2> QED
    BY <2>1 DEF Exit, NonReady
<1>5. CASE RaiseReady(a)
  <2>1. a \in NonReady /\ NonReady' = NonReady \ {a}
    BY <1>5 DEF RaiseReady, Running, Goto, NonReady
  <2>2. Cardinality(NonReady') = Cardinality(NonReady) - 1 /\ Cardinality(NonReady) \in Nat
    BY <2>1, NonReadyFinite, FS_RemoveElement, FS_CardinalityType
  <2>3. ASSUME numNonReadyActors = 1 PROVE NonReady' = {}
    <3>1. Cardinality(NonReady) = 1
      BY <2>3
    <3> HIDE DEF IInv
    <3>2. IsFiniteSet(NonReady') /\ Cardinality(NonReady') = 0
      BY <2>1, <2>2, <3>1, NonReadyFinite, FS_RemoveElement
    <3> QED
      BY <3>2, FS_EmptySet
  <2>4. up' <=> numNonReadyActors = 1 /\ registered
    BY <1>5, <2>1 DEF RaiseReady, UpAfterReady
  <2>5. numNonReadyActors' = Cardinality(NonReady')
    BY <1>5, <2>2 DEF RaiseReady
  <2>6. up' \in BOOLEAN /\ registered' \in BOOLEAN
    BY <1>5 DEF RaiseReady, UpAfterReady
  <2>7. cleaned' = NumCleaners /\ process' = process /\ process = "testing"
    BY <1>5 DEF RaiseReady, Running
  <2>8. pc' \in [Actor -> States]
    BY <1>5 DEF RaiseReady, Goto
  <2>9. UpMeansReady'
    BY <2>3, <2>4, <2>7
  <2> QED
    BY <1>5, <2>5, <2>6, <2>7, <2>8, <2>9, Zenon DEF RaiseReady
<1>6. CASE FinishLoop(a)
  <2>1. NonReady' = NonReady
    BY <1>6 DEF FinishLoop, Running, Goto, NonReady
  <2> QED
    BY <1>6, <2>1 DEF FinishLoop, Running, Goto
<1> QED
  BY <1>1, <1>2, <1>3, <1>4, <1>5, <1>6 DEF Act

(* The conjunction is an invariant: every step of main and of an actor     *)
(* preserves it.                                                           *)
THEOREM LifecycleIInv == Spec => []IInv
<1>1. IInv /\ [Next]_vars => IInv'
  <2> SUFFICES ASSUME IInv, [Next]_vars PROVE IInv'
    OBVIOUS
  <2>1. CASE Main
    BY <2>1, MainNext
  <2>2. CASE \E a \in Actor : Act(a)
    BY <2>2, ActNext
  <2>3. CASE UNCHANGED vars
    BY <2>3 DEF vars, readiness, IInv, TypeOK, CleanedBeforeLoad, UpMeansReady,
                OffBeforeTesting, NonReady
  <2> QED
    BY <2>1, <2>2, <2>3 DEF Next
<1> QED
  BY <1>1, LifecycleInit, PTL DEF Spec

(* The readiness counter is exactly the number of actors that announced    *)
(* themselves and have not become ready.                                   *)
THEOREM LifecycleType == Spec => []TypeOK
<1>1. IInv => TypeOK
  BY DEF IInv
<1> QED
  BY <1>1, LifecycleIInv, PTL

(* No load before all cleaners have finished without error.                *)
THEOREM LoadAfterCleaning == Spec => []CleanedBeforeLoad
<1>1. IInv => CleanedBeforeLoad
  BY DEF IInv
<1> QED
  BY <1>1, LifecycleIInv, PTL

(* The instance is only reported ready when all announced actors are.      *)
THEOREM ReadinessIsSound == Spec => []UpMeansReady
<1>1. IInv => UpMeansReady
  BY DEF IInv
<1> QED
  BY <1>1, LifecycleIInv, PTL

-----------------------------------------------------------------------------
(* The converse: only the last actor to become ready empties the set of    *)
(* non-ready ones, and it finds the counter at one.                        *)
LEMMA ReadyMainNext == IInv /\ ReadyMeansUp /\ Main => ReadyMeansUp'
<1> SUFFICES ASSUME IInv, ReadyMeansUp, Main PROVE ReadyMeansUp'
  OBVIOUS
<1>1. UNCHANGED readiness
  BY DEF Main, ParseConfigs, ParseConfigsFails, Exit, RunCleaner, RunCleanerFails, StartTesters
<1>2. NonReady' = NonReady
  BY DEF Main, ParseConfigs, ParseConfigsFails, Exit, RunCleaner, RunCleanerFails, StartTesters,
         IInv, OffBeforeTesting, NonReady
<1> QED BY <1>1, <1>2 DEF ReadyMeansUp, readiness

LEMMA ReadyActNext ==
  ASSUME NEW a \in Actor, IInv, ReadyMeansUp, Act(a)
  PROVE  ReadyMeansUp'
<1>0. pc \in [Actor -> States] /\ numNonReadyActors = Cardinality(NonReady)
  BY DEF IInv, TypeOK
<1>1. CASE StaysOut(a) \/ GivesUp(a) \/ DiesFatally(a) \/ DiesInLoop(a) \/ FinishLoop(a)
  <2>1. NonReady' = NonReady /\ UNCHANGED readiness
    BY <1>0, <1>1 DEF StaysOut, GivesUp, DiesFatally, DiesInLoop, FinishLoop, Running, Goto, Exit,
                      NonReady
  <2> QED BY <2>1 DEF ReadyMeansUp, readiness
<1>2. CASE RaiseNotReady(a)
  <2>1. a \in NonReady'
    BY <1>0, <1>2 DEF RaiseNotReady, Running, Goto, NonReady
  <2> QED BY <2>1 DEF ReadyMeansUp
<1>3. CASE RaiseReady(a)
  <2>1. a \in NonReady /\ NonReady' = NonReady \ {a}
    BY <1>0, <1>3 DEF RaiseReady, Running, Goto, NonReady
  <2>2. SUFFICES ASSUME registered', NonReady' = {} PROVE up'
    BY DEF ReadyMeansUp
  <2>3. NonReady = {a}
    BY <2>1, <2>2
  <2>4. numNonReadyActors = 1
    BY <1>0, <2>3, FS_Singleton
  <2> QED BY <1>3, <2>2, <2>4 DEF RaiseReady, UpAfterReady
<1> QED BY <1>1, <1>2, <1>3 DEF Act

(* The flag cannot be stuck at false: for any number of actors and any     *)
(* order of their calls it is up as soon as all announced ones are ready.  *)
THEOREM ReadinessNeverStuck == Spec => []ReadyMeansUp
<1>1. Init => ReadyMeansUp
  BY DEF Init, ReadyMeansUp
<1>2. IInv /\ ReadyMeansUp /\ [Next]_vars => ReadyMeansUp'
  <2>1. ASSUME ReadyMeansUp, UNCHANGED vars PROVE ReadyMeansUp'
    <3>1. NonReady' = NonReady /\ UNCHANGED <<registered, up>>
      BY <2>1 DEF vars, readiness, NonReady
    <3> QED BY <2>1, <3>1 DEF ReadyMeansUp
  <2> QED BY <2>1, ReadyMainNext, ReadyActNext DEF Next
<1> QED BY <1>1, <1>2, LifecycleIInv, PTL DEF Spec
=============================================================================
