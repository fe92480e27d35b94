-------------------------- MODULE MemberKillerProofs --------------------------
(***************************************************************************)
(* Proofs about MemberKiller, for any pods and configurations.             *)
(***************************************************************************)
EXTENDS MemberKiller, TLAPS

(* What has been set up by the time each step is reached.                  *)
SetUp ==
  /\ pc \in {"namespace", "list", "kill"} => clientset
  /\ pc \in {"list", "kill"} => namespace # ""

(* Where the chosen pod comes from.                                        *)
ChosenFromList ==
  pc = "kill" => chosen # {} /\ (cfg.targetOnlyActive => chosen \subseteq wasReady)

IInv == TypeOK /\ SetUp /\ ChosenFromList /\ KillsWhereItListed /\ KillsAreReal

LEMMA ConfigTypes ==
  ASSUME NEW c \in Configs
  PROVE  c.numRuns \in Nat \ {0} /\ c.namespace = "configured" /\ c.env \in {"", "env"}
<1>1. c \in ConfigType BY MemberKillerAssumption
<1> QED BY <1>1 DEF ConfigType

LEMMA InitIInv == Init => IInv
<1> SUFFICES ASSUME Init PROVE IInv
  OBVIOUS
<1>1. cfg.numRuns \in Nat BY ConfigTypes DEF Init
<1>2. run = 0 /\ accepted = 0 BY DEF Init
<1>3. run \in 0..cfg.numRuns /\ accepted <= run BY <1>1, <1>2
<1> QED
  BY <1>3 DEF Init, IInv, TypeOK, SetUp, ChosenFromList, KillsWhereItListed, KillsAreReal

LEMMA Discovered ==
  ASSUME TypeOK, NEW file \in Files
  PROVE  DiscoveredFrom(file) \in {"", "configured", "env", "file"}
  BY ConfigTypes DEF TypeOK, Files, DiscoveredFrom

LEMMA Bounds ==
  ASSUME TypeOK
  PROVE  /\ cfg.numRuns \in Nat /\ run \in Nat
         /\ numMembersKilled \in Nat /\ accepted \in Nat
<1>1. cfg.numRuns \in Nat \ {0} BY ConfigTypes DEF TypeOK
<1>2. run \in 0..cfg.numRuns /\ numMembersKilled \in Nat /\ accepted \in Nat BY DEF TypeOK
<1> QED BY <1>1, <1>2

(* A run that has begun is not the last one done, so it can be counted.    *)
BegunRuns == pc \in {"clientset", "namespace", "list", "kill"} => run < cfg.numRuns

LEMMA InitBegun == Init => BegunRuns
  BY DEF Init, BegunRuns

LEMMA NextBegun == TypeOK /\ BegunRuns /\ [Next]_vars => BegunRuns'
<1> SUFFICES ASSUME TypeOK, BegunRuns, [Next]_vars PROVE BegunRuns'
  OBVIOUS
<1> USE DEF BegunRuns
<1>1. CASE Monkey
  <2>1. CASE EndRun BY <2>1 DEF EndRun
  <2>2. CASE UNCHANGED run
    BY <1>1, <2>2 DEF Monkey, Inactive, Strike, GetClientset, ClientsetFails, GetNamespace,
       NamespaceFails, Choose, NoneFound, ListFails, Kill, KillFails, Finish, EndRun, EndFailedRun, MoreRuns, List
  <2> QED
    BY <1>1, <2>1, <2>2 DEF Monkey, Inactive, Strike, GetClientset, ClientsetFails, GetNamespace,
       NamespaceFails, Choose, NoneFound, ListFails, Kill, KillFails, Finish, EndFailedRun
<1>2. CASE Cluster BY <1>2 DEF Cluster
<1>3. CASE UNCHANGED vars BY <1>3 DEF vars
<1> QED BY <1>1, <1>2, <1>3 DEF Next

LEMMA EndOfRun ==
  ASSUME IInv, run < cfg.numRuns, EndRun
  PROVE  run' \in 0..cfg.numRuns /\ run' = run + 1 /\ pc' = "run" /\ chosen' = {} /\ accepted <= run'
<1>1. cfg.numRuns \in Nat /\ run \in Nat /\ accepted \in Nat /\ accepted <= run
  BY Bounds DEF IInv, KillsAreReal
<1> QED BY <1>1 DEF EndRun

(* A run that ends without a deletion.                                     *)
LEMMA QuietEnd ==
  ASSUME IInv, run < cfg.numRuns, EndRun, UNCHANGED <<cfg, shared, numMembersKilled, pods, accepted>>,
         listedIn' \in {listedIn, namespace}, wasReady' \in {wasReady, ready}
  PROVE  IInv'
<1>1. /\ run' \in 0..cfg.numRuns /\ run' = run + 1 /\ pc' = "run" /\ chosen' = {}
      /\ accepted' <= run'
  BY EndOfRun
<1>2. TypeOK'
  BY <1>1 DEF IInv, TypeOK, shared, pods
<1>3. KillsAreReal'
  BY <1>1 DEF IInv, KillsAreReal
<1> QED
  BY <1>1, <1>2, <1>3 DEF IInv, SetUp, ChosenFromList, KillsWhereItListed

LEMMA NextIInv == IInv /\ BegunRuns /\ [Next]_vars => IInv'
<1> SUFFICES ASSUME IInv, BegunRuns, [Next]_vars PROVE IInv'
  OBVIOUS
<1>1. CASE Inactive BY <1>1, QuietEnd DEF Inactive, MoreRuns, history
<1>2. CASE ClientsetFails BY <1>2, QuietEnd DEF ClientsetFails, EndFailedRun, BegunRuns, history
<1>3. CASE NamespaceFails BY <1>3, QuietEnd DEF NamespaceFails, EndFailedRun, BegunRuns, history
<1>4. CASE NoneFound BY <1>4, QuietEnd DEF NoneFound, List, EndFailedRun, BegunRuns
<1>5. CASE ListFails BY <1>5, QuietEnd DEF ListFails, EndFailedRun, BegunRuns, history
<1>6. CASE Kill \/ KillFails
  <2>1. /\ run' \in 0..cfg.numRuns /\ run' = run + 1 /\ pc' = "run" /\ chosen' = {}
    BY <1>6, EndOfRun DEF Kill, KillFails, BegunRuns
  <2>2. /\ existing' \subseteq Pod /\ ready' \subseteq existing' /\ terminating' \subseteq existing'
    <3>1. chosen \subseteq existing => (Delete(chosen) => existing' \subseteq Pod
             /\ ready' \subseteq existing' /\ terminating' \subseteq existing')
      BY DEF Delete, IInv, TypeOK
    <3> QED BY <1>6, <3>1 DEF Kill, KillFails, IInv, TypeOK, pods
  <2>3. UNCHANGED <<cfg, clientset, namespace, listedIn, wasReady>>
    BY <1>6 DEF Kill, KillFails, shared
  <2>4. /\ numMembersKilled \in Nat /\ accepted \in Nat /\ run \in Nat
        /\ numMembersKilled <= accepted /\ accepted <= run
    BY Bounds DEF IInv, KillsAreReal
  <2>5. \/ accepted' = accepted + 1 /\ numMembersKilled' \in {numMembersKilled, numMembersKilled + 1}
        \/ accepted' = accepted /\ numMembersKilled' = numMembersKilled
    BY <1>6 DEF Kill, KillFails, Delete, CountFailedKill
  <2>6. /\ numMembersKilled' \in Nat /\ accepted' \in Nat
        /\ numMembersKilled' <= accepted' /\ accepted' <= run'
    BY <2>1, <2>4, <2>5
  <2>7. TypeOK'
    BY <2>1, <2>2, <2>3, <2>6 DEF IInv, TypeOK
  <2> QED
    BY <2>1, <2>3, <2>6, <2>7 DEF IInv, SetUp, ChosenFromList, KillsWhereItListed, KillsAreReal
<1> USE DEF IInv, TypeOK, SetUp, ChosenFromList, KillsWhereItListed, KillsAreReal, shared, pods, history
<1>7. CASE Strike BY <1>7 DEF Strike
<1>8. CASE GetClientset BY <1>8 DEF GetClientset
<1>9. CASE GetNamespace
  <2>1. namespace' # "" /\ namespace' \in {"configured", "env", "file"}
    BY <1>9, Discovered DEF GetNamespace, Remember
  <2> QED BY <1>9, <2>1 DEF GetNamespace
<1>10. CASE Choose BY <1>10 DEF Choose, List, Targets
<1>11. CASE Finish BY <1>11 DEF Finish
<1>12. CASE Cluster
  <2>1. existing' \subseteq Pod /\ ready' \subseteq existing' /\ terminating' \subseteq existing'
    BY <1>12 DEF Cluster, BecomesReady, BecomesUnready, Disappears, Recreated
  <2> QED BY <1>12, <2>1 DEF Cluster
<1>13. CASE UNCHANGED vars BY <1>13 DEF vars
<1> QED
  BY <1>1, <1>2, <1>3, <1>4, <1>5, <1>6, <1>7, <1>8, <1>9, <1>10, <1>11, <1>12, <1>13
  DEF Next, Monkey

(* The inductive invariant and the bound on the runs begun hold always.    *)
THEOREM IInvHolds == Spec => [](IInv /\ BegunRuns)
<1>1. IInv => TypeOK BY DEF IInv
<1> QED BY <1>1, InitIInv, InitBegun, NextIInv, NextBegun, PTL DEF Spec

(* Types are right for all pods and configurations.                        *)
THEOREM TypeCorrect == Spec => []TypeOK
<1>1. IInv => TypeOK BY DEF IInv
<1> QED BY <1>1, IInvHolds, PTL

(* Deletions happen in the namespace that was listed.                      *)
THEOREM KillsInListedNamespace == Spec => []KillsWhereItListed
<1>1. IInv => KillsWhereItListed BY DEF IInv
<1> QED BY <1>1, IInvHolds, PTL

(* No kill is reported that did not happen, and no run makes two.          *)
THEOREM ReportedKillsAreReal == Spec => []KillsAreReal
<1>1. IInv => KillsAreReal BY DEF IInv
<1> QED BY <1>1, IInvHolds, PTL

(* Only pods seen ready are deleted, if so configured.                     *)
THEOREM OnlyReadyTargets == Spec => TargetsWereReady
<1>1. IInv /\ [Next]_vars =>
        [accepted' > accepted /\ cfg.targetOnlyActive => chosen # {} /\ chosen \subseteq wasReady]_vars
  <2> SUFFICES ASSUME IInv, [Next]_vars, accepted' > accepted, cfg.targetOnlyActive
               PROVE  chosen # {} /\ chosen \subseteq wasReady
    OBVIOUS
  <2>1. accepted' # accepted
    BY Bounds DEF IInv
  <2>2. pc = "kill"
    BY <2>1 DEF Next, Monkey, Cluster, Inactive, Strike, GetClientset, ClientsetFails, GetNamespace,
       NamespaceFails, Choose, NoneFound, ListFails, Kill, KillFails, Finish, List, vars, history
  <2> QED BY <2>2 DEF IInv, ChosenFromList
<1> QED BY <1>1, IInvHolds, PTL DEF Spec, TargetsWereReady
=============================================================================
