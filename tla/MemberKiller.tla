----------------------------- MODULE MemberKiller -----------------------------
(***************************************************************************)
(* The member killer monkey: the loop of causeChaos in                     *)
(* src/chaos/monkeys.go, and the choosing and killing of a member through  *)
(* Kubernetes in src/chaos/memberaccess.go.  Chooser and killer share a    *)
(* client set and a namespace, both set up on first use.                   *)
(*                                                                         *)
(* The pods live on meanwhile: they become ready and unready, are          *)
(* terminated by others, disappear, and come back under the same name.     *)
(* A delete call that returns an error may have taken effect.              *)
(***************************************************************************)
EXTENDS Integers, FiniteSets

CONSTANTS
  Pod,      \* names of the member pods the label selector matches
  Configs   \* the configurations to consider

(* Of monkeyConfig and memberAccessConfig.  chaosProbability stands for    *)
(* less than one or one; namespace is the configured one, used out of the  *)
(* cluster; env is the value of POD_NAMESPACE, "" if it is not set.        *)
ConfigType ==
  [ numRuns : Nat \ {0}, chaosProbability : {"some", "one"},
    mode : {"k8sOutOfCluster", "k8sInCluster"}, targetOnlyActive : BOOLEAN,
    grace : BOOLEAN, namespace : {"configured"}, env : {"", "env"} ]

ASSUME MemberKillerAssumption == IsFiniteSet(Pod) /\ Configs \subseteq ConfigType

VARIABLES
  cfg,          \* the configuration, fixed
  pc,           \* "run", "clientset", "namespace", "list", "kill" or "done"
  run,          \* number of finished runs
  clientset,    \* the shared client set has been initialised
  namespace,    \* discoveredNamespace, "" before discovery
  chosen,       \* the pods chosen to be killed, one or none
  numMembersKilled,
  existing, ready, terminating,  \* pods in the cluster, and their state
  listedIn,     \* history: the namespace of the last list call
  wasReady,     \* history: pods that were ready in the last list
  accepted      \* history: deletions that took effect

shared == <<clientset, namespace>>
pods == <<existing, ready, terminating>>
history == <<listedIn, wasReady, accepted>>
vars == <<cfg, pc, run, shared, chosen, numMembersKilled, pods, history>>

Init ==
  /\ cfg \in Configs
  /\ pc = "run" /\ run = 0
  /\ clientset = FALSE /\ namespace = ""
  /\ chosen = {}
  /\ numMembersKilled = 0
  /\ existing = Pod /\ ready = Pod /\ terminating = {}
  /\ listedIn = "" /\ wasReady = {} /\ accepted = 0

-----------------------------------------------------------------------------
(* A run ends, well or not, and counts.                                    *)
EndRun == run' = run + 1 /\ pc' = "run" /\ chosen' = {}

MutMoreRuns == run <= cfg.numRuns

MoreRuns == run < cfg.numRuns

(* rand.Float64() <= chaosProbability.  As the random number can be zero,  *)
(* only a probability of one decides the matter.                           *)
StrikeOrNot == IF cfg.chaosProbability = "one" THEN {TRUE} ELSE BOOLEAN

Inactive ==
  /\ pc = "run" /\ MoreRuns
  /\ FALSE \in StrikeOrNot
  /\ EndRun
  /\ UNCHANGED <<cfg, shared, numMembersKilled, pods, history>>

Strike ==
  /\ pc = "run" /\ MoreRuns
  /\ TRUE \in StrikeOrNot
  /\ pc' = "clientset"
  /\ UNCHANGED <<cfg, run, shared, chosen, numMembersKilled, pods, history>>

(* getOrInit: a client set that exists is returned as it is.               *)
GetClientset ==
  /\ pc = "clientset"
  /\ clientset' = TRUE
  /\ pc' = "namespace"
  /\ UNCHANGED <<cfg, run, namespace, chosen, numMembersKilled, pods, history>>

MutEndFailedRun == pc' = "run" /\ UNCHANGED <<run, chosen>>

(* "will try again in next iteration"                                      *)
EndFailedRun == EndRun

ClientsetFails ==
  /\ pc = "clientset" /\ ~clientset
  /\ EndFailedRun
  /\ UNCHANGED <<cfg, shared, numMembersKilled, pods, history>>

(* getOrDiscover in the cluster: the mounted file wins over the variable,  *)
(* unless it is empty; no readable file is an error even with a variable.  *)
Files == {"unreadable", "", "file"}

DiscoveredFrom(file) ==
  IF cfg.mode = "k8sOutOfCluster" THEN cfg.namespace
  ELSE IF file = "unreadable" THEN ""
  ELSE IF file = "" THEN cfg.env ELSE file

MutRemember(ns) == UNCHANGED namespace

Remember(ns) == namespace' = ns

GetNamespace ==
  /\ pc = "namespace"
  /\ IF namespace # "" THEN UNCHANGED namespace
     ELSE \E file \in Files : DiscoveredFrom(file) # "" /\ Remember(DiscoveredFrom(file))
  /\ pc' = "list"
  /\ UNCHANGED <<cfg, run, clientset, chosen, numMembersKilled, pods, history>>

NamespaceFails ==
  /\ pc = "namespace" /\ namespace = ""
  /\ \E file \in Files : DiscoveredFrom(file) = ""
  /\ EndFailedRun
  /\ UNCHANGED <<cfg, shared, numMembersKilled, pods, history>>

List ==
  /\ listedIn' = namespace /\ wasReady' = ready
  /\ UNCHANGED <<cfg, shared, numMembersKilled, pods, accepted>>

MutTargets == existing

(* With targetOnlyActive, as many pods are drawn as there are, with        *)
(* replacement, until a ready one is found.  Pods that are terminating are *)
(* still listed.                                                           *)
Targets == IF cfg.targetOnlyActive THEN ready ELSE existing

Choose ==
  /\ pc = "list"
  /\ List
  /\ \E p \in Targets : chosen' = {p}
  /\ pc' = "kill"
  /\ UNCHANGED run

(* noMemberFoundError: no pod, or only unready ones were drawn, which can  *)
(* happen although a ready one is there.                                   *)
NoneFound ==
  /\ pc = "list"
  /\ existing = {} \/ existing \ Targets # {}
  /\ List
  /\ EndFailedRun

ListFails ==
  /\ pc = "list"
  /\ EndFailedRun
  /\ UNCHANGED <<cfg, shared, numMembersKilled, pods, history>>

(* Deleting pods by name, whichever pods bear the names by now.  With a    *)
(* grace period of zero they are gone at once.                             *)
Delete(ps) ==
  /\ IF cfg.grace
     THEN terminating' = terminating \cup ps /\ UNCHANGED <<existing, ready>>
     ELSE existing' = existing \ ps /\ ready' = ready \ ps /\ terminating' = terminating \ ps
  /\ accepted' = accepted + 1

Kill ==
  /\ pc = "kill" /\ chosen \subseteq existing
  /\ Delete(chosen)
  /\ numMembersKilled' = numMembersKilled + 1
  /\ EndRun
  /\ UNCHANGED <<cfg, shared, listedIn, wasReady>>

MutCountFailedKill == numMembersKilled' = numMembersKilled + 1

CountFailedKill == UNCHANGED numMembersKilled

(* No such pod any more, or an error with or without effect.               *)
KillFails ==
  /\ pc = "kill"
  /\ \/ chosen \subseteq existing /\ Delete(chosen)
     \/ UNCHANGED <<pods, accepted>>
  /\ CountFailedKill
  /\ EndRun
  /\ UNCHANGED <<cfg, shared, listedIn, wasReady>>

Finish ==
  /\ pc = "run" /\ ~MoreRuns
  /\ pc' = "done"
  /\ UNCHANGED <<cfg, run, shared, chosen, numMembersKilled, pods, history>>

Monkey ==
  \/ Inactive \/ Strike \/ GetClientset \/ ClientsetFails \/ GetNamespace \/ NamespaceFails
  \/ Choose \/ NoneFound \/ ListFails \/ Kill \/ KillFails \/ Finish

-----------------------------------------------------------------------------
(* Kubernetes, and Hazelcast in the pods.                                  *)
BecomesReady(p) ==
  /\ p \in existing \ (ready \cup terminating)
  /\ ready' = ready \cup {p}
  /\ UNCHANGED <<existing, terminating>>

BecomesUnready(p) ==
  /\ p \in ready
  /\ ready' = ready \ {p}
  /\ UNCHANGED <<existing, terminating>>

Disappears(p) ==
  /\ p \in existing
  /\ existing' = existing \ {p} /\ ready' = ready \ {p} /\ terminating' = terminating \ {p}

Recreated(p) ==
  /\ p \notin existing
  /\ existing' = existing \cup {p}
  /\ UNCHANGED <<ready, terminating>>

Cluster ==
  /\ \E p \in Pod : BecomesReady(p) \/ BecomesUnready(p) \/ Disappears(p) \/ Recreated(p)
  /\ UNCHANGED <<cfg, pc, run, shared, chosen, numMembersKilled, history>>

Next == Monkey \/ Cluster

Spec == Init /\ [][Next]_vars

(* The monkey's goroutine is scheduled and its calls return.               *)
FairSpec == Spec /\ WF_vars(Monkey)
-----------------------------------------------------------------------------
TypeOK ==
  /\ cfg \in Configs
  /\ pc \in {"run", "clientset", "namespace", "list", "kill", "done"}
  /\ run \in 0..cfg.numRuns
  /\ clientset \in BOOLEAN
  /\ namespace \in {"", "configured", "env", "file"}
  /\ chosen \subseteq Pod
  /\ numMembersKilled \in Nat
  /\ existing \subseteq Pod /\ ready \subseteq existing /\ terminating \subseteq existing
  /\ listedIn \in {"", "configured", "env", "file"}
  /\ wasReady \subseteq Pod
  /\ accepted \in Nat

(* A member is deleted in the namespace it was listed in, and with the set *)
(* up client: kill never discovers anew, where the file may say something  *)
(* else than before.                                                       *)
KillsWhereItListed ==
  pc = "kill" => clientset /\ namespace # "" /\ namespace = listedIn

(* With targetOnlyActive the name that is deleted is that of a pod which   *)
(* was ready when the pods were listed.  (It need not be ready any more.)  *)
TargetsWereReady ==
  [][accepted' > accepted /\ cfg.targetOnlyActive => chosen # {} /\ chosen \subseteq wasReady]_vars

(* The reported number of kills never exceeds the deletions that took      *)
(* effect, of which each run makes at most one.                            *)
KillsAreReal ==
  numMembersKilled <= accepted /\ accepted <= run

(* The monkey ends after its runs, whatever fails in them.                 *)
MonkeyEnds == <>(pc = "done")
=============================================================================
