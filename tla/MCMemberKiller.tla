---------------------------- MODULE MCMemberKiller ----------------------------
(***************************************************************************)
(* Instances of MemberKiller for TLC: both access modes, with and without  *)
(* a restriction to ready pods and a grace period.                         *)
(***************************************************************************)
EXTENDS MemberKiller

Base == [ numRuns |-> 3, chaosProbability |-> "some", mode |-> "k8sInCluster",
          targetOnlyActive |-> TRUE, grace |-> TRUE, namespace |-> "configured", env |-> "env" ]

MCConfigs ==
  { Base,
    [Base EXCEPT !.env = "", !.chaosProbability = "one", !.targetOnlyActive = FALSE],
    [Base EXCEPT !.mode = "k8sOutOfCluster", !.grace = FALSE] }
=============================================================================
