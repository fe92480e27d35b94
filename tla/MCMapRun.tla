------------------------------- MODULE MCMapRun -------------------------------
(***************************************************************************)
(* Instances of MapRun for TLC.  The map numbers 1 and 10 are the smallest *)
(* ones of which one begins with the digits of the other; the goroutines   *)
(* in between are taken not to be scheduled.                               *)
(***************************************************************************)
EXTENDS MapRun

Base == [ loopType |-> "batch", shared |-> TRUE, others |-> FALSE,
          preRunClean |-> TRUE, errorBehavior |-> "fail",
          variablePayload |-> FALSE, resetAfterChain |-> TRUE,
          chainLength |-> 2, numRuns |-> 2 ]

(* Batch goroutines on a shared map they clean; on maps of their own with  *)
(* sizes that are drawn anew, next to other instances; boundary goroutines *)
(* on a shared map with a reset, and without one but with sizes.           *)
MCConfigs ==
  { Base,
    [Base EXCEPT !.shared = FALSE, !.others = TRUE, !.preRunClean = FALSE,
                 !.variablePayload = TRUE],
    [Base EXCEPT !.loopType = "boundary", !.errorBehavior = "ignore"],
    [Base EXCEPT !.loopType = "boundary", !.preRunClean = FALSE, !.resetAfterChain = FALSE,
                 !.variablePayload = TRUE] }

MCSharedBoundary == { [Base EXCEPT !.loopType = "boundary", !.preRunClean = FALSE] }
=============================================================================
