---------------------------- MODULE MCBoundaryLoop ----------------------------
(***************************************************************************)
(* Instances of BoundaryLoop for TLC: three source elements, chains of     *)
(* three counted actions, two runs.                                        *)
(***************************************************************************)
EXTENDS BoundaryLoop

Base == [ lower |-> 30, upper |-> 70, randomLower |-> FALSE, randomUpper |-> FALSE,
          probability |-> "some", resetAfterChain |-> TRUE, variablePayload |-> FALSE,
          chainLength |-> 3, numRuns |-> 2 ]

(* Fixed boundaries with reset; random ones drawn anew for a seamless      *)
(* second chain; boundaries that round to the same number, with payloads   *)
(* of variable size; a runner that wants no action.                        *)
MCConfigs ==
  { Base,
    [Base EXCEPT !.randomLower = TRUE, !.randomUpper = TRUE, !.resetAfterChain = FALSE],
    [Base EXCEPT !.lower = 60, !.probability = "one", !.variablePayload = TRUE],
    [Base EXCEPT !.probability = "zero"] }

MCFixed == { [Base EXCEPT !.probability = "one"] }
=============================================================================
