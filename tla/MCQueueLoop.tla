----------------------------- MODULE MCQueueLoop -----------------------------
(***************************************************************************)
(* Instances of QueueLoop for TLC: more puts than the queues can hold and  *)
(* fewer polls than puts.                                                  *)
(***************************************************************************)
EXTENDS QueueLoop

Own == [shared |-> FALSE, others |-> FALSE, numPuts |-> 2, numPolls |-> 1]

(* Queues of their own; one shared by all; one that other instances use;   *)
(* a shared one without poll workers.                                      *)
MCConfigs ==
  { Own,
    [Own EXCEPT !.shared = TRUE],
    [Own EXCEPT !.shared = TRUE, !.others = TRUE],
    [Own EXCEPT !.shared = TRUE, !.numPolls = 0] }
=============================================================================
