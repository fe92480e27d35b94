------------------------------ MODULE StatusView ------------------------------
(***************************************************************************)
(* What the status of an actor promises to its readers, without the        *)
(* goroutines and the channel that bring it about: first that the runner   *)
(* starts, then the initial value of each counter followed by every value  *)
(* that was counted, each exactly once but in any order, then that the     *)
(* runner is complete, and only after all of that that the status is       *)
(* finished.  StatusGatherer implements this specification.                *)
(***************************************************************************)
EXTENDS Integers

CONSTANTS
  Counter,    \* the counters
  MaxCount,   \* bound on each counter
  Unset,      \* no value yet
  Starting,   \* the runner's states
  Complete

VARIABLES
  counters,   \* [Counter -> Nat]
  unshown,    \* [Counter -> SUBSET Nat], values counted that the status has not had yet
  status,     \* [Counter -> Nat or Unset], what is shown
  state,      \* the runner's state as shown
  finished    \* "absent", "false" or "true"

vvars == <<counters, unshown, status, state, finished>>

Init ==
  /\ counters = [k \in Counter |-> 0]
  /\ unshown = [k \in Counter |-> {0}]
  /\ status = [k \in Counter |-> Unset]
  /\ state = Unset
  /\ finished = "absent"

AllShown == \A k \in Counter : unshown[k] = {}

Listen ==
  /\ finished = "absent" /\ finished' = "false"
  /\ UNCHANGED <<counters, unshown, status, state>>

ShowStarting ==
  /\ finished = "false" /\ state = Unset
  /\ state' = Starting
  /\ UNCHANGED <<counters, unshown, status, finished>>

(* The runner has no test loop to offer.                                   *)
GiveUp ==
  /\ \A k \in Counter : unshown[k] = {0}
  /\ unshown' = [k \in Counter |-> {}]
  /\ UNCHANGED <<counters, status, state, finished>>

Count(k) ==
  /\ state # Complete /\ finished # "true"
  /\ counters[k] < MaxCount
  /\ counters' = [counters EXCEPT ![k] = @ + 1]
  /\ unshown' = [unshown EXCEPT ![k] = @ \cup {counters[k] + 1}]
  /\ UNCHANGED <<status, state, finished>>

(* The initial value is never shown over one that was counted.             *)
Show(k, v) ==
  /\ finished = "false" /\ state = Starting
  /\ v \in unshown[k] /\ (0 \in unshown[k] => v = 0)
  /\ status' = [status EXCEPT ![k] = v]
  /\ unshown' = [unshown EXCEPT ![k] = @ \ {v}]
  /\ UNCHANGED <<counters, state, finished>>

ShowComplete ==
  /\ finished = "false" /\ state = Starting /\ AllShown
  /\ state' = Complete
  /\ UNCHANGED <<counters, unshown, status, finished>>

(* Only a runner that gave up is never shown as complete.                  *)
Finish ==
  /\ finished = "false" /\ AllShown
  /\ state = Complete \/ (state = Starting /\ \A k \in Counter : counters[k] = 0)
  /\ finished' = "true"
  /\ UNCHANGED <<counters, unshown, status, state>>

Next ==
  \/ Listen \/ ShowStarting \/ GiveUp \/ ShowComplete \/ Finish
  \/ \E k \in Counter : Count(k) \/ \E v \in 0..MaxCount : Show(k, v)

Spec == Init /\ [][Next]_vvars
=============================================================================
