---------------------------- MODULE CleanRegistry ----------------------------
(***************************************************************************)
(* What the state cleaners of all Hazeltest instances promise together,    *)
(* whatever calls they make: a payload data structure has at most one      *)
(* cleaner at work on it, and a cleaner that applies a clean-again         *)
(* threshold never empties a structure that is still protected by the last *)
(* recorded clean.  CleanerSync implements this specification.             *)
(***************************************************************************)
EXTENDS Naturals

CONSTANTS
  Cleaner,        \* cleaners: the batch cleaners and the runners' pre-run cleaners
  Structure,      \* payload data structures in the Hazelcast cluster
  UseThreshold,   \* [Cleaner -> BOOLEAN], cleanAgainThreshold.enabled
  Threshold,      \* [Cleaner -> Nat], cleanAgainThreshold.thresholdMs, in ticks
  StartTime,      \* the time at which the behaviour starts
  Horizon         \* bound on the clock

VARIABLES
  now,            \* the clock
  filled,         \* the structures that hold data
  cleaners,       \* [Structure -> SUBSET Cleaner], who is at work on a structure
  protected       \* [Structure -> Nat], end of the protection, 0 when there is none

rvars == <<now, filled, cleaners, protected>>

Init ==
  /\ now = StartTime
  /\ filled \in SUBSET Structure
  /\ cleaners = [d \in Structure |-> {}]
  /\ protected = [d \in Structure |-> 0]

Claim(c, d) ==
  /\ cleaners[d] = {}
  /\ cleaners' = [cleaners EXCEPT ![d] = {c}]
  /\ UNCHANGED <<now, filled, protected>>

(* Emptying a structure may also end the attempt: an eviction that takes   *)
(* effect although the call reports an error is not recorded.              *)
Empty(c, d) ==
  /\ c \in cleaners[d]
  /\ UseThreshold[c] => protected[d] = 0
  /\ filled' = filled \ {d}
  /\ UNCHANGED <<now, cleaners, protected>>

Record(c, d) ==
  /\ c \in cleaners[d]
  /\ protected' = [protected EXCEPT ![d] = now + Threshold[c]]
  /\ UNCHANGED <<now, filled, cleaners>>

Leave(C) ==
  /\ cleaners' = [d \in Structure |-> cleaners[d] \ C]
  /\ UNCHANGED <<now, filled, protected>>

Lapse(d) ==
  /\ 0 < protected[d] /\ protected[d] <= now
  /\ protected' = [protected EXCEPT ![d] = 0]
  /\ UNCHANGED <<now, filled, cleaners>>

Fill(d) ==
  /\ filled' = filled \cup {d}
  /\ UNCHANGED <<now, cleaners, protected>>

Tick ==
  /\ now < Horizon
  /\ now' = now + 1
  /\ UNCHANGED <<filled, cleaners, protected>>

Next ==
  \/ \E c \in Cleaner, d \in Structure : Claim(c, d) \/ Empty(c, d) \/ Record(c, d)
  \/ \E C \in SUBSET Cleaner : Leave(C)
  \/ \E d \in Structure : Lapse(d) \/ Fill(d)
  \/ Tick

Spec == Init /\ [][Next]_rvars
=============================================================================
