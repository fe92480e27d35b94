---------------------------- MODULE MCCleanerSync ----------------------------
(***************************************************************************)
(* Instances of CleanerSync for TLC: the batch map cleaners a and b of two *)
(* Hazeltest instances, and the pre-run cleaners p and q of two map        *)
(* goroutines of one runner.                                               *)
(***************************************************************************)
EXTENDS CleanerSync

CONSTANTS a, b, p, q, m1, m2, sys, s1, s2

(* a and b in sessions of their own; p and q, when present, share s2.      *)
MCSessionOf == [c \in Cleaner |-> IF c = a THEN s1 ELSE s2]

MCScope == [c \in Cleaner |-> IF c \in {a, b} THEN Structure ELSE {m1}]

(* Everybody applies the threshold, except b in the mixed instance.        *)
MCUseAll == [c \in Cleaner |-> TRUE]
MCUseMixed == [c \in Cleaner |-> c # b]

MCThreshold == [c \in Cleaner |-> IF c = a THEN 2 ELSE 1]

MCErrorBehavior == [c \in Cleaner |-> IF c = a THEN "fail" ELSE "ignore"]
=============================================================================
