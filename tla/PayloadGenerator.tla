--------------------------- MODULE PayloadGenerator ---------------------------
(***************************************************************************)
(* The variable-size payloads of src/loadsupport/payloadgenerator.go: one  *)
(* actor's entry in payloadConsumingActors and how a call changes it.  An  *)
(* actor is a map goroutine of the load runner.  Of a payload only its     *)
(* size is kept.                                                           *)
(***************************************************************************)
EXTENDS Integers

CONSTANTS
  LowerBoundaryBytes, UpperBoundaryBytes,
  SameSizeStepsLimit     \* write actions after which the size is drawn anew

(* validateVariablePayloadSizeBoundaries; all three are validated as       *)
(* positive integers.                                                      *)
ASSUME RequirementAssumption ==
  /\ LowerBoundaryBytes \in Nat \ {0} /\ UpperBoundaryBytes \in Nat \ {0}
  /\ LowerBoundaryBytes < UpperBoundaryBytes
  /\ SameSizeStepsLimit \in Nat \ {0}

(* No entry yet: the call that creates one, with the zero value of         *)
(* PayloadGenerationInfo, draws its size at once, so that an actor, which  *)
(* makes its calls one after the other, never finds a zero entry.          *)
NoInfo == [numGeneratePayloadInvocations |-> 0, payloadSize |-> 0]

PayloadGenerationInfo ==
  {NoInfo} \cup [ numGeneratePayloadInvocations : 1..SameSizeStepsLimit,
                  payloadSize : LowerBoundaryBytes..UpperBoundaryBytes ]

MutExhausted(info) == info.numGeneratePayloadInvocations + 1 >= SameSizeStepsLimit

Exhausted(info) == info.numGeneratePayloadInvocations >= SameSizeStepsLimit

(* GenerateTrackedRandomStringPayloadWithinBoundary: the entries that one  *)
(* call can leave behind.  The payload has the size of the entry.          *)
Generated(info) ==
  IF info = NoInfo \/ Exhausted(info)
  THEN { [numGeneratePayloadInvocations |-> 1, payloadSize |-> s] :
           s \in LowerBoundaryBytes..UpperBoundaryBytes }
  ELSE { [info EXCEPT !.numGeneratePayloadInvocations = @ + 1] }
=============================================================================
