-------------------------- MODULE BoundaryLoopProofs --------------------------
(***************************************************************************)
(* Proofs about BoundaryLoop, for any source data and configurations.      *)
(***************************************************************************)
EXTENDS BoundaryLoop, FiniteSetTheorems, TLAPS

(* The source elements; the first one is among them.                       *)
LEMMA ElementFacts == IsFiniteSet(Element) /\ First \in Element /\ Cardinality(Element) \in Nat
  BY ElementAssumption, FS_Interval, FS_CardinalityType DEF Element, First

(* A percentage of the elements is one of 0..Cardinality(Element).         *)
LEMMA LimitBounded ==
  ASSUME NEW p \in 0..100
  PROVE  Limit(p) \in 0..Cardinality(Element)
<1> DEFINE n == Cardinality(Element)
<1>1. n \in Nat BY ElementFacts
<1> HIDE DEF n
<1>2. n * p \in Nat /\ n * p <= n * 100 BY <1>1
<1>3. 2 * n * p = 2 * (n * p) BY <1>1
<1> DEFINE m == n * p
<1> HIDE DEF m
<1>4. m \in Nat /\ m <= 100 * n BY <1>1, <1>2 DEF m
<1>5. (2 * m + 100) \div 200 \in 0..n BY <1>1, <1>4
<1> QED BY <1>3, <1>5 DEF Limit, n, m

LEMMA ConfigTypes ==
  ASSUME cfg \in Configs
  PROVE  /\ cfg.lower \in 0..100 /\ cfg.upper \in 0..100 /\ cfg.lower < cfg.upper
         /\ cfg.probability \in {"zero", "some", "one"}
         /\ cfg.chainLength \in Nat \ {0} /\ cfg.numRuns \in Nat \ {0}
  BY ConfigsAssumption DEF ConfigType

(* A call is made within the chain, a chain within the runs, and the end   *)
(* of the chain is reached from within it.                                 *)
Counts ==
  /\ pc = "act" => j < cfg.chainLength
  /\ pc \in {"decide", "act", "after"} => run < cfg.numRuns

Types == TypeOK /\ Counts

LEMMA InitTypes == Init => Types
<1> SUFFICES ASSUME Init PROVE Types
  OBVIOUS
<1>1. wiped \in BOOLEAN BY Zenon DEF Init
<1>2. info \in PayloadGenerationInfo BY DEF Init, PayloadGenerationInfo
<1>3. sizes \in Seq(LowerBoundaryBytes..UpperBoundaryBytes) BY DEF Init
<1> QED BY <1>1, <1>2, <1>3, ConfigTypes, ElementFacts DEF Init, Types, TypeOK, Counts

LEMMA GeneratedTypes ==
  ASSUME NEW i \in PayloadGenerationInfo, NEW k \in Generated(i)
  PROVE  k \in PayloadGenerationInfo /\ k.payloadSize \in LowerBoundaryBytes..UpperBoundaryBytes
<1>1. CASE i = NoInfo \/ Exhausted(i)
  BY <1>1, RequirementAssumption DEF Generated, PayloadGenerationInfo
<1>2. CASE ~(i = NoInfo \/ Exhausted(i))
  <2>1. /\ i \in [numGeneratePayloadInvocations : 1..SameSizeStepsLimit,
                  payloadSize : LowerBoundaryBytes..UpperBoundaryBytes]
        /\ i.numGeneratePayloadInvocations < SameSizeStepsLimit
    BY <1>2, RequirementAssumption DEF PayloadGenerationInfo, Exhausted
  <2>2. k = [i EXCEPT !.numGeneratePayloadInvocations = @ + 1]
    BY <1>2 DEF Generated
  <2> QED BY <2>1, <2>2, RequirementAssumption DEF PayloadGenerationInfo
<1> QED BY <1>1, <1>2

LEMMA AssembleTypes ==
  ASSUME Types, AssemblePayload
  PROVE  /\ info' \in PayloadGenerationInfo
         /\ sizes' \in Seq(LowerBoundaryBytes..UpperBoundaryBytes)
<1>0. info \in PayloadGenerationInfo /\ sizes \in Seq(LowerBoundaryBytes..UpperBoundaryBytes)
  BY DEF Types, TypeOK
<1>1. CASE UNCHANGED payload
  BY <1>0, <1>1 DEF payload
<1>2. CASE ~UNCHANGED payload
  <2>1. PICK i \in Generated(info) : info' = i /\ sizes' = Append(sizes, i.payloadSize)
    BY <1>2 DEF AssemblePayload
  <2> QED BY <1>0, <2>1, GeneratedTypes
<1> QED BY <1>1, <1>2

LEMMA CallTypes == ASSUME Types, ActSucceeds \/ ActFails PROVE Types'
<1>1. next \in {"insert", "remove", "read"} /\ pc = "act"
  BY DEF ActSucceeds, ActFails, Types, TypeOK
<1>2. Effect \in SUBSET Element
  BY <1>1 DEF Effect, Types, TypeOK
<1>3. inserted' \in SUBSET Element /\ available' = Element \ inserted'
  BY <1>1 DEF ActSucceeds, ActFails, UpdateCache, CacheAfterError, cache, Types, TypeOK
<1>4. remote' \in SUBSET Element /\ doubtful' \in SUBSET Element
  BY <1>2 DEF ActSucceeds, ActFails, Types, TypeOK
<1>5. Iterate
  BY DEF ActSucceeds, ActFails
<1>6. j + 1 \in 0..cfg.chainLength
  BY <1>1, ConfigTypes DEF Types, TypeOK, Counts
<1>7. info' \in PayloadGenerationInfo /\ sizes' \in Seq(LowerBoundaryBytes..UpperBoundaryBytes)
  BY AssembleTypes DEF ActSucceeds, ActFails
<1> QED BY <1>1, <1>3, <1>4, <1>5, <1>6, <1>7 DEF Iterate, Types, TypeOK, Counts

LEMMA DecisionTypes == ASSUME Types, Decide \/ AbortChain PROVE Types'
<1>1. NextMode \in {"fill", "drain"}
  BY DEF NextMode, Types, TypeOK
<1>2. CASE Decide
  <2>1. PICK action \in NextActions(NextMode) \ {"noop"}, e \in Element :
          next' = action /\ element' = e /\ j' = Position(action)
    BY <1>2 DEF Decide
  <2>2. action \in {"insert", "remove", "read"}
    BY <2>1 DEF NextActions, Towards
  <2>3. Position(action) \in 0..cfg.chainLength /\ Position(action) < cfg.chainLength
    BY <1>2, ConfigTypes DEF Decide, Position, Types, TypeOK
  <2> QED BY <1>1, <1>2, <2>1, <2>2, <2>3 DEF Decide, cache, payload, history, Types, TypeOK, Counts
<1>3. CASE AbortChain
  BY <1>1, <1>3 DEF AbortChain, cache, payload, history, Types, TypeOK, Counts
<1> QED BY <1>2, <1>3

LEMMA NextTypes == Types /\ [Next]_vars => Types'
<1> SUFFICES ASSUME Types, [Next]_vars PROVE Types'
  OBVIOUS
<1>0. Cardinality(Element) \in Nat BY ElementFacts
<1>1. CASE StartChain
  <2>1. UpperLimits \subseteq 0..Cardinality(Element) /\ LowerLimits \subseteq 0..Cardinality(Element)
    <3>1. cfg.upper \in 0..100 /\ cfg.lower \in 0..100
      BY ConfigTypes DEF Types, TypeOK
    <3>2. Limit(cfg.upper) \in 0..Cardinality(Element) /\ Limit(cfg.lower) \in 0..Cardinality(Element)
      BY <3>1, LimitBounded
    <3> QED BY <1>0, <3>2 DEF UpperLimits, LowerLimits
  <2>2. cfg.chainLength \in Nat BY ConfigTypes DEF Types, TypeOK
  <2>3. wiped' \in BOOLEAN BY <1>1, Zenon DEF StartChain
  <2> QED BY <1>1, <2>1, <2>2, <2>3 DEF StartChain, cache, payload, history, Types, TypeOK, Counts
<1>2. CASE EndChain \/ Finish
  BY <1>2 DEF EndChain, Finish, cache, payload, history, Types, TypeOK, Counts
<1>3. CASE Reset \/ ResetFails \/ NoReset
  <2>1. run + 1 \in 0..cfg.numRuns
    BY <1>3, ConfigTypes DEF Reset, ResetFails, NoReset, Types, TypeOK, Counts
  <2>2. remote' \in SUBSET Element /\ doubtful' \in SUBSET Element
    BY <1>3 DEF Reset, ResetFails, NoReset, Types, TypeOK
  <2>3. inserted' \in SUBSET Element /\ available' = Element \ inserted'
    BY <1>3 DEF Reset, ResetFails, NoReset, ResetCaches, CacheAfterFailedReset, cache, Types, TypeOK
  <2>4. mode' \in {"unset", mode} /\ last' \in {"unset", last} /\ NextRun
    BY <1>3 DEF Reset, ResetFails, NoReset
  <2> QED BY <2>1, <2>2, <2>3, <2>4 DEF NextRun, payload, Types, TypeOK, Counts
<1>4. CASE Wipe \/ UNCHANGED vars
  BY <1>4 DEF Wipe, vars, cache, payload, history, Types, TypeOK, Counts
<1> QED BY <1>1, <1>2, <1>3, <1>4, CallTypes, DecisionTypes DEF Next, Loop

(* The types, with loop index and run number in range, hold always.        *)
THEOREM TypesHold == Spec => []Types
  BY InitTypes, NextTypes, PTL DEF Spec

(* Types are right for all parameters, boundaries drawn at random          *)
(* included, and the two key caches stay complementary.                    *)
THEOREM TypeCorrect == Spec => []TypeOK
<1>1. Types => TypeOK BY DEF Types
<1> QED BY <1>1, TypesHold, PTL

-----------------------------------------------------------------------------
LEMMA CacheNext == Types /\ CacheTracksRemote /\ [Next]_vars => CacheTracksRemote'
<1> SUFFICES ASSUME Types, CacheTracksRemote, [Next]_vars PROVE CacheTracksRemote'
  OBVIOUS
<1> USE DEF CacheTracksRemote
<1>1. CASE ActSucceeds \/ ActFails
  <2>1. next \in {"insert", "remove", "read"}
    BY <1>1 DEF ActSucceeds, ActFails, Types, TypeOK
  <2>2. CASE ActSucceeds
    BY <2>1, <2>2 DEF ActSucceeds, Effect, UpdateCache, cache
  <2>3. CASE ActFails
    BY <2>1, <2>3 DEF ActFails, Effect, CacheAfterError, cache
  <2> QED BY <1>1, <2>2, <2>3
<1>2. CASE Reset \/ ResetFails \/ NoReset
  BY <1>2 DEF Reset, ResetFails, NoReset, ResetCaches, CacheAfterFailedReset, cache
<1>3. CASE Wipe
  BY <1>3 DEF Wipe, cache
<1>4. CASE StartChain \/ Decide \/ AbortChain \/ EndChain \/ Finish \/ UNCHANGED vars
  BY <1>4 DEF StartChain, Decide, AbortChain, EndChain, Finish, vars, cache, history
<1> QED BY <1>1, <1>2, <1>3, <1>4 DEF Next, Loop

(* Whatever calls fail, resets included, and whoever clears the map, the   *)
(* loop's cache is off only on elements for which that was observable.     *)
THEOREM CacheTracks == Spec => []CacheTracksRemote
<1>1. Init => CacheTracksRemote BY DEF Init, CacheTracksRemote
<1> QED BY <1>1, CacheNext, TypesHold, PTL DEF Spec

-----------------------------------------------------------------------------
LEMMA SizeTypes == ASSUME Types
                   PROVE  Size \in Nat /\ lo \in Nat /\ up \in Nat /\ IsFiniteSet(inserted)
<1>1. IsFiniteSet(inserted)
  BY ElementFacts, FS_Subset DEF Types, TypeOK
<1>2. Cardinality(Element) \in Nat /\ Size \in Nat
  BY <1>1, ElementFacts, FS_CardinalityType DEF Size
<1> QED BY <1>1, <1>2 DEF Types, TypeOK

(* The choice of checkForModeChange and determineNextMapAction.            *)
LEMMA DecisionWithinBoundaries ==
  ASSUME Types, Decide, mode # "unset", lo < up
  PROVE  /\ next' = "insert" => Size < up
         /\ next' = "remove" => lo < Size
<1>1. Size \in Nat /\ lo \in Nat /\ up \in Nat BY SizeTypes
<1>2. next' \in NextActions(NextMode) \ {"noop"}
  BY DEF Decide
<1>3. CASE Size = 0
  <2>1. next' = "insert" BY <1>2, <1>3 DEF NextActions
  <2> QED BY <1>1, <1>3, <2>1
<1>4. CASE Size # 0 /\ AtLower
  <2>1. NextMode = "fill" /\ Hits = {TRUE}
    BY <1>4 DEF NextMode, Hits, Forced
  <2>2. next' # "remove"
    BY <1>2, <1>4, <2>1 DEF NextActions, Towards
  <2> QED BY <1>1, <1>4, <2>2 DEF AtLower
<1>5. CASE Size # 0 /\ ~AtLower /\ AtUpper
  <2>1. NextMode = "drain" /\ Hits = {TRUE}
    BY <1>5 DEF NextMode, Hits, Forced
  <2>2. next' # "insert"
    BY <1>2, <1>5, <2>1 DEF NextActions, Towards
  <2> QED BY <1>1, <1>5, <2>2 DEF AtLower
<1>6. CASE ~AtLower /\ ~AtUpper
  BY <1>1, <1>6 DEF AtLower, AtUpper
<1> QED BY <1>3, <1>4, <1>5, <1>6

(* For all parameters, a chain with a mode decides to insert only below    *)
(* the upper boundary and to remove only above the lower one.              *)
THEOREM BoundariesRespected == Spec => RespectsBoundaries
<1>1. Types /\ [Next]_vars =>
        [pc = "decide" /\ pc' = "act" /\ mode # "unset" /\ lo < up =>
           /\ next' = "insert" => Size < up
           /\ next' = "remove" => lo < Size]_vars
  <2> SUFFICES ASSUME Types, Next, pc = "decide", pc' = "act", mode # "unset", lo < up
               PROVE  /\ next' = "insert" => Size < up
                      /\ next' = "remove" => lo < Size
    OBVIOUS
  <2>1. Decide
    BY DEF Next, Loop, StartChain, AbortChain, EndChain, ActSucceeds, ActFails, Reset, ResetFails,
           NoReset, NextRun, Finish, Wipe
  <2> QED BY <2>1, DecisionWithinBoundaries
<1> QED BY <1>1, TypesHold, PTL DEF RespectsBoundaries, Spec

-----------------------------------------------------------------------------
(* The upper boundary is overrun (the run boundary_reset) only because a   *)
(* failed reset clears the mode but keeps the cached keys.  As long as     *)
(* every reset succeeds, a chain without a mode starts from an empty cache *)
(* and an insert is decided, and therefore made, below the boundary.       *)
ResetsSucceed == [][ResetFails => Reset]_vars

FillsBelowUpper ==
  /\ mode = "unset" => inserted = {}
  /\ pc \in {"decide", "act"} => lo < up
  /\ pc = "act" => mode # "unset"
  /\ pc = "act" /\ next = "insert" => Size < up

(* The boundaries are at least one element apart after rounding.           *)
RoundedApart == \A c \in Configs : Limit(c.lower) < Limit(c.upper)

LEMMA FillsNext ==
  ASSUME RoundedApart, Types, FillsBelowUpper, Next, ResetFails => Reset
  PROVE  FillsBelowUpper'
<1>1. CASE StartChain
  <2>1. cfg \in Configs BY DEF Types, TypeOK
  <2>2. Limit(cfg.lower) < Limit(cfg.upper) BY <2>1 DEF RoundedApart
  <2>3. Limit(cfg.lower) \in Nat /\ Limit(cfg.upper) \in Nat /\ Cardinality(Element) \in Nat
    <3>1. cfg.lower \in 0..100 /\ cfg.upper \in 0..100 BY <2>1, ConfigTypes
    <3>2. Limit(cfg.lower) \in 0..Cardinality(Element) /\ Limit(cfg.upper) \in 0..Cardinality(Element)
      BY <3>1, LimitBounded
    <3>3. Cardinality(Element) \in Nat BY ElementFacts
    <3> QED BY <3>2, <3>3
  <2>4. up' >= Limit(cfg.upper) /\ lo' <= Limit(cfg.lower) /\ up' \in Int /\ lo' \in Int
    BY <1>1, <2>3 DEF StartChain, UpperLimits, LowerLimits
  <2> QED BY <1>1, <2>2, <2>3, <2>4 DEF StartChain, FillsBelowUpper, cache
<1>2. CASE Decide
  <2>1. mode' # "unset" /\ lo < up /\ Size' = Size
    BY <1>2 DEF Decide, NextMode, FillsBelowUpper, Types, TypeOK, Size, cache
  <2>2. next' = "insert" => Size < up
    <3>1. CASE mode = "unset"
      BY <2>1, <3>1, SizeTypes, FS_EmptySet DEF FillsBelowUpper, Size
    <3>2. CASE mode # "unset"
      BY <1>2, <2>1, <3>2, DecisionWithinBoundaries
    <3> QED BY <3>1, <3>2
  <2> QED BY <1>2, <2>1, <2>2 DEF Decide, FillsBelowUpper
<1>3. CASE ActSucceeds \/ ActFails
  <2>1. mode # "unset"
    BY <1>3 DEF ActSucceeds, ActFails, FillsBelowUpper
  <2> QED BY <1>3, <2>1 DEF ActSucceeds, ActFails, Iterate, FillsBelowUpper
<1>4. CASE Reset \/ ResetFails
  BY <1>4 DEF Reset, ResetCaches, NextRun, FillsBelowUpper
<1>5. CASE AbortChain
  BY <1>5 DEF AbortChain, NextMode, FillsBelowUpper, Types, TypeOK, cache
<1>6. CASE EndChain \/ Finish \/ NoReset \/ Wipe
  BY <1>6 DEF EndChain, Finish, NoReset, NextRun, Wipe, FillsBelowUpper, Size, cache
<1> QED BY <1>1, <1>2, <1>3, <1>4, <1>5, <1>6 DEF Next, Loop

(* An insert adds at most the one element.                                 *)
LEMMA InsertStaysBelow ==
  ASSUME Types, FillsBelowUpper, Next, ResetFails => Reset, Size < Cardinality(inserted')
  PROVE  Cardinality(inserted') <= up
<1>1. ActSucceeds /\ next = "insert"
  <2>1. CASE ActSucceeds \/ ActFails
    <3>1. next \in {"insert", "remove", "read"}
      BY <2>1 DEF ActSucceeds, ActFails, Types, TypeOK
    <3>2. CASE ActFails \/ next = "read"
      <4>1. inserted' = inserted
        BY <2>1, <3>2 DEF ActSucceeds, ActFails, CacheAfterError, UpdateCache, cache
      <4> QED BY <4>1, SizeTypes DEF Size
    <3>3. CASE ActSucceeds /\ next = "remove"
      <4>1. inserted' \subseteq inserted
        BY <3>3 DEF ActSucceeds, UpdateCache
      <4>2. Cardinality(inserted') <= Size
        BY <4>1, SizeTypes, FS_Subset DEF Size
      <4>3. Cardinality(inserted') \in Nat /\ Size \in Nat
        BY <4>1, SizeTypes, FS_Subset, FS_CardinalityType
      <4> QED BY <4>2, <4>3
    <3> QED BY <2>1, <3>1, <3>2, <3>3
  <2>2. CASE Reset \/ ResetFails
    BY <2>2, SizeTypes, FS_EmptySet DEF Reset, ResetCaches
  <2>3. CASE StartChain \/ Decide \/ AbortChain \/ EndChain \/ NoReset \/ Finish \/ Wipe
    BY <2>3, SizeTypes
    DEF StartChain, Decide, AbortChain, EndChain, NoReset, Finish, Wipe, cache, Size
  <2> QED BY <2>1, <2>2, <2>3 DEF Next, Loop
<1>2. inserted' = inserted \cup {element}
  BY <1>1 DEF ActSucceeds, UpdateCache
<1>3. Cardinality(inserted') <= Size + 1
  BY <1>2, SizeTypes, FS_AddElement DEF Size
<1>4. Size < up
  BY <1>1 DEF ActSucceeds, FillsBelowUpper
<1>5. IsFiniteSet(inserted') /\ Cardinality(inserted') \in Nat
  BY <1>2, SizeTypes, FS_AddElement, FS_CardinalityType
<1> QED BY <1>3, <1>4, <1>5, SizeTypes

(* The cached keys never grow past the upper boundary of the chain, for    *)
(* any source data, any boundaries an element apart and whatever calls     *)
(* fail or is wiped, unless a reset fails: that the loop keeps its cache   *)
(* then is the only way to break the limit of defaultConfig.yaml.          *)
THEOREM OnlyFailedResetsOverfill ==
  ASSUME RoundedApart
  PROVE  Spec /\ ResetsSucceed => NeverAboveUpper
<1>1. Init => FillsBelowUpper
  BY DEF Init, FillsBelowUpper
<1>2. Types /\ FillsBelowUpper /\ [Next]_vars /\ [ResetFails => Reset]_vars => FillsBelowUpper'
  <2> SUFFICES ASSUME Types, FillsBelowUpper, [Next]_vars, [ResetFails => Reset]_vars
               PROVE  FillsBelowUpper'
    OBVIOUS
  <2>1. CASE UNCHANGED vars
    BY <2>1 DEF vars, cache, history, FillsBelowUpper, Size
  <2> QED BY <2>1, FillsNext
<1>3. Types /\ FillsBelowUpper /\ [Next]_vars /\ [ResetFails => Reset]_vars =>
        [Size < Cardinality(inserted') => Cardinality(inserted') <= up]_vars
  BY InsertStaysBelow
<1> QED BY <1>1, <1>2, <1>3, TypesHold, PTL DEF Spec, ResetsSucceed, NeverAboveUpper

-----------------------------------------------------------------------------
(* Each action of MapRun, on the variables this loop has for it.           *)
LEMMA AsNothing ==
  ASSUME UNCHANGED <<cfg, run, remote, payload, wiped>>, UNCHANGED <<NeighbourPc, NeighbourPos>>
  PROVE  UNCHANGED Neighbour!vars
  BY DEF Neighbour!vars, NeighbourConfig, payload

LEMMA AsStartRun ==
  ASSUME UNCHANGED <<cfg, run, remote, payload>>, NeighbourPc = "run", NeighbourPc' = "chain",
         run < cfg.numRuns, NeighbourPos' = 1, wiped' = FALSE
  PROVE  Neighbour!StartRun(1)
  BY DEF Neighbour!StartRun, Neighbour!GoTo, NeighbourConfig, payload

LEMMA AsFinish ==
  ASSUME UNCHANGED <<cfg, run, remote, payload, wiped, NeighbourPos>>, NeighbourPc = "run",
         NeighbourPc' = "destroy", run = cfg.numRuns
  PROVE  Neighbour!Finish(1)
  BY DEF Neighbour!Finish, Neighbour!GoTo, NeighbourConfig, payload

LEMMA AsAssemblePayload ==
  ASSUME \/ /\ cfg.variablePayload
            /\ \E i \in Generated(info) : info' = i /\ sizes' = Append(sizes, i.payloadSize)
         \/ ~cfg.variablePayload /\ UNCHANGED payload
  PROVE  Neighbour!AssemblePayload(1)
<1> DEFINE infos == [g \in {1} |-> info]
           allSizes == [g \in {1} |-> sizes]
<1>1. CASE ~cfg.variablePayload /\ UNCHANGED payload
  BY <1>1 DEF Neighbour!AssemblePayload, NeighbourConfig, payload
<1>2. CASE /\ cfg.variablePayload
           /\ \E i \in Generated(info) : info' = i /\ sizes' = Append(sizes, i.payloadSize)
  <2>1. PICK i \in Generated(info) : info' = i /\ sizes' = Append(sizes, i.payloadSize)
    BY <1>2
  <2>2. infos' = [infos EXCEPT ![1] = i]
    BY <2>1
  <2>3. allSizes' = [allSizes EXCEPT ![1] = Append(@, i.payloadSize)]
    BY <2>1
  <2>4. i \in Neighbour!Generated(infos[1])
    BY <2>1 DEF Neighbour!Generated, Generated, Neighbour!NoInfo, NoInfo,
                Neighbour!Exhausted, Exhausted
  <2> QED BY <1>2, <2>2, <2>3, <2>4 DEF Neighbour!AssemblePayload, NeighbourConfig
<1> QED BY <1>1, <1>2

LEMMA AsChainAction ==
  ASSUME UNCHANGED <<cfg, run, wiped, NeighbourPc>>, NeighbourPc = "chain",
         NeighbourPos <= cfg.chainLength, NeighbourPos' = NeighbourPos + 1,
         NEW e \in Element,
         \/ Neighbour!AssemblePayload(1) /\ remote' \in {remote, remote \cup {e}}
         \/ UNCHANGED payload /\ remote' \in {remote, remote \ {e}}
  PROVE  Neighbour!ChainAction(1)
<1> DEFINE stored == {1} \X remote
           infos == [g \in {1} |-> info]
           allSizes == [g \in {1} |-> sizes]
<1>1. /\ remote' \in {remote, remote \cup {e}} => stored' \in {stored, stored \cup {<<1, e>>}}
      /\ remote' \in {remote, remote \ {e}} => stored' \in {stored, stored \ {<<1, e>>}}
  OBVIOUS
<1>2. UNCHANGED payload => UNCHANGED <<infos, allSizes>>
  BY DEF payload
<1>3. e \in Neighbour!Element
  BY DEF Neighbour!Element, Element
<1>4. \/ Neighbour!AssemblePayload(1) /\ stored' \in {stored, stored \cup {<<1, e>>}}
      \/ UNCHANGED <<infos, allSizes>> /\ stored' \in {stored, stored \ {<<1, e>>}}
  BY <1>1, <1>2
<1> HIDE DEF stored
<1> QED BY <1>3, <1>4 DEF Neighbour!ChainAction, NeighbourConfig, stored

LEMMA AsEndRun ==
  ASSUME run' = run + 1, NeighbourPos' = 1, NeighbourPc' = "run"
  PROVE  Neighbour!EndRun(1)
  BY DEF Neighbour!EndRun, Neighbour!GoTo

LEMMA AsEndChain ==
  ASSUME UNCHANGED <<cfg, remote, payload, wiped>>, NeighbourPc = "chain",
         \/ cfg.resetAfterChain /\ NeighbourPc' = "reset" /\ UNCHANGED <<run, NeighbourPos>>
         \/ ~cfg.resetAfterChain /\ NeighbourPc' = "run" /\ run' = run + 1 /\ NeighbourPos' = 1
  PROVE  Neighbour!EndChain(1)
<1>1. CASE cfg.resetAfterChain
  BY <1>1 DEF Neighbour!EndChain, Neighbour!GoTo, NeighbourConfig, payload
<1>2. CASE ~cfg.resetAfterChain
  BY <1>2, AsEndRun DEF Neighbour!EndChain, NeighbourConfig, payload
<1> QED BY <1>1, <1>2

(* Without a shared map the reset's predicate matches all of this          *)
(* goroutine's keys and clears nobody else's.                              *)
LEMMA Matching ==
  /\ Neighbour!MatchingKeys(1) = {1} \X Element
  /\ Neighbour!KeysInMap(1) = {1} \X Element
  /\ {h \in Neighbour!SameMap(1) \ {1} : Neighbour!BeginsWith(h, 1)} = {}
  /\ Neighbour!SameMap(1) = {1}
<1>1. Neighbour!SameMap(1) = {1}
  BY DEF Neighbour!SameMap, NeighbourConfig
<1>2. Neighbour!BeginsWith(1, 1)
  BY DEF Neighbour!BeginsWith
<1>3. {h \in {1} : Neighbour!BeginsWith(h, 1)} = {1}
  BY <1>2
<1> QED BY <1>1, <1>3
        DEF Neighbour!MatchingKeys, Neighbour!KeysInMap, Neighbour!Element, Element

LEMMA NoneCleared ==
  ASSUME wiped \in BOOLEAN, wiped' = wiped
  PROVE  Neighbour!ClearedByOthers({})
  BY Zenon DEF Neighbour!ClearedByOthers

LEMMA AsReset ==
  ASSUME UNCHANGED <<cfg, payload, wiped>>, Types, NeighbourPc = "reset", remote' = {},
         run' = run + 1, NeighbourPos' = 1, NeighbourPc' = "run"
  PROVE  Neighbour!Reset(1)
<1>1. ({1} \X remote)' = ({1} \X remote) \ ({1} \X Element)
  BY DEF Types, TypeOK
<1>2. Neighbour!EndRun(1)
  BY AsEndRun
<1>3. Neighbour!ClearedByOthers({h \in Neighbour!SameMap(1) \ {1} : Neighbour!BeginsWith(h, 1)})
  BY Matching, NoneCleared DEF Types, TypeOK
<1>4. ({1} \X remote)' = ({1} \X remote) \ Neighbour!MatchingKeys(1)
  BY <1>1, Matching
<1> QED BY <1>2, <1>3, <1>4 DEF Neighbour!Reset, NeighbourConfig, payload

LEMMA AsResetFails ==
  ASSUME UNCHANGED <<cfg, payload, wiped>>, Types, NeighbourPc = "reset",
         remote' \subseteq remote,
         run' = run + 1, NeighbourPos' = 1, NeighbourPc' = "run"
  PROVE  Neighbour!ResetFails(1)
<1> DEFINE stored == {1} \X remote
<1>1. PICK kept \in SUBSET stored : kept = stored'
  OBVIOUS
<1> remote \subseteq Element
  BY DEF Types, TypeOK
<1>2. stored' = (stored \ ({1} \X Element)) \cup kept /\ stored \cap ({1} \X Element) = stored
  BY <1>1
<1>3. Neighbour!EndRun(1)
  BY AsEndRun
<1>4. Neighbour!ClearedByOthers({h \in Neighbour!SameMap(1) \ {1} : Neighbour!BeginsWith(h, 1)})
  BY Matching, NoneCleared DEF Types, TypeOK
<1>5. \E k \in SUBSET (stored \cap Neighbour!MatchingKeys(1)) :
        stored' = (stored \ Neighbour!MatchingKeys(1)) \cup k
  BY <1>2, Matching
<1> QED BY <1>3, <1>4, <1>5 DEF Neighbour!ResetFails, NeighbourConfig, payload

LEMMA AsWipe ==
  ASSUME UNCHANGED <<cfg, run, payload, NeighbourPc, NeighbourPos>>, Types,
         NEW lost \in (SUBSET remote) \ {{}}, remote' = remote \ lost, wiped' = TRUE
  PROVE  Neighbour!Wipe(1)
<1> DEFINE stored == {1} \X remote
           gone == {1} \X lost
<1>1. gone \in SUBSET (stored \cap ({1} \X Element)) /\ gone # {} /\ stored' = stored \ gone
  <2>1. PICK e \in lost : e \in remote
    OBVIOUS
  <2>2. <<1, e>> \in gone
    OBVIOUS
  <2>3. remote \subseteq Element
    BY DEF Types, TypeOK
  <2> QED BY <2>2, <2>3
<1>2. Neighbour!ClearedByOthers({1})
  BY DEF Neighbour!ClearedByOthers
<1>3. \E g \in SUBSET (stored \cap Neighbour!KeysInMap(1)) : g # {} /\ stored' = stored \ g
  BY <1>1, Matching
<1> QED BY <1>2, <1>3, Matching DEF Neighbour!Wipe, NeighbourConfig, payload

MapRunStep ==
  \/ Neighbour!StartRun(1) \/ Neighbour!Boundary(1) \/ Neighbour!Finish(1)
  \/ Neighbour!Wipe(1) \/ UNCHANGED Neighbour!vars

(* A read takes the index back by what its own step adds again, except at  *)
(* the start of a chain, where it uses up a place without a change.        *)
LEMMA DecideMaps == ASSUME Types, Decide PROVE MapRunStep
<1>1. PICK action \in NextActions(NextMode) \ {"noop"}, e \in Element :
        next' = action /\ j' = Position(action)
  BY DEF Decide
<1>2. /\ UNCHANGED <<cfg, run, remote, payload, wiped>>
      /\ pc = "decide" /\ pc' = "act" /\ j < cfg.chainLength
  BY DEF Decide, history
<1>3. UNCHANGED NeighbourPc /\ NeighbourPc = "chain" /\ NeighbourPos = j + 1
  BY <1>2 DEF NeighbourPc, NeighbourPos
<1>4. j \in Nat /\ cfg.chainLength \in Nat
  BY ConfigTypes DEF Types, TypeOK
<1>5. CASE action = "read" /\ j = 0
  <2>1. NeighbourPos' = NeighbourPos + 1
    BY <1>1, <1>2, <1>3, <1>5 DEF NeighbourPos, Position
  <2>2. Neighbour!ChainAction(1)
    BY <1>2, <1>3, <1>4, <2>1, AsChainAction
  <2> QED BY <2>2 DEF MapRunStep, Neighbour!Boundary
<1>6. CASE action # "read" \/ j # 0
  <2>1. NeighbourPos' = NeighbourPos
    BY <1>1, <1>2, <1>3, <1>4, <1>6 DEF NeighbourPos, Position
  <2> QED BY <1>2, <1>3, <2>1, AsNothing DEF MapRunStep
<1> QED BY <1>5, <1>6

LEMMA CallMaps == ASSUME Types, ActSucceeds \/ ActFails PROVE MapRunStep
<1>1. next \in {"insert", "remove", "read"} /\ pc = "act" /\ element \in Element
  BY DEF ActSucceeds, ActFails, Types, TypeOK
<1>2. UNCHANGED <<cfg, run, wiped>> /\ pc' = "decide" /\ j' = j + 1
  BY DEF ActSucceeds, ActFails, Iterate
<1>3. UNCHANGED NeighbourPc /\ NeighbourPc = "chain" /\ NeighbourPos' = j + 2
  <2>1. j \in Nat BY DEF Types, TypeOK
  <2> QED BY <1>1, <1>2, <2>1 DEF NeighbourPc, NeighbourPos
<1>4. CASE next = "read"
  <2>1. remote' = remote /\ UNCHANGED payload
    BY <1>4 DEF ActSucceeds, ActFails, Effect, AssemblePayload
  <2>2. NeighbourPos = j + 2
    BY <1>1, <1>4 DEF NeighbourPos
  <2> QED BY <1>2, <1>3, <2>1, <2>2, AsNothing DEF MapRunStep
<1>5. CASE next # "read"
  <2>1. \/ Neighbour!AssemblePayload(1) /\ remote' \in {remote, remote \cup {element}}
        \/ UNCHANGED payload /\ remote' \in {remote, remote \ {element}}
    <3>1. AssemblePayload /\ remote' \in {remote, Effect}
      BY DEF ActSucceeds, ActFails
    <3>2. CASE next = "insert"
      <4>1. \/ /\ cfg.variablePayload
               /\ \E i \in Generated(info) : info' = i /\ sizes' = Append(sizes, i.payloadSize)
            \/ ~cfg.variablePayload /\ UNCHANGED payload
        BY <3>1, <3>2 DEF AssemblePayload
      <4> QED BY <3>1, <3>2, <4>1, AsAssemblePayload DEF Effect
    <3>3. CASE next = "remove"
      BY <3>1, <3>3 DEF AssemblePayload, Effect
    <3> QED BY <1>1, <1>5, <3>2, <3>3
  <2>2. NeighbourPos = j + 1
    BY <1>1, <1>5 DEF NeighbourPos
  <2>3. j \in Nat /\ cfg.chainLength \in Nat /\ j < cfg.chainLength
    BY <1>1, ConfigTypes DEF Types, TypeOK, Counts
  <2>4. Neighbour!ChainAction(1)
    BY <1>1, <1>2, <1>3, <2>1, <2>2, <2>3, AsChainAction
  <2> QED BY <2>4 DEF MapRunStep, Neighbour!Boundary
<1> QED BY <1>4, <1>5

LEMMA ChainEndMaps == ASSUME Types, AbortChain \/ EndChain PROVE MapRunStep
<1>1. UNCHANGED <<cfg, run, j, remote, payload, wiped>> /\ pc = "decide" /\ pc' = "after"
  BY DEF AbortChain, EndChain, history
<1>2. NeighbourPc = "chain" /\ UNCHANGED NeighbourPos
  BY <1>1 DEF NeighbourPc, NeighbourPos
<1>3. CASE cfg.resetAfterChain
  <2>1. NeighbourPc' = "reset"
    BY <1>1, <1>3 DEF NeighbourPc
  <2>2. Neighbour!EndChain(1)
    BY <1>1, <1>2, <1>3, <2>1, AsEndChain
  <2> QED BY <2>2 DEF MapRunStep, Neighbour!Boundary
<1>4. CASE ~cfg.resetAfterChain
  <2>1. UNCHANGED NeighbourPc
    BY <1>1, <1>4 DEF NeighbourPc
  <2> QED BY <1>1, <1>2, <2>1, AsNothing DEF MapRunStep
<1> QED BY <1>3, <1>4

LEMMA RunEndMaps == ASSUME Types, Reset \/ ResetFails \/ NoReset PROVE MapRunStep
<1>1. UNCHANGED <<cfg, payload, wiped>> /\ run' = run + 1 /\ pc = "after" /\ pc' = "run"
  BY DEF Reset, ResetFails, NoReset, NextRun
<1>2. NeighbourPc' = "run" /\ NeighbourPos' = 1
  BY <1>1 DEF NeighbourPc, NeighbourPos
<1>3. CASE Reset
  <2>1. NeighbourPc = "reset" /\ remote' = {}
    BY <1>1, <1>3 DEF NeighbourPc, Reset
  <2>2. Neighbour!Reset(1)
    BY <1>1, <1>2, <2>1, AsReset
  <2> QED BY <2>2 DEF MapRunStep, Neighbour!Boundary
<1>4. CASE ResetFails
  <2>1. NeighbourPc = "reset" /\ remote' \subseteq remote
    BY <1>1, <1>4 DEF NeighbourPc, ResetFails
  <2>2. Neighbour!ResetFails(1)
    BY <1>1, <1>2, <2>1, AsResetFails
  <2> QED BY <2>2 DEF MapRunStep, Neighbour!Boundary
<1>5. CASE NoReset
  <2>1. NeighbourPc = "chain" /\ remote' = remote /\ ~cfg.resetAfterChain
    BY <1>1, <1>5 DEF NeighbourPc, NoReset
  <2>2. Neighbour!EndChain(1)
    BY <1>1, <1>2, <2>1, AsEndChain
  <2> QED BY <2>2 DEF MapRunStep, Neighbour!Boundary
<1> QED BY <1>3, <1>4, <1>5

LEMMA StepMaps == Types /\ [Next]_vars => MapRunStep
<1> SUFFICES ASSUME Types, [Next]_vars PROVE MapRunStep
  OBVIOUS
<1>1. CASE StartChain
  <2>1. UNCHANGED <<cfg, run, remote, payload>> /\ run < cfg.numRuns /\ wiped' = FALSE
    BY <1>1 DEF StartChain
  <2>2. NeighbourPc = "run" /\ NeighbourPc' = "chain"
    BY <1>1 DEF StartChain, NeighbourPc
  <2>3. NeighbourPos' = 1
    BY <1>1 DEF StartChain, NeighbourPos
  <2>4. Neighbour!StartRun(1)
    BY <2>1, <2>2, <2>3, AsStartRun
  <2> QED BY <2>4 DEF MapRunStep
<1>2. CASE Finish
  <2>1. UNCHANGED <<cfg, run, remote, payload, wiped>> /\ run = cfg.numRuns
    BY <1>2 DEF Finish, history
  <2>2. NeighbourPc = "run" /\ NeighbourPc' = "destroy" /\ UNCHANGED NeighbourPos
    BY <1>2 DEF Finish, NeighbourPc, NeighbourPos
  <2>3. Neighbour!Finish(1)
    BY <2>1, <2>2, AsFinish
  <2> QED BY <2>3 DEF MapRunStep
<1>3. CASE Wipe
  <2>1. UNCHANGED <<cfg, run, payload, NeighbourPc, NeighbourPos>>
    BY <1>3 DEF Wipe, NeighbourPc, NeighbourPos
  <2>2. PICK lost \in (SUBSET remote) \ {{}} : remote' = remote \ lost
    BY <1>3 DEF Wipe
  <2>3. Neighbour!Wipe(1)
    BY <1>3, <2>1, <2>2, AsWipe DEF Wipe
  <2> QED BY <2>3 DEF MapRunStep
<1>4. CASE UNCHANGED vars
  <2>1. UNCHANGED <<cfg, run, remote, payload, wiped, NeighbourPc, NeighbourPos>>
    BY <1>4 DEF vars, payload, history, NeighbourPc, NeighbourPos
  <2> QED BY <2>1, AsNothing DEF MapRunStep
<1> QED BY <1>1, <1>2, <1>3, <1>4, DecideMaps, CallMaps, ChainEndMaps, RunEndMaps DEF Next, Loop

(* For any source data and configurations, whatever calls fail and whoever *)
(* clears the map, the boundary loop takes no step that MapRun does not    *)
(* grant to a boundary goroutine on a map that others clear.               *)
THEOREM ActsAsNeighbour == Spec => BehavesAsNeighbour
<1>1. Types /\ [Next]_vars =>
        [ \/ Neighbour!StartRun(1) \/ Neighbour!Boundary(1) \/ Neighbour!Finish(1)
          \/ Neighbour!Wipe(1) ]_(Neighbour!vars)
  BY StepMaps DEF MapRunStep
<1> QED BY <1>1, TypesHold, PTL DEF Spec, BehavesAsNeighbour

-----------------------------------------------------------------------------
(* Why chains and the loop end (LoopEnds): a bound on the steps that the   *)
(* loop can still take, with two steps for each action.  Only a   *)
(* read takes the index back, and no read follows a read.                  *)
PendingRead == IF last \in {"insert", "remove"} THEN 1 ELSE 0

ActionStepsLeft ==
  CASE pc = "decide" -> 4 * (cfg.chainLength - j) + 2 * PendingRead + 2
    [] pc = "act" -> 4 * (cfg.chainLength - j) + (IF next = "read" THEN -1 ELSE 1)
    [] pc = "after" -> 1

StepsOfRun == 4 * cfg.chainLength + 6

StepsLeft ==
  CASE pc = "run" -> StepsOfRun * (cfg.numRuns - run) + 1
    [] pc \in {"decide", "act", "after"} ->
         StepsOfRun * (cfg.numRuns - run - 1) + ActionStepsLeft + 1
    [] pc = "done" -> 0

(* Every step of the loop lowers the bound; others do not raise it.        *)
StepsRunOut == [][StepsLeft' <= StepsLeft /\ (Loop => StepsLeft' < StepsLeft)]_vars

LEMMA OneRunLess ==
  ASSUME NEW k \in Nat, NEW a \in Int
  PROVE  k * a \in Int /\ k * a = k * (a - 1) + k
  OBVIOUS

LEMMA Numbers ==
  ASSUME Types
  PROVE  /\ j \in Nat /\ run \in Nat /\ cfg.chainLength \in Nat /\ cfg.numRuns \in Nat
         /\ StepsOfRun \in Nat /\ PendingRead \in {0, 1}
         /\ StepsOfRun * (cfg.numRuns - run) \in Int
         /\ StepsOfRun * (cfg.numRuns - run - 1) \in Int
         /\ StepsOfRun * (cfg.numRuns - run) = StepsOfRun * (cfg.numRuns - run - 1) + StepsOfRun
<1>1. j \in Nat /\ run \in Nat /\ cfg.chainLength \in Nat /\ cfg.numRuns \in Nat
  BY ConfigTypes DEF Types, TypeOK
<1>2. StepsOfRun \in Nat /\ PendingRead \in {0, 1}
  BY <1>1 DEF StepsOfRun, PendingRead
<1>3. cfg.numRuns - run \in Int /\ cfg.numRuns - run - 1 \in Int
  BY <1>1
<1> QED BY <1>1, <1>2, <1>3, OneRunLess

(* Within a run only what is left of its actions matters.                  *)
LEMMA WithinRun ==
  ASSUME UNCHANGED <<cfg, run>>, pc \in {"decide", "act", "after"}, pc' \in {"decide", "act", "after"},
         ActionStepsLeft \in Int, ActionStepsLeft' \in Int, ActionStepsLeft' < ActionStepsLeft, Types
  PROVE  StepsLeft' < StepsLeft
<1>1. StepsLeft = StepsOfRun * (cfg.numRuns - run - 1) + ActionStepsLeft + 1
  BY DEF StepsLeft
<1>2. StepsLeft' = StepsOfRun * (cfg.numRuns - run - 1) + ActionStepsLeft' + 1
  BY DEF StepsLeft, StepsOfRun
<1> QED BY <1>1, <1>2, Numbers

LEMMA DecideRunsOut == ASSUME Types, Decide PROVE StepsLeft' < StepsLeft
<1>1. PICK action \in NextActions(NextMode) \ {"noop"}, e \in Element :
        next' = action /\ j' = Position(action)
  BY DEF Decide
<1>2. UNCHANGED <<cfg, run, last>> /\ pc = "decide" /\ pc' = "act" /\ j < cfg.chainLength
  BY DEF Decide
<1>3. ActionStepsLeft = 4 * (cfg.chainLength - j) + 2 * PendingRead + 2
  BY <1>2 DEF ActionStepsLeft
<1>4. CASE action = "read"
  <2>1. PendingRead = 1
    BY <1>1, <1>4 DEF NextActions, Towards, PendingRead
  <2>2. ActionStepsLeft' = 4 * (cfg.chainLength - j') - 1
    BY <1>1, <1>2, <1>4, Numbers DEF ActionStepsLeft
  <2>3. j' \in {j, j - 1} /\ j' \in Nat
    BY <1>1, Numbers DEF Position
  <2> QED BY <1>2, <1>3, <2>1, <2>2, <2>3, Numbers, WithinRun
<1>5. CASE action # "read"
  <2>1. ActionStepsLeft' = 4 * (cfg.chainLength - j) + 1
    BY <1>1, <1>2, <1>5 DEF ActionStepsLeft, Position
  <2> QED BY <1>2, <1>3, <2>1, Numbers, WithinRun
<1> QED BY <1>4, <1>5

LEMMA CallRunsOut == ASSUME Types, ActSucceeds \/ ActFails PROVE StepsLeft' < StepsLeft
<1>1. UNCHANGED <<cfg, run>> /\ pc = "act" /\ pc' = "decide" /\ j' = j + 1 /\ last' = next
  BY DEF ActSucceeds, ActFails, Iterate
<1>2. ActionStepsLeft = 4 * (cfg.chainLength - j) + (IF next = "read" THEN -1 ELSE 1)
  BY <1>1 DEF ActionStepsLeft
<1>3. ActionStepsLeft' = 4 * (cfg.chainLength - (j + 1)) + 2 * PendingRead' + 2
  BY <1>1 DEF ActionStepsLeft
<1>4. PendingRead' = IF next = "read" THEN 0 ELSE 1
  BY <1>1 DEF PendingRead, Types, TypeOK
<1> QED BY <1>1, <1>2, <1>3, <1>4, Numbers, WithinRun

LEMMA RunRunsOut == ASSUME Types, Reset \/ ResetFails \/ NoReset PROVE StepsLeft' < StepsLeft
<1>1. UNCHANGED cfg /\ run' = run + 1 /\ pc = "after" /\ pc' = "run"
  BY DEF Reset, ResetFails, NoReset, NextRun
<1>2. StepsLeft = StepsOfRun * (cfg.numRuns - run - 1) + 1 + 1
  BY <1>1 DEF StepsLeft, ActionStepsLeft
<1>3. StepsLeft' = StepsOfRun * (cfg.numRuns - (run + 1)) + 1
  BY <1>1 DEF StepsLeft, StepsOfRun
<1>4. cfg.numRuns - (run + 1) = cfg.numRuns - run - 1
  <2>1. run \in Nat /\ cfg.numRuns \in Nat BY Numbers
  <2> QED BY <2>1
<1> QED BY <1>2, <1>3, <1>4, Numbers

LEMMA LoopRunsOut == ASSUME Types, Loop PROVE StepsLeft' < StepsLeft
<1>1. CASE StartChain
  <2>1. UNCHANGED <<cfg, run, last>> /\ pc = "run" /\ pc' = "decide" /\ j' = 0
    BY <1>1 DEF StartChain
  <2>2. StepsLeft = StepsOfRun * (cfg.numRuns - run) + 1
    BY <2>1 DEF StepsLeft
  <2>3. StepsLeft' = StepsOfRun * (cfg.numRuns - run - 1) + ActionStepsLeft' + 1
    BY <2>1 DEF StepsLeft, StepsOfRun
  <2>4. ActionStepsLeft' = 4 * (cfg.chainLength - 0) + 2 * PendingRead + 2
    BY <2>1 DEF ActionStepsLeft, PendingRead
  <2>5. StepsOfRun = 4 * cfg.chainLength + 6
    BY DEF StepsOfRun
  <2> QED BY <2>2, <2>3, <2>4, <2>5, Numbers
<1>2. CASE AbortChain \/ EndChain
  <2>1. UNCHANGED <<cfg, run>> /\ pc = "decide" /\ pc' = "after" /\ j <= cfg.chainLength
    BY <1>2 DEF AbortChain, EndChain, Types, TypeOK
  <2>2. ActionStepsLeft = 4 * (cfg.chainLength - j) + 2 * PendingRead + 2 /\ ActionStepsLeft' = 1
    BY <2>1 DEF ActionStepsLeft
  <2> QED BY <2>1, <2>2, Numbers, WithinRun
<1>3. CASE Finish
  <2>1. pc = "run" /\ run = cfg.numRuns /\ pc' = "done"
    BY <1>3 DEF Finish
  <2>2. StepsLeft = StepsOfRun * (cfg.numRuns - run) + 1 /\ StepsLeft' = 0
    BY <2>1 DEF StepsLeft
  <2>3. cfg.numRuns - run = 0
    BY <2>1, Numbers
  <2>4. StepsOfRun * 0 = 0
    BY Numbers
  <2> QED BY <2>2, <2>3, <2>4
<1> QED BY <1>1, <1>2, <1>3, DecideRunsOut, CallRunsOut, RunRunsOut DEF Loop

LEMMA ProductOfNaturals ==
  ASSUME NEW k \in Nat, NEW a \in Nat
  PROVE  k * a \in Nat
  OBVIOUS

LEMMA BoundNatural == ASSUME Types PROVE StepsLeft \in Nat
<1>1. /\ j \in Nat /\ run \in Nat /\ cfg.chainLength \in Nat /\ cfg.numRuns \in Nat
      /\ StepsOfRun \in Nat /\ PendingRead \in {0, 1}
  BY Numbers
<1>2. CASE pc \in {"run", "done"}
  <2>1. cfg.numRuns - run \in Nat
    BY <1>1 DEF Types, TypeOK
  <2>2. StepsOfRun * (cfg.numRuns - run) \in Nat
    BY <1>1, <2>1, ProductOfNaturals
  <2> QED BY <1>2, <2>2 DEF StepsLeft
<1>3. CASE pc \in {"decide", "act", "after"}
  <2>1. cfg.numRuns - run - 1 \in Nat
    BY <1>1, <1>3 DEF Types, Counts
  <2>2. StepsOfRun * (cfg.numRuns - run - 1) \in Nat
    BY <1>1, <2>1, ProductOfNaturals
  <2>3. j <= cfg.chainLength /\ (pc = "act" => j < cfg.chainLength)
    BY DEF Types, TypeOK, Counts
  <2>4. ActionStepsLeft \in Nat
    BY <1>1, <1>3, <2>3 DEF ActionStepsLeft
  <2>5. StepsLeft = StepsOfRun * (cfg.numRuns - run - 1) + ActionStepsLeft + 1
    BY <1>3 DEF StepsLeft
  <2> QED BY <2>2, <2>4, <2>5
<1> QED BY <1>2, <1>3 DEF Types, TypeOK

(* Whatever calls return and whatever happens to the map, the loop has a   *)
(* natural number of steps left and each of its steps uses one up: no      *)
(* chain or loop goes on for ever, although reads take the index back and  *)
(* failed calls count.  With it LoopEnds needs only that the goroutine is  *)
(* never stuck.                                                            *)
THEOREM LoopRunsOutOfSteps == Spec => [](StepsLeft \in Nat) /\ StepsRunOut
<1>1. Types => StepsLeft \in Nat
  BY BoundNatural
<1>2. (Types => StepsLeft \in Nat)'
  BY <1>1, PTL
<1>3. Types /\ [Next]_vars =>
        [StepsLeft' <= StepsLeft /\ (Loop => StepsLeft' < StepsLeft)]_vars
  <2> SUFFICES ASSUME Types, Types', Next
               PROVE  StepsLeft' <= StepsLeft /\ (Loop => StepsLeft' < StepsLeft)
    BY NextTypes
  <2>1. StepsLeft \in Nat /\ StepsLeft' \in Nat
    BY <1>1, <1>2
  <2>2. CASE Loop
    BY <2>1, <2>2, LoopRunsOut
  <2>3. CASE Wipe /\ ~Loop
    <3>1. StepsLeft' = StepsLeft
      BY <2>3 DEF Wipe, StepsLeft, StepsOfRun, ActionStepsLeft, PendingRead
    <3> QED BY <2>1, <2>3, <3>1
  <2> QED BY <2>2, <2>3 DEF Next
<1> QED BY <1>1, <1>3, TypesHold, PTL DEF Spec, StepsRunOut

(* The second half: an iteration always finds an action to take and, if it *)
(* is not a no-op, an element to take it on.                               *)
FindsAnElement ==
  /\ NextActions(NextMode) # {}
  /\ \A action \in NextActions(NextMode) \ {"noop"} : ElementsFor(action) \cap Element # {}

(* chooseNextMapElement has an error for actions it finds no element for.  *)
(* It is never returned, however the cache and the boundaries came about.  *)
THEOREM AlwaysFindsAnElement == Spec => []FindsAnElement
<1>1. Types => FindsAnElement
  <2> SUFFICES ASSUME Types PROVE FindsAnElement
    OBVIOUS
  <2>1. inserted = {} => Size = 0
    BY FS_EmptySet DEF Size
  <2>2. Hits # {}
    BY ConfigTypes DEF Hits, Types, TypeOK
  <2>3. NextActions(NextMode) # {}
    BY <2>2 DEF NextActions
  <2>4. ASSUME NEW action \in NextActions(NextMode) \ {"noop"}
        PROVE  ElementsFor(action) \cap Element # {}
    <3>1. CASE action = "insert"
      BY <3>1, ElementFacts DEF ElementsFor, Types, TypeOK
    <3>2. CASE action # "insert"
      <4>1. Size # 0 BY <2>4, <3>2 DEF NextActions
      <4> QED BY <2>1, <3>2, <4>1 DEF ElementsFor, Types, TypeOK
    <3> QED BY <3>1, <3>2
  <2> QED BY <2>3, <2>4 DEF FindsAnElement
<1> QED BY <1>1, TypesHold, PTL
=============================================================================
