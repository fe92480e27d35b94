---------------------------- MODULE BoundaryLoop ----------------------------
(***************************************************************************)
(* One goroutine of the boundary test loop of src/maps/testloop.go.  In    *)
(* each run it executes an operation chain: actions on its own keys that   *)
(* move the number of keys up and down between a lower and an upper        *)
(* boundary.  It decides from a local cache of the keys it has inserted,   *)
(* which follows the remote map only as far as the calls' results tell.    *)
(* After a chain it may reset the cache and the remote keys.               *)
(*                                                                         *)
(* A call that returns an error may have taken effect.  The remote map can *)
(* lose the keys at any time: another instance's state cleaner evicts it,  *)
(* or a goroutine that shares it destroys it.                              *)
(***************************************************************************)
EXTENDS PayloadGenerator, FiniteSets, Sequences

CONSTANTS
  NumElements,  \* length of the source data, one key for each element
  Configs       \* the configurations to consider, see ConfigType

(* populateBoundaryTestLoopConfig: percentages within 0..100, upper above  *)
(* lower; lengths and run counts are at least one.  probability stands for *)
(* actionTowardsBoundaryProbability: zero, one, or strictly between.       *)
ConfigType ==
  [ lower : 0..100, upper : 0..100, randomLower : BOOLEAN, randomUpper : BOOLEAN,
    probability : {"zero", "some", "one"}, resetAfterChain : BOOLEAN,
    variablePayload : BOOLEAN, chainLength : Nat \ {0}, numRuns : Nat \ {0} ]

ASSUME ElementAssumption == NumElements \in Nat \ {0}

ASSUME ConfigsAssumption ==
  Configs \subseteq {c \in ConfigType : c.lower < c.upper}

VARIABLES
  cfg,          \* the configuration of this runner, fixed
  pc,           \* next step: "run", "decide", "act", "after" or "done"
  run,          \* number of finished runs
  j,            \* position in the chain
  up, lo,       \* boundaries of the current chain, in elements
  mode,         \* modeCache.current, "unset" before the first decision
  last,         \* actionCache.last, "unset" before the first action
  next,         \* action to execute
  element,      \* element to execute it on
  inserted,     \* cache: elementsInserted
  available,    \* cache: elementsAvailableForInsertion
  remote,       \* the goroutine's keys in the Hazelcast map
  info,         \* the goroutine's entry in the payload generator
  sizes,        \* history: sizes of the payloads generated
  doubtful,     \* history: elements whose last call failed or whose key was lost
  wiped         \* history: somebody else cleared the map during the current run

cache == <<inserted, available>>
payload == <<info, sizes>>
history == <<doubtful, wiped>>
vars == <<cfg, pc, run, j, up, lo, mode, last, next, element, cache, remote, payload, history>>

Element == 1..NumElements
First == 1

Size == Cardinality(inserted)

(* math.Round(maxNumElements * percentage)                                 *)
Limit(percentage) == (2 * Cardinality(Element) * percentage + 100) \div 200

Init ==
  /\ cfg \in Configs
  /\ pc = "run" /\ run = 0 /\ j = 0
  /\ up = 0 /\ lo = 0
  /\ mode = "unset" /\ last = "unset" /\ next = "unset" /\ element = First
  /\ inserted = {} /\ available = Element
  /\ remote = {} /\ doubtful = {} /\ wiped = FALSE
  /\ info = NoInfo /\ sizes = <<>>

-----------------------------------------------------------------------------
(* evaluateMapFillBoundaries: random boundaries lie further out than the   *)
(* configured ones.                                                        *)
UpperLimits == IF cfg.randomUpper THEN Limit(cfg.upper)..Cardinality(Element)
                                  ELSE {Limit(cfg.upper)}
LowerLimits == IF cfg.randomLower THEN 0..Limit(cfg.lower) ELSE {Limit(cfg.lower)}

(* checkForModeChange: the mode, and whether the action towards it is      *)
(* forced.                                                                 *)
AtLower == Size <= lo
AtUpper == Size >= up

NextMode ==
  IF Size = 0 \/ mode = "unset" \/ AtLower THEN "fill"
  ELSE IF AtUpper THEN "drain" ELSE mode

MutForced == FALSE

Forced == Size # 0 /\ mode # "unset" /\ (AtLower \/ AtUpper)

Hits ==
  IF Forced THEN {TRUE}
  ELSE {h \in BOOLEAN : (cfg.probability = "one" => h) /\ (cfg.probability = "zero" => ~h)}

Towards(m, hit) == IF (m = "fill") = hit THEN "insert" ELSE "remove"

(* determineNextMapAction, for the mode m just determined.                 *)
NextActions(m) ==
  IF Size = 0
  THEN {IF cfg.probability = "zero" THEN "noop" ELSE "insert"}
  ELSE IF last \in {"insert", "remove"} THEN {"read"}
  ELSE {Towards(m, hit) : hit \in Hits}

(* chooseNextMapElement: with every element inserted, an insert takes the  *)
(* first one.  A read or remove is never chosen on an empty cache, so the  *)
(* error case of the code does not arise.                                  *)
ElementsFor(action) ==
  IF action # "insert" THEN inserted
  ELSE IF available = {} THEN {First} ELSE available

MutPosition(action) == IF j > 0 THEN j - 1 ELSE j

(* Reads do not count, except at the very start of a chain.                *)
Position(action) == IF action = "read" /\ j > 0 THEN j - 1 ELSE j

-----------------------------------------------------------------------------
StartChain ==
  /\ pc = "run" /\ run < cfg.numRuns
  /\ pc' = "decide" /\ j' = 0
  /\ up' \in UpperLimits /\ lo' \in LowerLimits
  /\ wiped' = FALSE
  /\ UNCHANGED <<cfg, run, mode, last, next, element, cache, remote, payload, doubtful>>

(* One loop iteration up to the call.                                      *)
Decide ==
  /\ pc = "decide" /\ j < cfg.chainLength
  /\ mode' = NextMode
  /\ \E action \in NextActions(NextMode) \ {"noop"}, e \in Element :
       /\ e \in ElementsFor(action)
       /\ next' = action /\ element' = e
       /\ j' = Position(action)
  /\ pc' = "act"
  /\ UNCHANGED <<cfg, run, up, lo, last, cache, remote, payload, history>>

(* Nothing sensible to do: the chain ends with an error.                   *)
AbortChain ==
  /\ pc = "decide" /\ j < cfg.chainLength
  /\ "noop" \in NextActions(NextMode)
  /\ mode' = NextMode /\ next' = "noop"
  /\ pc' = "after"
  /\ UNCHANGED <<cfg, run, j, up, lo, last, element, cache, remote, payload, history>>

EndChain ==
  /\ pc = "decide" /\ j >= cfg.chainLength
  /\ pc' = "after"
  /\ UNCHANGED <<cfg, run, j, up, lo, mode, last, next, element, cache, remote, payload, history>>

(* executeMapAction: an insert gets or generates its payload before it     *)
(* calls Set.                                                              *)
MutAssemblePayload == UNCHANGED payload

AssemblePayload ==
  \/ /\ next = "insert" /\ cfg.variablePayload
     /\ \E i \in Generated(info) : info' = i /\ sizes' = Append(sizes, i.payloadSize)
  \/ ~(next = "insert" /\ cfg.variablePayload) /\ UNCHANGED payload

Effect ==
  CASE next = "insert" -> remote \cup {element}
    [] next = "remove" -> remote \ {element}
    [] next = "read" -> remote

MutUpdateCache == inserted' = Effect /\ UNCHANGED available

(* updateKeysCache                                                         *)
UpdateCache ==
  CASE next = "insert" -> /\ inserted' = inserted \cup {element}
                          /\ available' = available \ {element}
    [] next = "remove" -> /\ inserted' = inserted \ {element}
                          /\ available' = available \cup {element}
    [] next = "read" -> UNCHANGED cache

(* The cache follows successful calls only.                                *)
CacheAfterError == UNCHANGED cache

Iterate ==
  /\ last' = next /\ next' = "unset"
  /\ j' = j + 1 /\ pc' = "decide"
  /\ UNCHANGED <<cfg, run, up, lo, mode, element, wiped>>

ActSucceeds ==
  /\ pc = "act"
  /\ next = "read" => element \in remote
  /\ AssemblePayload
  /\ remote' = Effect
  /\ UpdateCache
  /\ doubtful' = IF next = "read" THEN doubtful ELSE doubtful \ {element}
  /\ Iterate

(* The call returns an error, or a read finds no value.                    *)
ActFails ==
  /\ pc = "act"
  /\ AssemblePayload
  /\ remote' \in {remote, Effect}
  /\ CacheAfterError
  /\ doubtful' = IF next = "read" THEN doubtful ELSE doubtful \cup {element}
  /\ Iterate

(* resetAfterOperationChain: the mode and action caches are cleared before *)
(* the remote keys are removed, the key caches only if that succeeds.      *)
NextRun ==
  /\ run' = run + 1 /\ pc' = "run"
  /\ UNCHANGED <<cfg, j, up, lo, next, element, payload, wiped>>

ResetCaches == inserted' = {} /\ available' = Element

Reset ==
  /\ pc = "after" /\ cfg.resetAfterChain
  /\ mode' = "unset" /\ last' = "unset"
  /\ remote' = {}
  /\ ResetCaches
  /\ doubtful' = {}
  /\ NextRun

MutCacheAfterFailedReset == ResetCaches

(* "won't update local cache because removing all keys ... failed"         *)
CacheAfterFailedReset == UNCHANGED cache

ResetFails ==
  /\ pc = "after" /\ cfg.resetAfterChain
  /\ mode' = "unset" /\ last' = "unset"
  /\ \E kept \in SUBSET remote :
       remote' = kept /\ doubtful' = doubtful \cup (remote \ kept)
  /\ CacheAfterFailedReset
  /\ NextRun

NoReset ==
  /\ pc = "after" /\ ~cfg.resetAfterChain
  /\ UNCHANGED <<mode, last, cache, remote, doubtful>>
  /\ NextRun

Finish ==
  /\ pc = "run" /\ run = cfg.numRuns
  /\ pc' = "done"
  /\ UNCHANGED <<cfg, run, j, up, lo, mode, last, next, element, cache, remote, payload, history>>

(* Somebody else clears or destroys the map, or removes a part of it       *)
(* before an error.                                                        *)
Wipe ==
  /\ \E lost \in (SUBSET remote) \ {{}} :
       remote' = remote \ lost /\ doubtful' = doubtful \cup lost
  /\ wiped' = TRUE
  /\ UNCHANGED <<cfg, pc, run, j, up, lo, mode, last, next, element, cache, payload>>

Loop ==
  \/ StartChain \/ Decide \/ AbortChain \/ EndChain \/ ActSucceeds \/ ActFails
  \/ Reset \/ ResetFails \/ NoReset \/ Finish

Next == Loop \/ Wipe

Spec == Init /\ [][Next]_vars

(* The goroutine is scheduled and its calls return; nothing is assumed     *)
(* about their results, or about Wipe.                                     *)
FairSpec == Spec /\ WF_vars(Loop)
-----------------------------------------------------------------------------
(* Types, with the two key caches being complementary.                     *)
TypeOK ==
  /\ cfg \in Configs
  /\ pc \in {"run", "decide", "act", "after", "done"}
  /\ run \in 0..cfg.numRuns
  /\ j \in 0..cfg.chainLength
  /\ up \in 0..Cardinality(Element) /\ lo \in 0..Cardinality(Element)
  /\ mode \in {"unset", "fill", "drain"}
  /\ last \in {"unset", "insert", "remove", "read"}
  /\ next \in {"unset", "insert", "remove", "read", "noop"}
  /\ element \in Element
  /\ inserted \in SUBSET Element /\ available = Element \ inserted
  /\ remote \in SUBSET Element
  /\ doubtful \in SUBSET Element /\ wiped \in BOOLEAN
  /\ info \in PayloadGenerationInfo
  /\ sizes \in Seq(LowerBoundaryBytes..UpperBoundaryBytes)
  /\ pc = "act" => next \in {"insert", "remove", "read"}

(* A chain with a mode never decides to insert at or above the upper       *)
(* boundary, nor to remove at or below the lower one, not even when the    *)
(* boundaries were drawn anew between chains or calls failed.  (An empty   *)
(* cache is filled in any case, and boundaries that round to the same      *)
(* number leave no room.)                                                  *)
RespectsBoundaries ==
  [][pc = "decide" /\ pc' = "act" /\ mode # "unset" /\ lo < up =>
       /\ next' = "insert" => Size < up
       /\ next' = "remove" => lo < Size]_vars

(* The cache differs from the remote map only on elements for which a call *)
(* failed or a key was lost since the last successful insert or remove.    *)
CacheTracksRemote ==
  (inserted \ remote) \cup (remote \ inserted) \subseteq doubtful

(* Every chain ends although reads take the loop index back, and so does   *)
(* the loop after the configured number of runs.                           *)
LoopEnds == <>(pc = "done")

-----------------------------------------------------------------------------
(* This goroutine as MapRun has it, on a map others interfere with.  Reads *)
(* are part of the action before them there: the position in the chain is  *)
(* one ahead while a read is pending, and starts over with each run.       *)
NeighbourPc ==
  CASE pc = "run" -> "run"
    [] pc \in {"decide", "act"} -> "chain"
    [] pc = "after" -> IF cfg.resetAfterChain THEN "reset" ELSE "chain"
    [] pc = "done" -> "destroy"

NeighbourPos ==
  IF pc \in {"run", "done"} THEN 1
  ELSE IF pc = "act" /\ next = "read" THEN j + 2 ELSE j + 1

NeighbourConfig(c) ==
  [ loopType |-> "boundary", shared |-> FALSE, others |-> TRUE, preRunClean |-> FALSE,
    errorBehavior |-> "ignore", variablePayload |-> c.variablePayload,
    resetAfterChain |-> c.resetAfterChain,
    chainLength |-> c.chainLength, numRuns |-> c.numRuns ]

Neighbour == INSTANCE MapRun WITH
  Goroutine <- {1}, Configs <- {NeighbourConfig(c) : c \in Configs},
  cfg <- NeighbourConfig(cfg),
  pc <- [g \in {1} |-> NeighbourPc],
  run <- [g \in {1} |-> run],
  pos <- [g \in {1} |-> NeighbourPos],
  toDelete <- [g \in {1} |-> 1],
  stored <- {1} \X remote,
  info <- [g \in {1} |-> info],
  sizes <- [g \in {1} |-> sizes],
  wiped <- [g \in {1} |-> wiped]

(* What MapRun tells of a boundary goroutine is true of this one: between  *)
(* the start of a run and its end it inserts and removes keys of its own,  *)
(* one at a time and at most chainLength times although reads take the     *)
(* loop index back, generates a payload for each insert and for nothing    *)
(* else, and clears its keys at the end of the chain and only if the chain *)
(* is to be reset.                                                         *)
BehavesAsNeighbour ==
  [][ \/ Neighbour!StartRun(1) \/ Neighbour!Boundary(1) \/ Neighbour!Finish(1)
      \/ Neighbour!Wipe(1) ]_(Neighbour!vars)

(* defaultConfig.yaml, upper: with 80 % of 151 elements the loop does not  *)
(* ingest more than 121.                                                   *)
NeverAboveUpper == [][Size < Cardinality(inserted') => Cardinality(inserted') <= up]_vars
=============================================================================
