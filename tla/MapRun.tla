-------------------------------- MODULE MapRun --------------------------------
(***************************************************************************)
(* The map goroutines that runWrapper of src/maps/testloop.go starts for   *)
(* one runner: retrieve the map, clean it if so configured, run the test   *)
(* loop, destroy the map.  The goroutines may share one map; the keys      *)
(* carry the goroutine's number.                                           *)
(*                                                                         *)
(* The batch loop is modelled call by call.  Of the boundary loop, which   *)
(* BoundaryLoop models in detail, only what its neighbours on a shared map *)
(* can see is kept: it inserts and removes keys of its own, and may clear  *)
(* its keys after a chain by a predicate on the key's prefix.              *)
(*                                                                         *)
(* A call that returns an error may have taken effect.                     *)
(***************************************************************************)
EXTENDS PayloadGenerator, FiniteSets, Sequences

CONSTANTS
  Goroutine,    \* map numbers of the goroutines that get to run
  NumElements,  \* length of the runner's source data
  Configs       \* the configurations to consider

(* Of runnerConfig: shared stands for a map name without the map index;    *)
(* others says whether other instances use the same map name.              *)
ConfigType ==
  [ loopType : {"batch", "boundary"}, shared : BOOLEAN, others : BOOLEAN,
    preRunClean : BOOLEAN, errorBehavior : {"ignore", "fail"},
    variablePayload : BOOLEAN, resetAfterChain : BOOLEAN,
    chainLength : Nat \ {0}, numRuns : Nat \ {0} ]

ASSUME MapRunAssumption ==
  /\ Goroutine \subseteq Nat /\ IsFiniteSet(Goroutine)
  /\ NumElements \in Nat \ {0}
  /\ Configs \subseteq ConfigType

(* Map numbers are of type uint16.                                         *)
ASSUME MapNumberAssumption == \A g \in Goroutine : g < 65536

VARIABLES
  cfg,       \* the runner's configuration, fixed
  pc,        \* next step of each goroutine
  run,       \* number of finished runs
  pos,       \* index of the element at hand, or position in the chain
  toDelete,  \* numElementsToDelete of the current run
  stored,    \* keys in the Hazelcast maps; a key is in its goroutine's map
  info,      \* each goroutine's entry in the payload generator
  sizes,     \* history: sizes of the payloads generated, one for each call of Set
  wiped      \* history: somebody else cleared the map during the current run

vars == <<cfg, pc, run, pos, toDelete, stored, info, sizes, wiped>>

Element == 1..NumElements

Init ==
  /\ cfg \in Configs
  /\ pc = [g \in Goroutine |-> "start"]
  /\ run = [g \in Goroutine |-> 0]
  /\ pos = [g \in Goroutine |-> 1]
  /\ toDelete = [g \in Goroutine |-> 1]
  /\ stored = {}
  /\ info = [g \in Goroutine |-> NoInfo]
  /\ sizes = [g \in Goroutine |-> <<>>]
  /\ wiped = [g \in Goroutine |-> FALSE]

-----------------------------------------------------------------------------
(* assembleMapName: the map index is part of the name or not.              *)
SameMap(g) == IF cfg.shared THEN Goroutine ELSE {g}

(* assembleMapKey                                                          *)
Key(g) == <<g, pos[g]>>

OwnKeys(g) == {g} \X Element
KeysInMap(g) == SameMap(g) \X Element

(* assemblePredicate: <client>-<map>-<number>% matches the keys of every   *)
(* goroutine whose number begins with the digits of g, at most four digits *)
(* more.                                                                   *)
BeginsWith(h, g) ==
  h = g \/ (g > 0 /\ \E p \in {10, 100, 1000, 10000} : h \div p = g)
MatchingKeys(g) == {h \in SameMap(g) : BeginsWith(h, g)} \X Element

ClearedByOthers(gs) == wiped' = [h \in Goroutine |-> wiped[h] \/ h \in gs]

GoTo(g, label) == pc' = [pc EXCEPT ![g] = label]

(* getOrAssemblePayload of the load runner: a payload of fixed size comes  *)
(* with the element, one of variable size from the generator.              *)
AssemblePayload(g) ==
  \/ /\ cfg.variablePayload
     /\ \E i \in Generated(info[g]) :
          /\ info' = [info EXCEPT ![g] = i]
          /\ sizes' = [sizes EXCEPT ![g] = Append(@, i.payloadSize)]
  \/ ~cfg.variablePayload /\ UNCHANGED <<info, sizes>>

(* The calls before and after the test loop.                               *)
GetMap(g) ==
  /\ pc[g] = "start"
  /\ GoTo(g, IF cfg.preRunClean THEN "clean" ELSE "run")
  /\ UNCHANGED <<cfg, run, pos, toDelete, stored, info, sizes, wiped>>

(* Returns before Destroy is deferred.                                     *)
GetMapFails(g) ==
  /\ pc[g] = "start"
  /\ GoTo(g, "done")
  /\ UNCHANGED <<cfg, run, pos, toDelete, stored, info, sizes, wiped>>

(* The single map cleaner, see CleanerSync: it empties the map ...         *)
Clean(g) ==
  /\ pc[g] = "clean"
  /\ stored' = stored \ KeysInMap(g)
  /\ ClearedByOthers(SameMap(g) \ {g})
  /\ GoTo(g, "run")
  /\ UNCHANGED <<cfg, run, pos, toDelete, info, sizes>>

(* ... or finds it protected by a recent clean, or empty ...               *)
CleanSkips(g) ==
  /\ pc[g] = "clean"
  /\ GoTo(g, "run")
  /\ UNCHANGED <<cfg, run, pos, toDelete, stored, info, sizes, wiped>>

(* ... or fails, as on a locked key, perhaps after having emptied the map. *)
CleanFails(g) ==
  /\ pc[g] = "clean"
  /\ GoTo(g, IF cfg.errorBehavior = "ignore" THEN "run" ELSE "destroy")
  /\ \/ UNCHANGED <<stored, wiped>>
     \/ stored' = stored \ KeysInMap(g) /\ ClearedByOthers(SameMap(g) \ {g})
  /\ UNCHANGED <<cfg, run, pos, toDelete, info, sizes>>

MutAfterDestroy(g) == IF cfg.shared THEN stored ELSE stored \ KeysInMap(g)

(* Map.Destroy removes the map with everybody's keys; it comes back empty  *)
(* with the next write.                                                    *)
AfterDestroy(g) == stored \ KeysInMap(g)

Destroy(g) ==
  /\ pc[g] = "destroy"
  /\ stored' = AfterDestroy(g)
  /\ ClearedByOthers(SameMap(g) \ {g})
  /\ GoTo(g, "done")
  /\ UNCHANGED <<cfg, run, pos, toDelete, info, sizes>>

(* The error is dropped.                                                   *)
DestroyFails(g) ==
  /\ pc[g] = "destroy"
  /\ GoTo(g, "failed")
  /\ \/ UNCHANGED <<stored, wiped>>
     \/ stored' = AfterDestroy(g) /\ ClearedByOthers(SameMap(g) \ {g})
  /\ UNCHANGED <<cfg, run, pos, toDelete, info, sizes>>

Finish(g) ==
  /\ pc[g] = "run" /\ run[g] = cfg.numRuns
  /\ GoTo(g, "destroy")
  /\ UNCHANGED <<cfg, run, pos, toDelete, stored, info, sizes, wiped>>

StartRun(g) ==
  /\ pc[g] = "run" /\ run[g] < cfg.numRuns
  /\ GoTo(g, IF cfg.loopType = "batch" THEN "ingest" ELSE "chain")
  /\ pos' = [pos EXCEPT ![g] = 1]
  /\ wiped' = [wiped EXCEPT ![g] = FALSE]
  /\ UNCHANGED <<cfg, run, toDelete, stored, info, sizes>>

-----------------------------------------------------------------------------
(* The batch loop.  Its three phases walk over the elements; an error ends *)
(* the run, which counts as one of numRuns.                                *)
Advance(g, last, same, following) ==
  IF pos[g] < last
  THEN pos' = [pos EXCEPT ![g] = @ + 1] /\ GoTo(g, same)
  ELSE pos' = [pos EXCEPT ![g] = 1] /\ GoTo(g, following)

EndRun(g) ==
  /\ run' = [run EXCEPT ![g] = @ + 1]
  /\ pos' = [pos EXCEPT ![g] = 1] /\ toDelete' = [toDelete EXCEPT ![g] = 1]
  /\ GoTo(g, "run")

(* ContainsKey, and the payload for a missing key.                         *)
IngestFound(g) ==
  /\ pc[g] = "ingest" /\ Key(g) \in stored
  /\ Advance(g, NumElements, "ingest", "read")
  /\ UNCHANGED <<cfg, run, toDelete, stored, info, sizes, wiped>>

IngestMissing(g) ==
  /\ pc[g] = "ingest" /\ Key(g) \notin stored
  /\ GoTo(g, "set")
  /\ AssemblePayload(g)
  /\ UNCHANGED <<cfg, run, pos, toDelete, stored, wiped>>

Set(g) ==
  /\ pc[g] = "set"
  /\ stored' = stored \cup {Key(g)}
  /\ Advance(g, NumElements, "ingest", "read")
  /\ UNCHANGED <<cfg, run, toDelete, info, sizes, wiped>>

MutAfterFailedSet(g) ==
  Advance(g, NumElements, "ingest", "read") /\ UNCHANGED <<run, toDelete>>

MutRetryAfterFailedSet(g) ==
  GoTo(g, "run") /\ pos' = [pos EXCEPT ![g] = 1] /\ UNCHANGED <<run, toDelete>>

AfterFailedSet(g) == EndRun(g)

SetFails(g) ==
  /\ pc[g] = "set"
  /\ stored' \in {stored, stored \cup {Key(g)}}
  /\ AfterFailedSet(g)
  /\ UNCHANGED <<cfg, info, sizes, wiped>>

ReadFound(g) ==
  /\ pc[g] = "read" /\ Key(g) \in stored
  /\ Advance(g, NumElements, "read", "count")
  /\ UNCHANGED <<cfg, run, toDelete, stored, info, sizes, wiped>>

(* A nil value is an error of the run.                                     *)
ReadNil(g) ==
  /\ pc[g] = "read" /\ Key(g) \notin stored
  /\ EndRun(g)
  /\ UNCHANGED <<cfg, stored, info, sizes, wiped>>

MutNumElementsToDelete == 1..(NumElements + 1)

(* rand.Intn(len(elements)) + 1                                            *)
NumElementsToDelete == 1..NumElements

BeginRemove(g) ==
  /\ pc[g] = "count"
  /\ \E n \in NumElementsToDelete : toDelete' = [toDelete EXCEPT ![g] = n]
  /\ GoTo(g, "remove")
  /\ UNCHANGED <<cfg, run, pos, stored, info, sizes, wiped>>

RemoveNext(g) ==
  IF pos[g] < toDelete[g]
  THEN pos' = [pos EXCEPT ![g] = @ + 1] /\ GoTo(g, "remove") /\ UNCHANGED <<run, toDelete>>
  ELSE EndRun(g)

RemoveMissing(g) ==
  /\ pc[g] = "remove" /\ Key(g) \notin stored
  /\ RemoveNext(g)
  /\ UNCHANGED <<cfg, stored, info, sizes, wiped>>

RemoveFound(g) ==
  /\ pc[g] = "remove" /\ Key(g) \in stored
  /\ GoTo(g, "delete")
  /\ UNCHANGED <<cfg, run, pos, toDelete, stored, info, sizes, wiped>>

Remove(g) ==
  /\ pc[g] = "delete"
  /\ stored' = stored \ {Key(g)}
  /\ RemoveNext(g)
  /\ UNCHANGED <<cfg, info, sizes, wiped>>

RemoveFails(g) ==
  /\ pc[g] = "delete"
  /\ stored' \in {stored, stored \ {Key(g)}}
  /\ EndRun(g)
  /\ UNCHANGED <<cfg, info, sizes, wiped>>

(* ContainsKey or Get returns an error.                                    *)
CheckFails(g) ==
  /\ pc[g] \in {"ingest", "read", "remove"}
  /\ EndRun(g)
  /\ UNCHANGED <<cfg, stored, info, sizes, wiped>>

Batch(g) ==
  \/ IngestFound(g) \/ IngestMissing(g) \/ Set(g) \/ SetFails(g)
  \/ ReadFound(g) \/ ReadNil(g)
  \/ BeginRemove(g) \/ RemoveMissing(g) \/ RemoveFound(g) \/ Remove(g) \/ RemoveFails(g)
  \/ CheckFails(g)

-----------------------------------------------------------------------------
(* The boundary loop as its neighbours see it: an insert, for which a      *)
(* payload is assembled first, or a remove; either may fail.               *)
ChainAction(g) ==
  /\ pc[g] = "chain" /\ pos[g] <= cfg.chainLength
  /\ \E e \in Element :
       \/ AssemblePayload(g) /\ stored' \in {stored, stored \cup {<<g, e>>}}
       \/ UNCHANGED <<info, sizes>> /\ stored' \in {stored, stored \ {<<g, e>>}}
  /\ pos' = [pos EXCEPT ![g] = @ + 1]
  /\ UNCHANGED <<cfg, pc, run, toDelete, wiped>>

EndChain(g) ==
  /\ pc[g] = "chain"
  /\ IF cfg.resetAfterChain THEN GoTo(g, "reset") /\ UNCHANGED <<run, pos, toDelete>>
                            ELSE EndRun(g)
  /\ UNCHANGED <<cfg, stored, info, sizes, wiped>>

Reset(g) ==
  /\ pc[g] = "reset"
  /\ stored' = stored \ MatchingKeys(g)
  /\ ClearedByOthers({h \in SameMap(g) \ {g} : BeginsWith(h, g)})
  /\ EndRun(g)
  /\ UNCHANGED <<cfg, info, sizes>>

(* RemoveAll may have removed a part of the keys.                          *)
ResetFails(g) ==
  /\ pc[g] = "reset"
  /\ \E kept \in SUBSET (stored \cap MatchingKeys(g)) :
       stored' = (stored \ MatchingKeys(g)) \cup kept
  /\ ClearedByOthers({h \in SameMap(g) \ {g} : BeginsWith(h, g)})
  /\ EndRun(g)
  /\ UNCHANGED <<cfg, info, sizes>>

Boundary(g) == ChainAction(g) \/ EndChain(g) \/ Reset(g) \/ ResetFails(g)

(* Another instance cleans or destroys the map, or removes a part of it    *)
(* before an error.                                                        *)
Wipe(g) ==
  /\ cfg.others
  /\ \E lost \in SUBSET (stored \cap KeysInMap(g)) :
       lost # {} /\ stored' = stored \ lost
  /\ ClearedByOthers(SameMap(g))
  /\ UNCHANGED <<cfg, pc, run, pos, toDelete, info, sizes>>

Step(g) ==
  \/ GetMap(g) \/ GetMapFails(g) \/ Clean(g) \/ CleanSkips(g) \/ CleanFails(g)
  \/ StartRun(g) \/ Batch(g) \/ Boundary(g) \/ Finish(g)
  \/ Destroy(g) \/ DestroyFails(g)

Next == \E g \in Goroutine : Step(g) \/ Wipe(g)

Spec == Init /\ [][Next]_vars

(* Goroutines are scheduled and calls return, with any result.             *)
FairSpec == Spec /\ \A g \in Goroutine : WF_vars(Step(g))
-----------------------------------------------------------------------------
TypeOK ==
  /\ cfg \in Configs
  /\ pc \in [Goroutine -> {"start", "clean", "run", "ingest", "set", "read", "count",
                           "remove", "delete", "chain", "reset", "destroy", "done", "failed"}]
  /\ run \in [Goroutine -> 0..cfg.numRuns]
  /\ pos \in [Goroutine -> Nat \ {0}]
  /\ \A g \in Goroutine : pc[g] \in {"ingest", "set", "read", "count", "remove", "delete"} =>
                            pos[g] \in Element
  /\ toDelete \in [Goroutine -> Element]
  /\ stored \subseteq Goroutine \X Element
  /\ info \in [Goroutine -> PayloadGenerationInfo]
  /\ sizes \in [Goroutine -> Seq(LowerBoundaryBytes..UpperBoundaryBytes)]
  /\ wiped \in [Goroutine -> BOOLEAN]

(* A goroutine that reads has all its keys in the map, ingested in this    *)
(* run or left by earlier ones, whatever failed in those, unless somebody  *)
(* else cleared the map during the run.  So a nil read always tells of a   *)
(* neighbour (or of lost data), never of the loop itself.                  *)
ReadsWhatItIngested ==
  \A g \in Goroutine : pc[g] \in {"read", "count"} /\ ~wiped[g] => OwnKeys(g) \subseteq stored

(* A goroutine whose Destroy succeeded leaves none of its keys behind, no  *)
(* matter how its runs ended and who recreated a shared map since; one     *)
(* that has not begun has none.                                            *)
LeavesNothingBehind ==
  \A g \in Goroutine :
    pc[g] \in {"start", "clean", "done"} => OwnKeys(g) \cap stored = {}

(* The payloads from one drawing of the size to the next.                  *)
SameSteps(i, k) == (i - 1) \div SameSizeStepsLimit = (k - 1) \div SameSizeStepsLimit

(* A size, once drawn, is that of exactly SameSizeStepsLimit payloads, one *)
(* after the other, across the ends of runs and whatever writes failed;    *)
(* then it is drawn anew, and every size within the boundaries can be the  *)
(* next one.                                                               *)
SizeServesItsSteps ==
  \A g \in Goroutine :
    /\ \A i, k \in 1..Len(sizes[g]) : SameSteps(i, k) => sizes[g][i] = sizes[g][k]
    /\ Len(sizes[g]) % SameSizeStepsLimit = 0 =>
         {i.payloadSize : i \in Generated(info[g])} = LowerBoundaryBytes..UpperBoundaryBytes

(* Whatever fails and whoever interferes, every goroutine ends.            *)
GoroutinesEnd == \A g \in Goroutine : <>(pc[g] \in {"done", "failed"})

(* defaultConfig.yaml on resetAfterChain: the values of other test loops   *)
(* of the same runner are left untouched.                                  *)
ResetLeavesOthers ==
  [][\A g, h \in Goroutine :
       g # h /\ pc[g] = "reset" /\ pc'[g] = "run" => OwnKeys(h) \cap stored \subseteq stored']_vars
=============================================================================
