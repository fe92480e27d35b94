----------------------------- MODULE MapRunProofs -----------------------------
(***************************************************************************)
(* Proofs about MapRun, for any goroutines, number of elements and         *)
(* configurations.                                                         *)
(***************************************************************************)
EXTENDS MapRun, TLAPS

(* A run that has begun is not the last one done.                          *)
BegunRuns ==
  \A g \in Goroutine :
    pc[g] \in {"ingest", "set", "read", "count", "remove", "delete", "chain", "reset"} =>
      run[g] < cfg.numRuns

Types == TypeOK /\ BegunRuns

LEMMA ConfigTypes == ASSUME NEW c \in Configs PROVE c.numRuns \in Nat \ {0}
<1>1. c \in ConfigType BY MapRunAssumption
<1> QED BY <1>1 DEF ConfigType

LEMMA GeneratedTypes ==
  ASSUME NEW i \in PayloadGenerationInfo, NEW k \in Generated(i)
  PROVE  k \in PayloadGenerationInfo /\ k.payloadSize \in LowerBoundaryBytes..UpperBoundaryBytes
<1>1. CASE i = NoInfo \/ Exhausted(i)
  BY <1>1, RequirementAssumption DEF Generated, PayloadGenerationInfo
<1>2. CASE ~(i = NoInfo \/ Exhausted(i))
  <2>1. /\ i \in [numGeneratePayloadInvocations : 1..SameSizeStepsLimit,
                  payloadSize : LowerBoundaryBytes..UpperBoundaryBytes]
        /\ i.numGeneratePayloadInvocations < SameSizeStepsLimit
    BY <1>2, RequirementAssumption DEF PayloadGenerationInfo, Exhausted
  <2>2. k = [i EXCEPT !.numGeneratePayloadInvocations = @ + 1]
    BY <1>2 DEF Generated
  <2> QED BY <2>1, <2>2, RequirementAssumption DEF PayloadGenerationInfo
<1> QED BY <1>1, <1>2

LEMMA AssembleTypes ==
  ASSUME Types, NEW g \in Goroutine, AssemblePayload(g)
  PROVE  /\ info' \in [Goroutine -> PayloadGenerationInfo]
         /\ sizes' \in [Goroutine -> Seq(LowerBoundaryBytes..UpperBoundaryBytes)]
<1>0. /\ info \in [Goroutine -> PayloadGenerationInfo]
      /\ sizes \in [Goroutine -> Seq(LowerBoundaryBytes..UpperBoundaryBytes)]
  BY DEF Types, TypeOK
<1>1. CASE UNCHANGED <<info, sizes>>
  BY <1>0, <1>1
<1>2. CASE ~UNCHANGED <<info, sizes>>
  <2>1. PICK i \in Generated(info[g]) :
          /\ info' = [info EXCEPT ![g] = i]
          /\ sizes' = [sizes EXCEPT ![g] = Append(@, i.payloadSize)]
    BY <1>2 DEF AssemblePayload
  <2>2. /\ i \in PayloadGenerationInfo
        /\ i.payloadSize \in LowerBoundaryBytes..UpperBoundaryBytes
    BY <1>0, <2>1, GeneratedTypes
  <2>3. Append(sizes[g], i.payloadSize) \in Seq(LowerBoundaryBytes..UpperBoundaryBytes)
    BY <1>0, <2>2
  <2> QED BY <1>0, <2>1, <2>2, <2>3
<1> QED BY <1>1, <1>2

LEMMA InitTypes == Init => Types
<1> SUFFICES ASSUME Init PROVE Types
  OBVIOUS
<1>1. cfg.numRuns \in Nat BY ConfigTypes DEF Init
<1>2. NoInfo \in PayloadGenerationInfo BY DEF PayloadGenerationInfo
<1>3. <<>> \in Seq(LowerBoundaryBytes..UpperBoundaryBytes) OBVIOUS
<1> QED BY <1>1, <1>2, <1>3, MapRunAssumption DEF Init, Types, TypeOK, BegunRuns, Element

LEMMA EndRunTypes ==
  ASSUME Types, NEW g \in Goroutine, run[g] < cfg.numRuns, EndRun(g)
  PROVE  /\ run' \in [Goroutine -> 0..cfg.numRuns]
         /\ pos' \in [Goroutine -> Nat \ {0}]
         /\ toDelete' \in [Goroutine -> Element]
         /\ pc' = [pc EXCEPT ![g] = "run"]
         /\ \A h \in Goroutine \ {g} : run'[h] = run[h] /\ pos'[h] = pos[h]
<1>1. cfg.numRuns \in Nat BY ConfigTypes DEF Types, TypeOK
<1>2. run \in [Goroutine -> 0..cfg.numRuns] /\ pos \in [Goroutine -> Nat \ {0}]
      /\ toDelete \in [Goroutine -> Element] /\ 1 \in Element
  BY MapRunAssumption DEF Types, TypeOK, Element
<1> QED BY <1>1, <1>2 DEF EndRun, GoTo

LEMMA AdvanceTypes ==
  ASSUME Types, NEW g \in Goroutine, pos[g] \in Element, NEW same, NEW following,
         Advance(g, NumElements, same, following)
  PROVE  /\ pos' \in [Goroutine -> Nat \ {0}] /\ pos'[g] \in Element
         /\ pc' = [pc EXCEPT ![g] = pc'[g]] /\ pc'[g] \in {same, following}
         /\ \A h \in Goroutine \ {g} : pos'[h] = pos[h]
<1>1. pos \in [Goroutine -> Nat \ {0}] /\ 1 \in Element /\ pc = [h \in Goroutine |-> pc[h]]
  BY MapRunAssumption DEF Types, TypeOK, Element
<1>2. pos[g] < NumElements => pos[g] + 1 \in Element
  BY MapRunAssumption DEF Element
<1> QED BY <1>1, <1>2 DEF Advance, GoTo

LEMMA RemoveNextTypes ==
  ASSUME Types, NEW g \in Goroutine, pos[g] \in Element, run[g] < cfg.numRuns, RemoveNext(g)
  PROVE  /\ run' \in [Goroutine -> 0..cfg.numRuns]
         /\ pos' \in [Goroutine -> Nat \ {0}]
         /\ toDelete' \in [Goroutine -> Element]
         /\ \/ pc' = [pc EXCEPT ![g] = "run"]
            \/ pc' = [pc EXCEPT ![g] = "remove"] /\ pos'[g] \in Element /\ run' = run
         /\ \A h \in Goroutine \ {g} : run'[h] = run[h] /\ pos'[h] = pos[h]
<1>1. CASE pos[g] < toDelete[g]
  <2>1. pos[g] + 1 \in Element
    BY <1>1, MapRunAssumption DEF Types, TypeOK, Element
  <2>2. pos' = [pos EXCEPT ![g] = @ + 1] /\ GoTo(g, "remove") /\ UNCHANGED <<run, toDelete>>
    BY <1>1 DEF RemoveNext
  <2> QED BY <2>1, <2>2 DEF GoTo, Types, TypeOK
<1>2. CASE ~(pos[g] < toDelete[g])
  <2>1. EndRun(g) BY <1>2 DEF RemoveNext
  <2> QED BY <2>1, EndRunTypes
<1> QED BY <1>1, <1>2

LEMMA ClearedTypes ==
  ASSUME NEW gs, ClearedByOthers(gs)
  PROVE  wiped' \in [Goroutine -> BOOLEAN]
  BY DEF ClearedByOthers

(* Before and after the test loop.                                         *)
Outside(g) ==
  \/ GetMap(g) \/ GetMapFails(g) \/ Clean(g) \/ CleanSkips(g) \/ CleanFails(g)
  \/ Finish(g) \/ Destroy(g) \/ DestroyFails(g)

LEMMA OutsideTypes == ASSUME Types, NEW g \in Goroutine, Outside(g) PROVE Types'
<1>1. UNCHANGED <<cfg, run, pos, toDelete, info, sizes>>
  BY DEF Outside, GetMap, GetMapFails, Clean, CleanSkips, CleanFails, Finish, Destroy, DestroyFails
<1>2. \E l \in {"clean", "run", "destroy", "done", "failed"} : pc' = [pc EXCEPT ![g] = l]
  BY DEF Outside, GetMap, GetMapFails, Clean, CleanSkips, CleanFails, Finish, Destroy, DestroyFails, GoTo
<1>3. stored' \subseteq stored
  BY DEF Outside, GetMap, GetMapFails, Clean, CleanSkips, CleanFails, Finish, Destroy, DestroyFails, AfterDestroy
<1>4. wiped' \in [Goroutine -> BOOLEAN]
  BY ClearedTypes
  DEF Outside, GetMap, GetMapFails, Clean, CleanSkips, CleanFails, Finish, Destroy, DestroyFails, Types, TypeOK
<1> QED BY <1>1, <1>2, <1>3, <1>4 DEF Types, TypeOK, BegunRuns

LEMMA BatchTypes == ASSUME Types, NEW g \in Goroutine, Batch(g) PROVE Types'
<1>0. /\ pc[g] \in {"ingest", "set", "read", "count", "remove", "delete"}
      /\ UNCHANGED <<cfg, wiped>>
  BY DEF Batch, IngestFound, IngestMissing, Set, SetFails, ReadFound, ReadNil, BeginRemove,
         RemoveMissing, RemoveFound, Remove, RemoveFails, CheckFails
<1>1. pos[g] \in Element /\ run[g] < cfg.numRuns
  BY <1>0 DEF Types, TypeOK, BegunRuns
<1>2. Key(g) \in Goroutine \X Element
  BY <1>1 DEF Key
<1>3. stored' \subseteq Goroutine \X Element
  BY <1>2 DEF Batch, IngestFound, IngestMissing, Set, SetFails, ReadFound, ReadNil, BeginRemove,
         RemoveMissing, RemoveFound, Remove, RemoveFails, CheckFails, Types, TypeOK
<1>4. CASE IngestFound(g) \/ Set(g) \/ ReadFound(g)
  <2>1. UNCHANGED <<cfg, run, toDelete, info, sizes, wiped>>
    BY <1>4 DEF IngestFound, Set, ReadFound
  <2>2. /\ pos' \in [Goroutine -> Nat \ {0}] /\ pos'[g] \in Element
        /\ pc' = [pc EXCEPT ![g] = pc'[g]] /\ pc'[g] \in {"ingest", "read", "count"}
        /\ \A h \in Goroutine \ {g} : pos'[h] = pos[h]
    BY <1>1, <1>4, AdvanceTypes DEF IngestFound, Set, ReadFound
  <2> QED BY <1>1, <1>3, <2>1, <2>2 DEF Types, TypeOK, BegunRuns
<1>5. CASE IngestMissing(g)
  <2>1. /\ info' \in [Goroutine -> PayloadGenerationInfo]
        /\ sizes' \in [Goroutine -> Seq(LowerBoundaryBytes..UpperBoundaryBytes)]
    BY <1>5, AssembleTypes DEF IngestMissing
  <2> QED BY <1>1, <1>3, <1>5, <2>1 DEF IngestMissing, GoTo, Types, TypeOK, BegunRuns
<1>6. CASE SetFails(g) \/ ReadNil(g) \/ RemoveFails(g) \/ CheckFails(g)
  <2>1. UNCHANGED <<cfg, info, sizes, wiped>> /\ EndRun(g)
    BY <1>6 DEF SetFails, AfterFailedSet, ReadNil, RemoveFails, CheckFails
  <2>2. /\ run' \in [Goroutine -> 0..cfg.numRuns]
        /\ pos' \in [Goroutine -> Nat \ {0}]
        /\ toDelete' \in [Goroutine -> Element]
        /\ pc' = [pc EXCEPT ![g] = "run"]
        /\ \A h \in Goroutine \ {g} : run'[h] = run[h] /\ pos'[h] = pos[h]
    BY <1>1, <2>1, EndRunTypes
  <2> QED BY <1>3, <2>1, <2>2 DEF Types, TypeOK, BegunRuns
<1>7. CASE BeginRemove(g) \/ RemoveFound(g)
  <2>1. UNCHANGED <<cfg, run, pos, info, sizes, wiped>>
    BY <1>7 DEF BeginRemove, RemoveFound
  <2>2. toDelete' \in [Goroutine -> Element]
    BY <1>7 DEF BeginRemove, RemoveFound, NumElementsToDelete, Element, Types, TypeOK
  <2>3. \E l \in {"remove", "delete"} : pc' = [pc EXCEPT ![g] = l]
    BY <1>7 DEF BeginRemove, RemoveFound, GoTo
  <2> QED BY <1>1, <1>3, <2>1, <2>2, <2>3 DEF Types, TypeOK, BegunRuns
<1>8. CASE RemoveMissing(g) \/ Remove(g)
  <2>1. UNCHANGED <<cfg, info, sizes, wiped>> /\ RemoveNext(g)
    BY <1>8 DEF RemoveMissing, Remove
  <2>2. /\ run' \in [Goroutine -> 0..cfg.numRuns]
        /\ pos' \in [Goroutine -> Nat \ {0}]
        /\ toDelete' \in [Goroutine -> Element]
        /\ \/ pc' = [pc EXCEPT ![g] = "run"]
           \/ pc' = [pc EXCEPT ![g] = "remove"] /\ pos'[g] \in Element /\ run' = run
        /\ \A h \in Goroutine \ {g} : run'[h] = run[h] /\ pos'[h] = pos[h]
    BY <1>1, <2>1, RemoveNextTypes
  <2> QED BY <1>1, <1>3, <2>1, <2>2 DEF Types, TypeOK, BegunRuns
<1> QED BY <1>4, <1>5, <1>6, <1>7, <1>8 DEF Batch

LEMMA BoundaryTypes == ASSUME Types, NEW g \in Goroutine, Boundary(g) PROVE Types'
<1>0. /\ pc[g] \in {"chain", "reset"} /\ UNCHANGED cfg
  BY DEF Boundary, ChainAction, EndChain, Reset, ResetFails
<1>1. run[g] < cfg.numRuns
  BY <1>0 DEF Types, BegunRuns
<1>2. wiped' \in [Goroutine -> BOOLEAN]
  BY ClearedTypes DEF Boundary, ChainAction, EndChain, Reset, ResetFails, Types, TypeOK
<1>3. CASE ChainAction(g)
  <2>1. stored' \subseteq Goroutine \X Element
    BY <1>3 DEF ChainAction, Types, TypeOK
  <2>2. pos' \in [Goroutine -> Nat \ {0}] /\ \A h \in Goroutine \ {g} : pos'[h] = pos[h]
    BY <1>3 DEF ChainAction, Types, TypeOK
  <2>3. /\ info' \in [Goroutine -> PayloadGenerationInfo]
        /\ sizes' \in [Goroutine -> Seq(LowerBoundaryBytes..UpperBoundaryBytes)]
    BY <1>3, AssembleTypes DEF ChainAction, Types, TypeOK
  <2> QED BY <1>0, <1>2, <1>3, <2>1, <2>2, <2>3 DEF ChainAction, Types, TypeOK, BegunRuns
<1>4. CASE EndChain(g) /\ cfg.resetAfterChain
  BY <1>1, <1>4 DEF EndChain, GoTo, Types, TypeOK, BegunRuns
<1>5. CASE (EndChain(g) /\ ~cfg.resetAfterChain) \/ Reset(g) \/ ResetFails(g)
  <2>1. EndRun(g) /\ stored' \subseteq stored /\ UNCHANGED <<info, sizes>>
    BY <1>5 DEF EndChain, Reset, ResetFails
  <2>2. /\ run' \in [Goroutine -> 0..cfg.numRuns]
        /\ pos' \in [Goroutine -> Nat \ {0}]
        /\ toDelete' \in [Goroutine -> Element]
        /\ pc' = [pc EXCEPT ![g] = "run"]
        /\ \A h \in Goroutine \ {g} : run'[h] = run[h] /\ pos'[h] = pos[h]
    BY <1>1, <2>1, EndRunTypes
  <2> QED BY <1>0, <1>2, <2>1, <2>2 DEF Types, TypeOK, BegunRuns
<1> QED BY <1>3, <1>4, <1>5 DEF Boundary

LEMMA NextTypes == Types /\ [Next]_vars => Types'
<1> SUFFICES ASSUME Types, [Next]_vars PROVE Types'
  OBVIOUS
<1>1. ASSUME NEW g \in Goroutine, StartRun(g) PROVE Types'
  <2>1. 1 \in Element BY MapRunAssumption DEF Element
  <2>2. \E l \in {"ingest", "chain"} : pc' = [pc EXCEPT ![g] = l]
    BY <1>1 DEF StartRun, GoTo
  <2> QED BY <1>1, <2>1, <2>2 DEF StartRun, Types, TypeOK, BegunRuns
<1>2. ASSUME NEW g \in Goroutine, Wipe(g) PROVE Types'
  BY <1>2, ClearedTypes DEF Wipe, Types, TypeOK, BegunRuns
<1>3. CASE UNCHANGED vars
  BY <1>3 DEF vars, Types, TypeOK, BegunRuns
<1> QED BY <1>1, <1>2, <1>3, OutsideTypes, BatchTypes, BoundaryTypes DEF Next, Step, Outside

(* The types hold always, with a run left for whoever is inside one.       *)
THEOREM TypesHold == Spec => []Types
  BY InitTypes, NextTypes, PTL DEF Spec

(* Types are right for all parameters; a batch run never goes past the     *)
(* last element.                                                           *)
THEOREM TypeCorrect == Spec => []TypeOK
<1>1. Types => TypeOK BY DEF Types
<1> QED BY <1>1, TypesHold, PTL
-----------------------------------------------------------------------------
(* What one step may do to the keys of the goroutines that do not take it: *)
(* nobody adds to them, and nobody takes from them without the fact being  *)
(* noted in wiped.                                                         *)
Frame(h) ==
  /\ pc'[h] = pc[h] /\ pos'[h] = pos[h]
  /\ OwnKeys(h) \cap stored' \subseteq stored
  /\ wiped'[h] \/ (wiped'[h] = wiped[h] /\ OwnKeys(h) \cap stored \subseteq stored')

LEMMA ClearedFrame ==
  ASSUME Types, NEW gs \in SUBSET Goroutine, ClearedByOthers(gs),
         NEW h \in Goroutine, NEW kept, stored' = kept, kept \subseteq stored,
         h \notin gs => OwnKeys(h) \cap stored \subseteq kept
  PROVE  wiped'[h] \/ (wiped'[h] = wiped[h] /\ OwnKeys(h) \cap stored \subseteq stored')
<1>1. wiped[h] \in BOOLEAN BY DEF Types, TypeOK
<1>2. wiped'[h] = (wiped[h] \/ h \in gs) BY DEF ClearedByOthers
<1>3. CASE h \in gs BY <1>2, <1>3
<1>4. CASE h \notin gs BY <1>1, <1>2, <1>4
<1> QED BY <1>3, <1>4

LEMMA OutsideFrame ==
  ASSUME Types, NEW g \in Goroutine, Outside(g), NEW h \in Goroutine, h # g
  PROVE  Frame(h)
<1>1. pc'[h] = pc[h] /\ pos'[h] = pos[h]
  BY DEF Outside, GetMap, GetMapFails, Clean, CleanSkips, CleanFails, Finish, Destroy, DestroyFails,
         GoTo, Types, TypeOK
<1>2. CASE UNCHANGED <<stored, wiped>>
  BY <1>1, <1>2 DEF Frame
<1>3. CASE stored' = stored \ KeysInMap(g) /\ ClearedByOthers(SameMap(g) \ {g})
  <2>1. SameMap(g) \subseteq Goroutine BY DEF SameMap
  <2>2. h \notin SameMap(g) \ {g} => OwnKeys(h) \cap KeysInMap(g) = {}
    BY DEF OwnKeys, KeysInMap
  <2>3. wiped'[h] \/ (wiped'[h] = wiped[h] /\ OwnKeys(h) \cap stored \subseteq stored')
    BY <1>3, <2>1, <2>2, ClearedFrame
  <2> QED BY <1>1, <1>3, <2>3 DEF Frame
<1> QED
  BY <1>2, <1>3
  DEF Outside, GetMap, GetMapFails, Clean, CleanSkips, CleanFails, Finish, Destroy, DestroyFails, AfterDestroy

LEMMA BatchFrame ==
  ASSUME Types, NEW g \in Goroutine, Batch(g), NEW h \in Goroutine, h # g
  PROVE  Frame(h)
<1>1. stored' \ stored \subseteq {Key(g)} /\ stored \ stored' \subseteq {Key(g)} /\ wiped' = wiped
  BY DEF Batch, IngestFound, IngestMissing, Set, SetFails, ReadFound, ReadNil, BeginRemove,
         RemoveMissing, RemoveFound, Remove, RemoveFails, CheckFails
<1>2. Key(g) \notin OwnKeys(h) BY DEF Key, OwnKeys
<1>3. pc'[h] = pc[h] /\ pos'[h] = pos[h]
  BY DEF Batch, IngestFound, IngestMissing, Set, SetFails, ReadFound, ReadNil, BeginRemove,
         RemoveMissing, RemoveFound, Remove, RemoveFails, CheckFails, AfterFailedSet, EndRun,
         RemoveNext, Advance, GoTo, Types, TypeOK
<1> QED BY <1>1, <1>2, <1>3 DEF Frame

LEMMA BoundaryFrame ==
  ASSUME Types, NEW g \in Goroutine, Boundary(g), NEW h \in Goroutine, h # g
  PROVE  Frame(h)
<1>1. pc'[h] = pc[h] /\ pos'[h] = pos[h]
  BY DEF Boundary, ChainAction, EndChain, Reset, ResetFails, EndRun, GoTo, Types, TypeOK
<1>2. CASE ChainAction(g)
  <2>1. PICK e \in Element : stored' \in {stored, stored \cup {<<g, e>>}, stored \ {<<g, e>>}}
    BY <1>2 DEF ChainAction
  <2>2. <<g, e>> \notin OwnKeys(h) BY DEF OwnKeys
  <2> QED BY <1>1, <1>2, <2>1, <2>2 DEF ChainAction, Frame
<1>3. CASE EndChain(g) BY <1>1, <1>3 DEF EndChain, Frame
<1>4. CASE Reset(g) \/ ResetFails(g)
  <2> DEFINE gs == {k \in SameMap(g) \ {g} : BeginsWith(k, g)}
  <2>1. gs \subseteq Goroutine BY DEF SameMap
  <2>2. ClearedByOthers(gs) BY <1>4 DEF Reset, ResetFails
  <2>3. stored' \subseteq stored /\ stored \ MatchingKeys(g) \subseteq stored'
    BY <1>4 DEF Reset, ResetFails
  <2>4. h \notin gs => OwnKeys(h) \cap MatchingKeys(g) = {}
    BY DEF OwnKeys, MatchingKeys
  <2>5. h \notin gs => OwnKeys(h) \cap stored \subseteq stored'
    BY <2>3, <2>4
  <2> HIDE DEF gs
  <2>6. wiped'[h] \/ (wiped'[h] = wiped[h] /\ OwnKeys(h) \cap stored \subseteq stored')
    BY <2>1, <2>2, <2>3, <2>5, ClearedFrame
  <2> QED BY <1>1, <2>3, <2>6 DEF Frame
<1> QED BY <1>2, <1>3, <1>4 DEF Boundary

LEMMA StepFrame ==
  ASSUME Types, NEW g \in Goroutine, Step(g), NEW h \in Goroutine, h # g
  PROVE  Frame(h)
<1>1. CASE StartRun(g)
  BY <1>1 DEF StartRun, GoTo, Frame, Types, TypeOK
<1> QED BY <1>1, OutsideFrame, BatchFrame, BoundaryFrame DEF Step, Outside

LEMMA WipeFrame ==
  ASSUME Types, NEW g \in Goroutine, Wipe(g), NEW h \in Goroutine
  PROVE  Frame(h)
<1>1. SameMap(g) \subseteq Goroutine BY DEF SameMap
<1>2. h \notin SameMap(g) => OwnKeys(h) \cap KeysInMap(g) = {}
  BY DEF OwnKeys, KeysInMap
<1>3. /\ stored' \subseteq stored /\ stored \ KeysInMap(g) \subseteq stored'
      /\ ClearedByOthers(SameMap(g))
  BY DEF Wipe
<1>4. wiped'[h] \/ (wiped'[h] = wiped[h] /\ OwnKeys(h) \cap stored \subseteq stored')
  BY <1>1, <1>2, <1>3, ClearedFrame
<1> QED BY <1>3, <1>4 DEF Wipe, Frame

-----------------------------------------------------------------------------
(* Before the keys are read all are stored, those before the element at    *)
(* hand while they are ingested.                                           *)
Ingested(g) ==
  ~wiped[g] =>
    /\ pc[g] \in {"ingest", "set"} => \A e \in Element : e < pos[g] => <<g, e>> \in stored
    /\ pc[g] \in {"read", "count"} => OwnKeys(g) \subseteq stored

Progress == \A g \in Goroutine : Ingested(g)

LEMMA FrameIngested ==
  ASSUME Types, NEW h \in Goroutine, Ingested(h), Frame(h)
  PROVE  Ingested(h)'
<1>1. \A e \in Element : <<h, e>> \in OwnKeys(h) BY DEF OwnKeys
<1>2. OwnKeys(h)' = OwnKeys(h) BY DEF OwnKeys, Element
<1>3. Element' = Element BY DEF Element
<1> QED BY <1>1, <1>2, <1>3 DEF Ingested, Frame

LEMMA BatchIngested ==
  ASSUME Types, NEW g \in Goroutine, Ingested(g), Batch(g)
  PROVE  Ingested(g)'
<1>0. /\ pc[g] \in {"ingest", "set", "read", "count", "remove", "delete"}
      /\ UNCHANGED wiped
  BY DEF Batch, IngestFound, IngestMissing, Set, SetFails, ReadFound, ReadNil, BeginRemove,
         RemoveMissing, RemoveFound, Remove, RemoveFails, CheckFails
<1>1. pos[g] \in Element BY <1>0 DEF Types, TypeOK
<1>2. CASE IngestFound(g) \/ Set(g)
  <2>1. Key(g) \in stored' /\ stored \subseteq stored' /\ Advance(g, NumElements, "ingest", "read")
    BY <1>2 DEF IngestFound, Set
  <2>2. ~wiped[g] => \A e \in Element : e < pos[g] \/ e = pos[g] => <<g, e>> \in stored'
    BY <1>2, <2>1 DEF IngestFound, Set, Ingested, Key
  <2>3. CASE pos[g] < NumElements
    <3>1. pos'[g] = pos[g] + 1 /\ pc'[g] = "ingest"
      BY <2>1, <2>3 DEF Advance, GoTo, Types, TypeOK
    <3>2. \A e \in Element : e < pos[g] + 1 => e < pos[g] \/ e = pos[g]
      BY <1>1, MapRunAssumption DEF Element
    <3> QED BY <1>0, <2>2, <3>1, <3>2 DEF Ingested, Element
  <2>4. CASE ~(pos[g] < NumElements)
    <3>1. pc'[g] = "read"
      BY <2>1, <2>4 DEF Advance, GoTo, Types, TypeOK
    <3>2. \A e \in Element : e < pos[g] \/ e = pos[g]
      BY <1>1, <2>4, MapRunAssumption DEF Element
    <3>3. ~wiped[g] => OwnKeys(g) \subseteq stored'
      BY <2>2, <3>2 DEF OwnKeys
    <3> QED BY <1>0, <3>1, <3>3 DEF Ingested, OwnKeys, Element
  <2> QED BY <2>3, <2>4
<1>3. CASE IngestMissing(g)
  <2>1. pc'[g] = "set" /\ pc[g] = "ingest" /\ pos' = pos /\ stored' = stored
    BY <1>3 DEF IngestMissing, GoTo, Types, TypeOK
  <2> QED BY <1>0, <2>1 DEF Ingested, Element
<1>4. CASE ReadFound(g)
  <2>1. pc'[g] \in {"read", "count"} /\ pc[g] = "read" /\ stored' = stored
    BY <1>4 DEF ReadFound, Advance, GoTo, Types, TypeOK
  <2> QED BY <1>0, <2>1 DEF Ingested, OwnKeys, Element
<1>5. CASE \/ SetFails(g) \/ ReadNil(g) \/ BeginRemove(g) \/ RemoveMissing(g) \/ RemoveFound(g)
           \/ Remove(g) \/ RemoveFails(g) \/ CheckFails(g)
  <2>1. pc'[g] \in {"run", "remove", "delete"}
    BY <1>5 DEF SetFails, AfterFailedSet, ReadNil, BeginRemove, RemoveMissing, RemoveFound, Remove,
                RemoveFails, CheckFails, RemoveNext, EndRun, GoTo, Types, TypeOK
  <2> QED BY <2>1 DEF Ingested
<1> QED BY <1>2, <1>3, <1>4, <1>5 DEF Batch

LEMMA StepIngested ==
  ASSUME Types, NEW g \in Goroutine, Ingested(g), Step(g)
  PROVE  Ingested(g)'
<1>1. CASE StartRun(g)
  <2>1. pos'[g] = 1 /\ pc'[g] \in {"ingest", "chain"}
    BY <1>1 DEF StartRun, GoTo, Types, TypeOK
  <2>2. \A e \in Element : ~(e < 1) BY MapRunAssumption DEF Element
  <2> QED BY <2>1, <2>2 DEF Ingested, Element
<1>2. CASE Outside(g) \/ Boundary(g)
  <2>1. pc'[g] \in {"clean", "run", "destroy", "done", "failed", "chain", "reset"}
    BY <1>2 DEF Outside, GetMap, GetMapFails, Clean, CleanSkips, CleanFails, Finish, Destroy,
                DestroyFails, Boundary, ChainAction, EndChain, Reset, ResetFails, EndRun, GoTo,
                Types, TypeOK
  <2> QED BY <2>1 DEF Ingested
<1> QED BY <1>1, <1>2, BatchIngested DEF Step, Outside

LEMMA NextProgress == Types /\ Progress /\ [Next]_vars => Progress'
<1> SUFFICES ASSUME Types, Progress, [Next]_vars, NEW h \in Goroutine PROVE Ingested(h)'
  BY DEF Progress
<1>0. Ingested(h) BY DEF Progress
<1>1. ASSUME NEW g \in Goroutine, Step(g) PROVE Ingested(h)'
  <2>1. CASE h = g BY <1>0, <1>1, <2>1, StepIngested
  <2>2. CASE h # g
    <3>1. Frame(h) BY <1>1, <2>2, StepFrame
    <3> QED BY <1>0, <3>1, FrameIngested
  <2> QED BY <2>1, <2>2
<1>2. ASSUME NEW g \in Goroutine, Wipe(g) PROVE Ingested(h)'
  <2>1. Frame(h) BY <1>2, WipeFrame
  <2> QED BY <1>0, <2>1, FrameIngested
<1>3. CASE UNCHANGED vars
  BY <1>0, <1>3 DEF vars, Ingested, OwnKeys, Element
<1> QED BY <1>1, <1>2, <1>3 DEF Next

(* For all parameters, a goroutine that reads finds what it ingested       *)
(* unless somebody else cleared the map meanwhile.                         *)
THEOREM ReadsAreServed == Spec => []ReadsWhatItIngested
<1>1. Init => Progress BY DEF Init, Progress, Ingested
<1>2. Types /\ Progress /\ [Next]_vars => Progress' BY NextProgress
<1>3. Progress => ReadsWhatItIngested BY DEF Progress, Ingested, ReadsWhatItIngested
<1> QED BY <1>1, <1>2, <1>3, TypesHold, PTL DEF Spec

-----------------------------------------------------------------------------
Empty(g) == pc[g] \in {"start", "clean", "done"} => OwnKeys(g) \cap stored = {}

LEMMA StepEmpty ==
  ASSUME Types, NEW g \in Goroutine, Empty(g), Step(g)
  PROVE  Empty(g)'
<1>0. OwnKeys(g)' = OwnKeys(g) BY DEF OwnKeys, Element
<1>1. CASE GetMap(g) \/ GetMapFails(g)
  BY <1>0, <1>1 DEF GetMap, GetMapFails, Empty
<1>2. CASE Destroy(g)
  <2>1. OwnKeys(g) \subseteq KeysInMap(g) BY DEF OwnKeys, KeysInMap, SameMap
  <2> QED BY <1>0, <1>2, <2>1 DEF Destroy, AfterDestroy, Empty
<1>3. CASE Clean(g) \/ CleanSkips(g) \/ CleanFails(g) \/ Finish(g) \/ DestroyFails(g) \/ StartRun(g)
  <2>1. pc'[g] \in {"run", "destroy", "failed", "ingest", "chain"}
    BY <1>3 DEF Clean, CleanSkips, CleanFails, Finish, DestroyFails, StartRun, GoTo, Types, TypeOK
  <2> QED BY <2>1 DEF Empty
<1>4. CASE Batch(g)
  <2>1. pc'[g] \in {"ingest", "set", "read", "count", "remove", "delete", "run"}
    BY <1>4 DEF Batch, IngestFound, IngestMissing, Set, SetFails, ReadFound, ReadNil, BeginRemove,
                RemoveMissing, RemoveFound, Remove, RemoveFails, CheckFails, AfterFailedSet, EndRun,
                RemoveNext, Advance, GoTo, Types, TypeOK
  <2> QED BY <2>1 DEF Empty
<1>5. CASE Boundary(g)
  <2>1. pc'[g] \in {"chain", "reset", "run"}
    BY <1>5 DEF Boundary, ChainAction, EndChain, Reset, ResetFails, EndRun, GoTo, Types, TypeOK
  <2> QED BY <2>1 DEF Empty
<1> QED BY <1>1, <1>2, <1>3, <1>4, <1>5 DEF Step

(* For all parameters, a goroutine that has destroyed its map leaves none  *)
(* of its keys behind, and none comes back through its neighbours.         *)
THEOREM NothingLeftBehind == Spec => []LeavesNothingBehind
<1> DEFINE Inv == \A h \in Goroutine : Empty(h)
<1>1. Init => Inv BY DEF Init, Empty
<1>2. Types /\ Inv /\ [Next]_vars => Inv'
  <2> SUFFICES ASSUME Types, Inv, [Next]_vars, NEW h \in Goroutine PROVE Empty(h)'
    OBVIOUS
  <2>0. Empty(h) /\ OwnKeys(h)' = OwnKeys(h) BY DEF OwnKeys, Element
  <2>1. ASSUME Frame(h) PROVE Empty(h)'
    BY <2>0, <2>1 DEF Frame, Empty
  <2>2. ASSUME NEW g \in Goroutine, Step(g) PROVE Empty(h)'
    BY <2>0, <2>1, <2>2, StepEmpty, StepFrame
  <2>3. ASSUME NEW g \in Goroutine, Wipe(g) PROVE Empty(h)'
    BY <2>1, <2>3, WipeFrame
  <2>4. CASE UNCHANGED vars BY <2>0, <2>4 DEF vars, Empty
  <2> QED BY <2>2, <2>3, <2>4 DEF Next
<1>3. Inv => LeavesNothingBehind BY DEF Empty, LeavesNothingBehind
<1> QED BY <1>1, <1>2, <1>3, TypesHold, PTL DEF Spec
-----------------------------------------------------------------------------
(* Division with remainder is unique.                                      *)
LEMMA Remainder ==
  ASSUME NEW S \in Nat \ {0}, NEW q \in Nat, NEW r \in 0..(S - 1)
  PROVE  (q * S + r) % S = r
<1> DEFINE x == q * S + r
           d == x \div S
           m == x % S
<1>1. x \in Nat /\ d \in Int /\ m \in Int
  OBVIOUS
<1>2. x = S * d + m /\ m \in 0..(S - 1)
  OBVIOUS
<1> HIDE DEF d, m
<1>3. S * (q - d) = m - r
  BY <1>1, <1>2
<1>4. CASE q - d >= 1
  <2>1. S * (q - d) >= S BY <1>1, <1>4
  <2> QED BY <1>1, <1>2, <1>3, <2>1
<1>5. CASE q - d <= -1
  <2>1. S * (q - d) <= -S BY <1>1, <1>5
  <2> QED BY <1>1, <1>2, <1>3, <2>1
<1>6. CASE q = d
  BY <1>1, <1>2, <1>3, <1>6 DEF m
<1> QED BY <1>1, <1>4, <1>5, <1>6

(* So is the quotient: q is that of the numbers from q * S on.             *)
LEMMA Quotient ==
  ASSUME NEW S \in Nat \ {0}, NEW q \in Nat, NEW x \in Nat
  PROVE  x \div S = q <=> q * S <= x /\ x < q * S + S
<1> DEFINE d == x \div S
           m == x % S
<1>1. d \in Int /\ m \in 0..(S - 1) /\ x = S * d + m
  OBVIOUS
<1> HIDE DEF d, m
<1>2. S * d \in Int /\ q * S \in Int /\ S * (q - d) = q * S - S * d
  BY <1>1
<1>3. CASE q = d
  <2>1. S * (q - d) = 0 BY <1>1, <1>3
  <2>2. q * S = S * d BY <1>2, <2>1
  <2>3. q * S <= x /\ x < q * S + S BY <1>1, <1>2, <2>2
  <2> QED BY <1>3, <2>3 DEF d
<1>4. CASE q - d >= 1
  <2>1. S * (q - d) >= S BY <1>1, <1>4
  <2>2. ~(q * S <= x) BY <1>1, <1>2, <2>1
  <2>3. d # q BY <1>1, <1>4
  <2> QED BY <2>2, <2>3 DEF d
<1>5. CASE q - d <= -1
  <2>1. S * (q - d) <= -S BY <1>1, <1>5
  <2>2. ~(x < q * S + S) BY <1>1, <1>2, <2>1
  <2>3. d # q BY <1>1, <1>5
  <2> QED BY <2>2, <2>3 DEF d
<1> QED BY <1>1, <1>3, <1>4, <1>5

(* Sizes s were generated, the entry is i: its size is that of the last    *)
(* ones, as many as it counts, and full blocks of SameSizeStepsLimit came  *)
(* before them.                                                            *)
OnSchedule(s, i) ==
  \/ s = <<>> /\ i = NoInfo
  \/ /\ i.numGeneratePayloadInvocations \in 1..SameSizeStepsLimit
     /\ \E q \in Nat :
          /\ Len(s) = q * SameSizeStepsLimit + i.numGeneratePayloadInvocations
          /\ \A k \in 1..Len(s) : q * SameSizeStepsLimit < k => s[k] = i.payloadSize

Uniform(s) == \A i, k \in 1..Len(s) : SameSteps(i, k) => s[i] = s[k]

LEMMA AppendedUniform ==
  ASSUME NEW T, NEW s \in Seq(T), Uniform(s), NEW e \in T,
         \A i \in 1..Len(s) : SameSteps(i, Len(s) + 1) => s[i] = e
  PROVE  Uniform(Append(s, e))
<1> DEFINE t == Append(s, e)
<1>1. /\ Len(s) \in Nat /\ Len(t) = Len(s) + 1 /\ t[Len(s) + 1] = e
      /\ \A i \in 1..Len(s) : t[i] = s[i]
  OBVIOUS
<1> HIDE DEF t
<1> SUFFICES ASSUME NEW i \in 1..Len(t), NEW k \in 1..Len(t), SameSteps(i, k) PROVE t[i] = t[k]
  BY DEF Uniform, t
<1>2. SameSteps(k, i) BY DEF SameSteps
<1>3. (i \in 1..Len(s) \/ i = Len(s) + 1) /\ (k \in 1..Len(s) \/ k = Len(s) + 1) BY <1>1
<1>4. CASE i \in 1..Len(s) /\ k \in 1..Len(s) BY <1>1, <1>4 DEF Uniform
<1>5. CASE i \in 1..Len(s) /\ k = Len(s) + 1 BY <1>1, <1>5
<1>6. CASE i = Len(s) + 1 /\ k \in 1..Len(s) BY <1>1, <1>2, <1>6
<1> QED BY <1>3, <1>4, <1>5, <1>6

LEMMA NextOnSchedule ==
  ASSUME NEW s \in Seq(LowerBoundaryBytes..UpperBoundaryBytes), NEW i \in PayloadGenerationInfo,
         OnSchedule(s, i), Uniform(s), NEW k \in Generated(i)
  PROVE  OnSchedule(Append(s, k.payloadSize), k) /\ Uniform(Append(s, k.payloadSize))
<1> DEFINE S == SameSizeStepsLimit
           n == i.numGeneratePayloadInvocations
           t == Append(s, k.payloadSize)
<1>0. S \in Nat \ {0} BY RequirementAssumption
<1>1. k.payloadSize \in LowerBoundaryBytes..UpperBoundaryBytes BY GeneratedTypes
<1>2. /\ Len(s) \in Nat /\ Len(t) = Len(s) + 1 /\ t[Len(s) + 1] = k.payloadSize
      /\ \A x \in 1..Len(s) : t[x] = s[x]
  BY <1>1
<1>3. ASSUME \A x \in 1..Len(s) : SameSteps(x, Len(s) + 1) => s[x] = k.payloadSize
      PROVE  Uniform(t)
  BY <1>1, <1>3, AppendedUniform
<1> HIDE DEF t
<1>4. CASE s = <<>> /\ i = NoInfo
  <2>1. k.numGeneratePayloadInvocations = 1 BY <1>4 DEF Generated
  <2>2. Len(s) = 0 BY <1>4
  <2>3. 1 \in 1..S /\ 0 \in Nat /\ 0 * S = 0 /\ Len(t) = 0 * S + 1 BY <1>0, <1>2, <2>2
  <2>4. \A x \in 1..Len(t) : t[x] = k.payloadSize BY <1>2, <2>2
  <2>5. OnSchedule(t, k) BY <2>1, <2>3, <2>4 DEF OnSchedule
  <2>6. Uniform(t) BY <1>3, <2>2
  <2> QED BY <2>5, <2>6 DEF t
<1>5. CASE n \in 1..S /\ ~(s = <<>> /\ i = NoInfo)
  <2>1. PICK q \in Nat : /\ Len(s) = q * S + n
                         /\ \A x \in 1..Len(s) : q * S < x => s[x] = i.payloadSize
    BY <1>5 DEF OnSchedule
  <2>2. i # NoInfo BY <1>5 DEF NoInfo
  <2>3. q * S \in Nat BY <1>0
  <2>4. CASE n >= S
    <3>1. k.numGeneratePayloadInvocations = 1 BY <2>4 DEF Generated, Exhausted
    <3>2. (q + 1) * S = q * S + S /\ q + 1 \in Nat BY <1>0
    <3>3. Len(s) = (q + 1) * S /\ Len(t) = (q + 1) * S + 1 /\ 1 \in 1..S
      <4>1. n = S BY <1>0, <1>5, <2>4
      <4>2. Len(s) = (q + 1) * S BY <2>1, <3>2, <4>1
      <4> QED BY <1>0, <1>2, <4>2
    <3>4. \A x \in 1..Len(t) : (q + 1) * S < x => t[x] = k.payloadSize
      BY <1>2, <3>3
    <3>5. OnSchedule(t, k) BY <3>1, <3>2, <3>3, <3>4 DEF OnSchedule
    <3>6. ASSUME NEW x \in 1..Len(s), SameSteps(x, Len(s) + 1) PROVE FALSE
      <4>1. Len(s) \div S = q + 1
        BY <1>0, <1>2, <2>3, <3>2, <3>3, Quotient
      <4>2. (x - 1) \div S = q + 1 /\ x - 1 \in Nat
        <5>1. Len(s) + 1 - 1 = Len(s) BY <1>2
        <5> QED BY <3>6, <4>1, <5>1 DEF SameSteps
      <4>3. (q + 1) * S <= x - 1 BY <1>0, <3>2, <4>2, Quotient
      <4> QED BY <1>2, <2>3, <3>2, <3>3, <4>3
    <3>7. Uniform(t) BY <1>3, <3>6
    <3> QED BY <3>5, <3>7 DEF t
  <2>5. CASE ~(n >= S)
    <3>1. /\ k.numGeneratePayloadInvocations = n + 1 /\ k.payloadSize = i.payloadSize
      <4>1. k = [i EXCEPT !.numGeneratePayloadInvocations = @ + 1]
        BY <2>2, <2>5 DEF Generated, Exhausted
      <4> QED BY <2>2, <4>1 DEF PayloadGenerationInfo
    <3>2. Len(t) = q * S + (n + 1) /\ n + 1 \in 1..S
      BY <1>0, <1>2, <1>5, <2>1, <2>3, <2>5
    <3>3. \A x \in 1..Len(t) : q * S < x => t[x] = k.payloadSize
      BY <1>2, <2>1, <3>1
    <3>4. OnSchedule(t, k) BY <3>1, <3>2, <3>3 DEF OnSchedule
    <3>5. ASSUME NEW x \in 1..Len(s), SameSteps(x, Len(s) + 1) PROVE s[x] = k.payloadSize
      <4>1. Len(s) \div S = q
        <5>1. n \in Nat /\ n < S BY <1>0, <1>5, <2>5
        <5>2. q * S <= Len(s) /\ Len(s) < q * S + S BY <1>0, <2>1, <2>3, <5>1
        <5> QED BY <1>0, <1>2, <5>2, Quotient
      <4>2. (x - 1) \div S = q /\ x - 1 \in Nat
        <5>1. Len(s) + 1 - 1 = Len(s) BY <1>2
        <5> QED BY <3>5, <4>1, <5>1 DEF SameSteps
      <4>3. q * S <= x - 1 BY <1>0, <4>2, Quotient
      <4> QED BY <2>1, <2>3, <3>1, <4>3
    <3>6. Uniform(t) BY <1>3, <3>5
    <3> QED BY <3>4, <3>6 DEF t
  <2> QED BY <2>4, <2>5
<1> QED BY <1>4, <1>5 DEF OnSchedule

Schedule == \A g \in Goroutine : OnSchedule(sizes[g], info[g]) /\ Uniform(sizes[g])

(* Only assembling a payload changes what the generator knows.             *)
LEMMA StepAssembles ==
  ASSUME NEW g \in Goroutine, Step(g)
  PROVE  AssemblePayload(g) \/ UNCHANGED <<info, sizes>>
  BY DEF Step, GetMap, GetMapFails, Clean, CleanSkips, CleanFails, StartRun, Finish,
         Destroy, DestroyFails, Batch, IngestFound, IngestMissing, Set, SetFails, ReadFound, ReadNil,
         BeginRemove, RemoveMissing, RemoveFound, Remove, RemoveFails, CheckFails,
         Boundary, ChainAction, EndChain, Reset, ResetFails

LEMMA NextSchedule == Types /\ Schedule /\ [Next]_vars => Schedule'
<1> SUFFICES ASSUME Types, Schedule, [Next]_vars PROVE Schedule'
  OBVIOUS
<1>1. ASSUME UNCHANGED <<info, sizes>> PROVE Schedule'
  BY <1>1 DEF Schedule, OnSchedule, Uniform, SameSteps
<1>2. ASSUME NEW g \in Goroutine, AssemblePayload(g), ~UNCHANGED <<info, sizes>> PROVE Schedule'
  <2> SUFFICES ASSUME NEW h \in Goroutine PROVE OnSchedule(sizes'[h], info'[h]) /\ Uniform(sizes'[h])
    BY DEF Schedule, OnSchedule, Uniform, SameSteps
  <2>1. PICK i \in Generated(info[g]) :
          /\ info' = [info EXCEPT ![g] = i]
          /\ sizes' = [sizes EXCEPT ![g] = Append(@, i.payloadSize)]
    BY <1>2 DEF AssemblePayload
  <2>2. /\ info \in [Goroutine -> PayloadGenerationInfo]
        /\ sizes \in [Goroutine -> Seq(LowerBoundaryBytes..UpperBoundaryBytes)]
        /\ OnSchedule(sizes[g], info[g]) /\ Uniform(sizes[g])
        /\ OnSchedule(sizes[h], info[h]) /\ Uniform(sizes[h])
    BY DEF Schedule, Types, TypeOK
  <2>3. CASE h = g
    <3>1. sizes'[h] = Append(sizes[g], i.payloadSize) /\ info'[h] = i
      BY <2>1, <2>2, <2>3
    <3>2. /\ OnSchedule(Append(sizes[g], i.payloadSize), i)
          /\ Uniform(Append(sizes[g], i.payloadSize))
      BY <2>2, NextOnSchedule
    <3> QED BY <3>1, <3>2
  <2>4. CASE h # g
    <3>1. sizes'[h] = sizes[h] /\ info'[h] = info[h] BY <2>1, <2>2, <2>4
    <3> QED BY <2>2, <3>1
  <2> QED BY <2>3, <2>4
<1>3. ASSUME NEW g \in Goroutine, Wipe(g) PROVE UNCHANGED <<info, sizes>>
  BY <1>3 DEF Wipe
<1>4. CASE UNCHANGED vars BY <1>1, <1>4 DEF vars
<1> QED BY <1>1, <1>2, <1>3, <1>4, StepAssembles DEF Next

(* For all limits and boundaries, a size is that of exactly                *)
(* SameSizeStepsLimit payloads in a row, in batch and boundary loops and   *)
(* whatever runs and writes fail, and any size can be drawn after them.    *)
THEOREM SizesKeepSchedule == Spec => []SizeServesItsSteps
<1>1. Init => Schedule
  BY DEF Init, Schedule, OnSchedule, Uniform
<1>2. ASSUME Schedule, Types PROVE SizeServesItsSteps
  <2> SUFFICES ASSUME NEW g \in Goroutine, Len(sizes[g]) % SameSizeStepsLimit = 0
               PROVE  {i.payloadSize : i \in Generated(info[g])} =
                        LowerBoundaryBytes..UpperBoundaryBytes
    BY <1>2 DEF SizeServesItsSteps, Schedule, Uniform
  <2> DEFINE S == SameSizeStepsLimit
             n == info[g].numGeneratePayloadInvocations
  <2>1. S \in Nat \ {0} /\ OnSchedule(sizes[g], info[g])
    BY <1>2, RequirementAssumption DEF Schedule
  <2>2. ASSUME n \in 1..S PROVE n >= S
    <3>1. info[g] # NoInfo
      BY <2>2 DEF NoInfo
    <3>2. PICK q \in Nat : Len(sizes[g]) = q * S + n
      BY <2>1, <3>1 DEF OnSchedule
    <3>3. ASSUME n \in 0..(S - 1) PROVE FALSE
      <4>1. (q * S + n) % S = n BY <2>1, <3>3, Remainder
      <4>2. n = 0 BY <3>2, <4>1
      <4> QED BY <2>2, <4>2
    <3> QED BY <2>1, <2>2, <3>3
  <2>3. info[g] = NoInfo \/ Exhausted(info[g])
    BY <2>1, <2>2 DEF OnSchedule, Exhausted
  <2>4. Generated(info[g]) = { [numGeneratePayloadInvocations |-> 1, payloadSize |-> x] :
                                 x \in LowerBoundaryBytes..UpperBoundaryBytes }
    BY <2>3 DEF Generated
  <2>5. \A i \in Generated(info[g]) : i.payloadSize \in LowerBoundaryBytes..UpperBoundaryBytes
    BY <2>4
  <2>6. ASSUME NEW x \in LowerBoundaryBytes..UpperBoundaryBytes
        PROVE  \E i \in Generated(info[g]) : i.payloadSize = x
    <3> DEFINE i == [numGeneratePayloadInvocations |-> 1, payloadSize |-> x]
    <3>1. i \in Generated(info[g]) /\ i.payloadSize = x BY <2>4
    <3> QED BY <3>1
  <2> QED BY <2>5, <2>6
<1> QED BY <1>1, <1>2, NextSchedule, TypesHold, PTL DEF Spec
-----------------------------------------------------------------------------
(* One digit begins with no other, zero included.                          *)
LEMMA DigitsDiffer ==
  ASSUME NEW g \in 0..9, NEW h \in 0..9, BeginsWith(h, g)
  PROVE  g = h
<1>1. ASSUME NEW p \in {10, 100, 1000, 10000} PROVE h \div p = 0
  <2>1. CASE p = 10 BY <2>1
  <2>2. CASE p = 100 BY <2>2
  <2>3. CASE p = 1000 BY <2>3
  <2>4. CASE p = 10000 BY <2>4
  <2> QED BY <2>1, <2>2, <2>3, <2>4
<1> QED BY <1>1 DEF BeginsWith

(* A goroutine that leaves "reset" does so by Reset or ResetFails.         *)
LEMMA LeavesReset ==
  ASSUME Types, Next, NEW g \in Goroutine, pc[g] = "reset", pc'[g] = "run"
  PROVE  Reset(g) \/ ResetFails(g)
<1>1. ASSUME NEW k \in Goroutine, Step(k) \/ Wipe(k), k # g PROVE FALSE
  BY <1>1, StepFrame, WipeFrame DEF Frame
<1>2. ~Wipe(g)
  BY WipeFrame DEF Frame
<1>3. PICK k \in Goroutine : Step(k) \/ Wipe(k)
  BY DEF Next
<1>4. Step(g)
  BY <1>1, <1>2, <1>3
<1> QED
  BY <1>4 DEF Step, GetMap, GetMapFails, Clean, CleanSkips, CleanFails, StartRun, Finish, Destroy,
              DestroyFails, Batch, IngestFound, IngestMissing, Set, SetFails, ReadFound, ReadNil,
              BeginRemove, RemoveMissing, RemoveFound, Remove, RemoveFails, CheckFails,
              Boundary, ChainAction, EndChain

(* Where no map is shared by two goroutines one of whose numbers begins    *)
(* with the other's digits, a reset takes its own goroutine's keys only.   *)
THEOREM ResetsApart ==
  ASSUME \A c \in Configs : c.shared =>
           \A g, h \in Goroutine : BeginsWith(h, g) => g = h
  PROVE  Spec => ResetLeavesOthers
<1>1. Types /\ [Next]_vars =>
        [\A g, h \in Goroutine :
           g # h /\ pc[g] = "reset" /\ pc'[g] = "run" =>
             OwnKeys(h) \cap stored \subseteq stored']_vars
  <2> SUFFICES ASSUME Types, Next, NEW g \in Goroutine, NEW h \in Goroutine,
                      g # h, pc[g] = "reset", pc'[g] = "run"
               PROVE  OwnKeys(h) \cap stored \subseteq stored'
    OBVIOUS
  <2>1. stored \ MatchingKeys(g) \subseteq stored'
    BY LeavesReset DEF Reset, ResetFails
  <2>2. ~(h \in SameMap(g) /\ BeginsWith(h, g))
    BY DEF SameMap, Types, TypeOK
  <2>3. OwnKeys(h) \cap MatchingKeys(g) = {}
    BY <2>2 DEF OwnKeys, MatchingKeys
  <2> QED BY <2>1, <2>3
<1> QED BY <1>1, TypesHold, PTL DEF Spec, ResetLeavesOthers

(* A runner of at most ten goroutines is safe from the prefix match.       *)
THEOREM TenGoroutinesApart ==
  ASSUME Goroutine \subseteq 0..9
  PROVE  Spec => ResetLeavesOthers
<1>1. \A g, h \in Goroutine : BeginsWith(h, g) => g = h
  BY DigitsDiffer
<1> QED BY <1>1, ResetsApart
-----------------------------------------------------------------------------
(* Why goroutines end (GoroutinesEnd): a bound on the steps one of them    *)
(* can still take, whatever its calls return and whoever clears the map.   *)
RunStepsLeft(g) ==
  CASE pc[g] = "ingest" -> 3 * NumElements + 2 * (NumElements - pos[g]) + 3
    [] pc[g] = "set" -> 3 * NumElements + 2 * (NumElements - pos[g]) + 2
    [] pc[g] = "read" -> 2 * NumElements + (NumElements - pos[g]) + 2
    [] pc[g] = "count" -> 2 * NumElements + 1
    [] pc[g] = "remove" -> 2 * (NumElements - pos[g]) + 2
    [] pc[g] = "delete" -> 2 * (NumElements - pos[g]) + 1
    [] pc[g] = "chain" -> cfg.chainLength - pos[g] + 3
    [] pc[g] = "reset" -> 1

StepsOfRun == 5 * NumElements + cfg.chainLength + 3

InRun(g) == pc[g] \in {"ingest", "set", "read", "count", "remove", "delete", "chain", "reset"}

StepsLeft(g) ==
  IF InRun(g) THEN StepsOfRun * (cfg.numRuns - run[g] - 1) + RunStepsLeft(g) + 2
  ELSE CASE pc[g] = "start" -> StepsOfRun * (cfg.numRuns - run[g]) + 4
         [] pc[g] = "clean" -> StepsOfRun * (cfg.numRuns - run[g]) + 3
         [] pc[g] = "run" -> StepsOfRun * (cfg.numRuns - run[g]) + 2
         [] pc[g] = "destroy" -> 1
         [] pc[g] \in {"done", "failed"} -> 0

(* Every step of a goroutine lowers its own bound and nobody else's step   *)
(* changes it.                                                             *)
StepsRunOut ==
  [][\A g \in Goroutine :
       /\ Step(g) => StepsLeft(g)' < StepsLeft(g)
       /\ ~Step(g) => StepsLeft(g)' = StepsLeft(g)]_vars

(* The chain ends in time.                                                 *)
ChainPositions == \A g \in Goroutine : pc[g] = "chain" => pos[g] <= cfg.chainLength + 1

LEMMA OneRunLess ==
  ASSUME NEW k \in Nat, NEW a \in Int
  PROVE  k * a \in Int /\ k * a = k * (a - 1) + k
  OBVIOUS

LEMMA ProductOfNaturals ==
  ASSUME NEW k \in Nat, NEW a \in Nat
  PROVE  k * a \in Nat
  OBVIOUS

LEMMA Numbers ==
  ASSUME Types, NEW g \in Goroutine
  PROVE  /\ run[g] \in Nat /\ run[g] <= cfg.numRuns /\ pos[g] \in Nat \ {0}
         /\ cfg.numRuns \in Nat /\ cfg.chainLength \in Nat \ {0} /\ NumElements \in Nat \ {0}
         /\ toDelete[g] \in 1..NumElements
         /\ StepsOfRun \in Nat
         /\ StepsOfRun * (cfg.numRuns - run[g]) \in Int
         /\ StepsOfRun * (cfg.numRuns - run[g] - 1) \in Int
         /\ StepsOfRun * (cfg.numRuns - run[g]) =
              StepsOfRun * (cfg.numRuns - run[g] - 1) + StepsOfRun
<1>1. cfg \in ConfigType
  BY MapRunAssumption DEF Types, TypeOK
<1>2. cfg.numRuns \in Nat /\ cfg.chainLength \in Nat \ {0} /\ NumElements \in Nat \ {0}
  BY <1>1, MapRunAssumption DEF ConfigType
<1>3. run[g] \in Nat /\ run[g] <= cfg.numRuns /\ pos[g] \in Nat \ {0} /\ toDelete[g] \in 1..NumElements
  BY <1>2 DEF Types, TypeOK, Element
<1>4. StepsOfRun \in Nat
  BY <1>2 DEF StepsOfRun
<1>5. cfg.numRuns - run[g] \in Int /\ cfg.numRuns - run[g] - 1 \in Int
  BY <1>2, <1>3
<1> QED BY <1>2, <1>3, <1>4, <1>5, OneRunLess

LEMMA RunLeft ==
  ASSUME Types, ChainPositions, NEW g \in Goroutine, InRun(g)
  PROVE  RunStepsLeft(g) \in Nat \ {0}
<1>1. pc[g] \in {"ingest", "set", "read", "count", "remove", "delete"} =>
        pos[g] \in Nat /\ pos[g] <= NumElements
  BY MapRunAssumption DEF Types, TypeOK, Element
<1>2. pc[g] = "chain" => pos[g] <= cfg.chainLength + 1
  BY DEF ChainPositions
<1> QED BY <1>1, <1>2, Numbers DEF InRun, RunStepsLeft

LEMMA LeftNatural ==
  ASSUME Types, ChainPositions, NEW g \in Goroutine
  PROVE  StepsLeft(g) \in Nat
<1>1. CASE InRun(g)
  <2>1. run[g] < cfg.numRuns
    BY <1>1 DEF InRun, Types, BegunRuns
  <2>2. cfg.numRuns - run[g] - 1 \in Nat
    BY <2>1, Numbers
  <2>3. StepsOfRun * (cfg.numRuns - run[g] - 1) \in Nat
    BY <2>2, Numbers, ProductOfNaturals
  <2> QED BY <1>1, <2>3, RunLeft DEF StepsLeft
<1>2. CASE ~InRun(g)
  <2>1. cfg.numRuns - run[g] \in Nat
    BY Numbers
  <2>2. StepsOfRun * (cfg.numRuns - run[g]) \in Nat
    BY <2>1, Numbers, ProductOfNaturals
  <2>3. pc[g] \in {"start", "clean", "run", "destroy", "done", "failed"}
    BY <1>2 DEF InRun, Types, TypeOK
  <2> QED BY <1>2, <2>2, <2>3 DEF StepsLeft
<1> QED BY <1>1, <1>2

LEMMA WithinRun ==
  ASSUME Types, NEW g \in Goroutine, InRun(g), InRun(g)', UNCHANGED cfg, run'[g] = run[g],
         RunStepsLeft(g) \in Int, RunStepsLeft(g)' \in Int, RunStepsLeft(g)' < RunStepsLeft(g)
  PROVE  StepsLeft(g)' < StepsLeft(g)
<1>1. StepsLeft(g) = StepsOfRun * (cfg.numRuns - run[g] - 1) + RunStepsLeft(g) + 2
  BY DEF StepsLeft
<1>2. StepsLeft(g)' = StepsOfRun * (cfg.numRuns - run[g] - 1) + RunStepsLeft(g)' + 2
  BY DEF StepsLeft, StepsOfRun
<1> QED BY <1>1, <1>2, Numbers

LEMMA EndOfRun ==
  ASSUME Types, ChainPositions, NEW g \in Goroutine, InRun(g), UNCHANGED cfg, EndRun(g)
  PROVE  StepsLeft(g)' < StepsLeft(g)
<1>1. pc'[g] = "run" /\ run'[g] = run[g] + 1
  BY DEF EndRun, GoTo, Types, TypeOK
<1>2. StepsLeft(g) = StepsOfRun * (cfg.numRuns - run[g] - 1) + RunStepsLeft(g) + 2
  BY DEF StepsLeft
<1>3. StepsLeft(g)' = StepsOfRun * (cfg.numRuns - (run[g] + 1)) + 2
  BY <1>1 DEF StepsLeft, StepsOfRun, InRun
<1>4. cfg.numRuns - (run[g] + 1) = cfg.numRuns - run[g] - 1
  <2>1. run[g] \in Nat /\ cfg.numRuns \in Nat BY Numbers
  <2> QED BY <2>1
<1> QED BY <1>2, <1>3, <1>4, Numbers, RunLeft

LEMMA BatchRunsOut ==
  ASSUME Types, ChainPositions, NEW g \in Goroutine, Batch(g)
  PROVE  StepsLeft(g)' < StepsLeft(g)
<1>0. /\ pc[g] \in {"ingest", "set", "read", "count", "remove", "delete"} /\ InRun(g)
      /\ UNCHANGED cfg
  BY DEF Batch, IngestFound, IngestMissing, Set, SetFails, ReadFound, ReadNil, BeginRemove,
         RemoveMissing, RemoveFound, Remove, RemoveFails, CheckFails, InRun
<1>1. pos[g] \in 1..NumElements /\ NumElements \in Nat \ {0} /\ pos \in [Goroutine -> Nat \ {0}]
  BY <1>0, MapRunAssumption DEF Types, TypeOK, Element
<1>2. CASE IngestFound(g) \/ Set(g) \/ ReadFound(g)
  <2>1. PICK same \in {"ingest", "read"} :
          /\ same = "ingest" => pc[g] \in {"ingest", "set"}
          /\ same = "read" => pc[g] = "read"
          /\ Advance(g, NumElements, same, IF same = "ingest" THEN "read" ELSE "count")
    BY <1>2 DEF IngestFound, Set, ReadFound
  <2>2. run' = run
    BY <1>2 DEF IngestFound, Set, ReadFound
  <2>3. CASE pos[g] < NumElements
    <3>1. pos'[g] = pos[g] + 1 /\ pc'[g] = same
      BY <1>1, <2>1, <2>3 DEF Advance, GoTo, Types, TypeOK
    <3>2. InRun(g)'
      BY <3>1 DEF InRun
    <3>3. /\ RunStepsLeft(g) \in Int /\ RunStepsLeft(g)' \in Int
          /\ RunStepsLeft(g)' < RunStepsLeft(g)
      BY <1>1, <2>1, <2>3, <3>1 DEF RunStepsLeft
    <3> QED BY <1>0, <2>2, <3>2, <3>3, WithinRun
  <2>4. CASE pos[g] = NumElements
    <3>1. pos'[g] = 1 /\ pc'[g] = IF same = "ingest" THEN "read" ELSE "count"
      BY <1>1, <2>1, <2>4 DEF Advance, GoTo, Types, TypeOK
    <3>2. InRun(g)'
      BY <3>1 DEF InRun
    <3>3. /\ RunStepsLeft(g) \in Int /\ RunStepsLeft(g)' \in Int
          /\ RunStepsLeft(g)' < RunStepsLeft(g)
      BY <1>1, <2>1, <2>4, <3>1 DEF RunStepsLeft
    <3> QED BY <1>0, <2>2, <3>2, <3>3, WithinRun
  <2> QED BY <1>1, <2>3, <2>4
<1>3. CASE IngestMissing(g) \/ BeginRemove(g) \/ RemoveFound(g)
  <2>1. run' = run /\ pos' = pos
    BY <1>3 DEF IngestMissing, BeginRemove, RemoveFound
  <2>2. \/ pc[g] = "ingest" /\ pc'[g] = "set"
        \/ pc[g] = "count" /\ pc'[g] = "remove"
        \/ pc[g] = "remove" /\ pc'[g] = "delete"
    BY <1>3 DEF IngestMissing, BeginRemove, RemoveFound, GoTo, Types, TypeOK
  <2>3. InRun(g)'
    BY <2>2 DEF InRun
  <2>4. /\ RunStepsLeft(g) \in Int /\ RunStepsLeft(g)' \in Int
        /\ RunStepsLeft(g)' < RunStepsLeft(g)
    BY <1>1, <2>1, <2>2 DEF RunStepsLeft
  <2> QED BY <1>0, <2>1, <2>3, <2>4, WithinRun
<1>4. CASE RemoveMissing(g) \/ Remove(g)
  <2>1. RemoveNext(g) /\ pc[g] \in {"remove", "delete"}
    BY <1>4 DEF RemoveMissing, Remove
  <2>2. CASE pos[g] < toDelete[g]
    <3>1. run' = run /\ pos'[g] = pos[g] + 1 /\ pc'[g] = "remove"
      BY <1>1, <2>1, <2>2 DEF RemoveNext, GoTo, Types, TypeOK
    <3>2. InRun(g)'
      BY <3>1 DEF InRun
    <3>3. /\ RunStepsLeft(g) \in Int /\ RunStepsLeft(g)' \in Int
          /\ RunStepsLeft(g)' < RunStepsLeft(g)
      BY <1>1, <2>1, <3>1 DEF RunStepsLeft
    <3> QED BY <1>0, <3>1, <3>2, <3>3, WithinRun
  <2>3. CASE ~(pos[g] < toDelete[g])
    BY <1>0, <2>1, <2>3, EndOfRun DEF RemoveNext
  <2> QED BY <2>2, <2>3
<1>5. CASE SetFails(g) \/ ReadNil(g) \/ RemoveFails(g) \/ CheckFails(g)
  <2>1. EndRun(g)
    BY <1>5 DEF SetFails, AfterFailedSet, ReadNil, RemoveFails, CheckFails
  <2> QED BY <1>0, <2>1, EndOfRun
<1> QED BY <1>2, <1>3, <1>4, <1>5 DEF Batch

LEMMA BoundaryRunsOut ==
  ASSUME Types, ChainPositions, NEW g \in Goroutine, Boundary(g)
  PROVE  StepsLeft(g)' < StepsLeft(g)
<1>0. pc[g] \in {"chain", "reset"} /\ InRun(g) /\ UNCHANGED cfg
  BY DEF Boundary, ChainAction, EndChain, Reset, ResetFails, InRun
<1>1. CASE ChainAction(g)
  <2>1. pos'[g] = pos[g] + 1 /\ run' = run /\ pc' = pc /\ pc[g] = "chain"
    BY <1>1 DEF ChainAction, Types, TypeOK
  <2>2. RunStepsLeft(g)' = cfg.chainLength - (pos[g] + 1) + 3
    BY <1>0, <2>1 DEF RunStepsLeft
  <2>3. RunStepsLeft(g) = cfg.chainLength - pos[g] + 3 /\ InRun(g)'
    BY <1>0, <2>1 DEF RunStepsLeft, InRun
  <2> QED BY <1>0, <2>1, <2>2, <2>3, Numbers, WithinRun
<1>2. CASE EndChain(g) /\ cfg.resetAfterChain
  <2>1. pc'[g] = "reset" /\ run' = run /\ pc[g] = "chain" /\ pos[g] <= cfg.chainLength + 1
    BY <1>2 DEF EndChain, GoTo, ChainPositions, Types, TypeOK
  <2>2. RunStepsLeft(g) = cfg.chainLength - pos[g] + 3 /\ RunStepsLeft(g)' = 1 /\ InRun(g)'
    BY <2>1 DEF RunStepsLeft, InRun
  <2> QED BY <1>0, <2>1, <2>2, Numbers, WithinRun
<1>3. CASE (EndChain(g) /\ ~cfg.resetAfterChain) \/ Reset(g) \/ ResetFails(g)
  <2>1. EndRun(g)
    BY <1>3 DEF EndChain, Reset, ResetFails
  <2> QED BY <1>0, <2>1, EndOfRun
<1> QED BY <1>1, <1>2, <1>3 DEF Boundary

LEMMA OutsideRunsOut ==
  ASSUME Types, ChainPositions, NEW g \in Goroutine, Outside(g)
  PROVE  StepsLeft(g)' < StepsLeft(g)
<1>1. UNCHANGED <<cfg, run>>
  BY DEF Outside, GetMap, GetMapFails, Clean, CleanSkips, CleanFails, Finish, Destroy, DestroyFails
<1>2. \/ pc[g] = "start" /\ pc'[g] \in {"clean", "run", "done"}
      \/ pc[g] = "clean" /\ pc'[g] \in {"run", "destroy"}
      \/ pc[g] = "run" /\ pc'[g] = "destroy"
      \/ pc[g] = "destroy" /\ pc'[g] \in {"done", "failed"}
  BY DEF Outside, GetMap, GetMapFails, Clean, CleanSkips, CleanFails, Finish, Destroy, DestroyFails,
         GoTo, Types, TypeOK
<1>3. StepsOfRun' = StepsOfRun
  BY <1>1 DEF StepsOfRun
<1>4. cfg.numRuns - run[g] \in Nat
  BY Numbers
<1>5. StepsOfRun * (cfg.numRuns - run[g]) \in Nat
  BY <1>4, Numbers, ProductOfNaturals
<1> DEFINE all == StepsOfRun * (cfg.numRuns - run[g])
<1>6. all' = all
  BY <1>1, <1>3
<1> HIDE DEF all
<1>7. /\ pc[g] = "start" => StepsLeft(g) = all + 4
      /\ pc[g] = "clean" => StepsLeft(g) = all + 3
      /\ pc[g] = "run" => StepsLeft(g) = all + 2
      /\ pc[g] = "destroy" => StepsLeft(g) = 1
  BY DEF StepsLeft, InRun, all
<1>8. /\ pc'[g] = "clean" => StepsLeft(g)' = all + 3
      /\ pc'[g] = "run" => StepsLeft(g)' = all + 2
      /\ pc'[g] = "destroy" => StepsLeft(g)' = 1
      /\ pc'[g] \in {"done", "failed"} => StepsLeft(g)' = 0
  BY <1>6 DEF StepsLeft, InRun, all
<1>9. all \in Nat BY <1>5 DEF all
<1> QED BY <1>2, <1>7, <1>8, <1>9

LEMMA StartRunRunsOut ==
  ASSUME Types, NEW g \in Goroutine, StartRun(g)
  PROVE  StepsLeft(g)' < StepsLeft(g)
<1>1. UNCHANGED <<cfg, run>> /\ pc[g] = "run" /\ pos'[g] = 1 /\ pc'[g] \in {"ingest", "chain"}
  BY DEF StartRun, GoTo, Types, TypeOK
<1>2. StepsLeft(g) = StepsOfRun * (cfg.numRuns - run[g]) + 2
  BY <1>1 DEF StepsLeft, InRun
<1>3. StepsLeft(g)' = StepsOfRun * (cfg.numRuns - run[g] - 1) + RunStepsLeft(g)' + 2
  BY <1>1 DEF StepsLeft, InRun, StepsOfRun
<1>4. RunStepsLeft(g)' = IF pc'[g] = "ingest" THEN 3 * NumElements + 2 * (NumElements - 1) + 3
                                              ELSE cfg.chainLength - 1 + 3
  BY <1>1 DEF RunStepsLeft
<1>5. StepsOfRun = 5 * NumElements + cfg.chainLength + 3
  BY DEF StepsOfRun
<1>6. RunStepsLeft(g)' \in Nat /\ RunStepsLeft(g)' < StepsOfRun
  BY <1>1, <1>4, <1>5, Numbers
<1> QED BY <1>2, <1>3, <1>6, Numbers

(* Nobody else moves a goroutine.                                          *)
LEMMA Undisturbed ==
  ASSUME Types, [Next]_vars, NEW g \in Goroutine, ~Step(g)
  PROVE  UNCHANGED <<cfg, pc[g], pos[g], run[g]>>
<1>1. ASSUME NEW k \in Goroutine, Step(k)
      PROVE  UNCHANGED <<cfg, pc[g], pos[g], run[g]>>
  <2>1. k # g /\ Frame(g)
    BY <1>1, StepFrame
  <2>2. UNCHANGED cfg
    BY <1>1 DEF Step, GetMap, GetMapFails, Clean, CleanSkips, CleanFails, StartRun, Finish, Destroy,
                DestroyFails, Batch, IngestFound, IngestMissing, Set, SetFails, ReadFound, ReadNil,
                BeginRemove, RemoveMissing, RemoveFound, Remove, RemoveFails, CheckFails,
                Boundary, ChainAction, EndChain, Reset, ResetFails
  <2>3. run' = run \/ run' = [run EXCEPT ![k] = @ + 1]
    BY <1>1 DEF Step, GetMap, GetMapFails, Clean, CleanSkips, CleanFails, StartRun, Finish, Destroy,
                DestroyFails, Batch, IngestFound, IngestMissing, Set, SetFails, ReadFound, ReadNil,
                BeginRemove, RemoveMissing, RemoveFound, Remove, RemoveFails, CheckFails,
                Boundary, ChainAction, EndChain, Reset, ResetFails, AfterFailedSet, RemoveNext, EndRun
  <2>4. run'[g] = run[g]
    BY <2>1, <2>3 DEF Types, TypeOK
  <2> QED BY <2>1, <2>2, <2>4 DEF Frame
<1>2. ASSUME NEW k \in Goroutine, Wipe(k)
      PROVE  UNCHANGED <<cfg, pc[g], pos[g], run[g]>>
  BY <1>2 DEF Wipe
<1>3. CASE UNCHANGED vars
  BY <1>3 DEF vars
<1> QED BY <1>1, <1>2, <1>3 DEF Next

LEMMA GoroutineRunsOut ==
  ASSUME Types, ChainPositions, [Next]_vars, NEW g \in Goroutine
  PROVE  /\ Step(g) => StepsLeft(g)' < StepsLeft(g)
         /\ ~Step(g) => StepsLeft(g)' = StepsLeft(g)
<1>1. Step(g) => StepsLeft(g)' < StepsLeft(g)
  BY StartRunRunsOut, BatchRunsOut, BoundaryRunsOut, OutsideRunsOut DEF Step, Outside
<1>2. ASSUME ~Step(g) PROVE StepsLeft(g)' = StepsLeft(g)
  <2>1. UNCHANGED <<cfg, pc[g], pos[g], run[g]>>
    BY <1>2, Undisturbed
  <2> QED BY <2>1 DEF StepsLeft, InRun, StepsOfRun, RunStepsLeft
<1> QED BY <1>1, <1>2

LEMMA NextChainPositions == Types /\ ChainPositions /\ [Next]_vars => ChainPositions'
<1> SUFFICES ASSUME Types, ChainPositions, [Next]_vars, NEW g \in Goroutine, pc'[g] = "chain"
             PROVE  pos'[g] <= cfg'.chainLength + 1
  BY DEF ChainPositions
<1>1. CASE ~Step(g)
  BY <1>1, Undisturbed DEF ChainPositions
<1>2. CASE Batch(g) \/ Outside(g)
  <2>1. pc'[g] # "chain"
    BY <1>2 DEF Batch, IngestFound, IngestMissing, Set, SetFails, ReadFound, ReadNil, BeginRemove,
                RemoveMissing, RemoveFound, Remove, RemoveFails, CheckFails, AfterFailedSet, EndRun,
                RemoveNext, Advance, Outside, GetMap, GetMapFails, Clean, CleanSkips, CleanFails,
                Finish, Destroy, DestroyFails, GoTo, Types, TypeOK
  <2> QED BY <2>1
<1>3. CASE StartRun(g)
  <2>1. pos'[g] = 1 /\ cfg' = cfg
    BY <1>3 DEF StartRun, Types, TypeOK
  <2> QED BY <2>1, Numbers
<1>4. CASE ChainAction(g)
  <2>1. pos'[g] = pos[g] + 1 /\ pos[g] <= cfg.chainLength /\ cfg' = cfg
    BY <1>4 DEF ChainAction, Types, TypeOK
  <2> QED BY <2>1, Numbers
<1>5. CASE EndChain(g) \/ Reset(g) \/ ResetFails(g)
  <2>1. pc'[g] # "chain"
    BY <1>5 DEF EndChain, Reset, ResetFails, EndRun, GoTo, Types, TypeOK
  <2> QED BY <2>1
<1> QED BY <1>1, <1>2, <1>3, <1>4, <1>5 DEF Step, Outside, Boundary

(* Every goroutine has a natural number of steps left that each of its     *)
(* steps lowers and that no neighbour, no other instance and no failed     *)
(* call can raise again: all test loops are finite, whatever they meet.    *)
THEOREM GoroutinesRunOutOfSteps ==
  Spec => [](\A g \in Goroutine : StepsLeft(g) \in Nat) /\ StepsRunOut
<1>1. Init => ChainPositions
  BY DEF Init, ChainPositions
<1>2. Types /\ ChainPositions => \A g \in Goroutine : StepsLeft(g) \in Nat
  BY LeftNatural
<1>3. Types /\ ChainPositions /\ [Next]_vars =>
        [\A g \in Goroutine :
           /\ Step(g) => StepsLeft(g)' < StepsLeft(g)
           /\ ~Step(g) => StepsLeft(g)' = StepsLeft(g)]_vars
  BY GoroutineRunsOut
<1> QED BY <1>1, <1>2, <1>3, NextChainPositions, TypesHold, PTL DEF Spec, StepsRunOut
=============================================================================
