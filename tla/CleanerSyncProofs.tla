-------------------------- MODULE CleanerSyncProofs --------------------------
(***************************************************************************)
(* Proofs about CleanerSync, for any set of cleaners, structures and       *)
(* sessions, any thresholds and any bound on the clock.                    *)
(***************************************************************************)
EXTENDS CleanerSync, TLAPS

(* The types hold in every state.                                          *)
LEMMA TypeInit == Init => TypeOK
  BY SessionAssumption, ClockAssumption DEF Init, TypeOK, Holding, PCs

LEMMA TypeNext == TypeOK /\ [Next]_vars => TypeOK'
<1> SUFFICES ASSUME TypeOK, [Next]_vars PROVE TypeOK'
  OBVIOUS
<1> USE SessionAssumption, ConfigAssumption, ClockAssumption DEF TypeOK
<1>1. ASSUME NEW c \in Cleaner, Open(c) \/ ListStructures(c) \/ EndBatch(c) PROVE TypeOK'
  BY <1>1 DEF Open, ListStructures, EndBatch, Candidates, PCs, Holding
<1>2. ASSUME NEW c \in Cleaner, NEW d \in Structure, TryLock(c, d) PROVE TypeOK'
  BY <1>2 DEF TryLock, TodoWithout, Acquired, Locks, FreeLock, PCs, Holding
<1>3. ASSUME NEW c \in Cleaner, NEW d \in Structure, TryLockFails(c, d) PROVE TypeOK'
  BY <1>3 DEF TryLockFails, TodoWithout, RemainingAfter, AfterStructure, Acquired,
              Locks, FreeLock, PCs, Holding
<1>4. ASSUME NEW c \in Cleaner, ReadRecord(c) \/ ReadSize(c) PROVE TypeOK'
  BY <1>4 DEF ReadRecord, ReadSize, PCs, Holding
<1>5. ASSUME NEW c \in Cleaner, Evict(c) \/ EvictFails(c) PROVE TypeOK'
  BY <1>5 DEF Evict, EvictFails, PCs, Holding
<1>6. ASSUME NEW c \in Cleaner, Update(c) \/ UpdateFails(c) PROVE TypeOK'
  <2>1. NewRecord(c) \in Records
    BY DEF NewRecord, Records
  <2>2. /\ syncMap' \in [Structure -> Records \cup {Absent}]
        /\ failed' \in [Cleaner -> BOOLEAN]
    <3> DEFINE R == NewRecord(c)
    <3>1. R \in Records
      BY <2>1
    <3>2. \/ UNCHANGED syncMap
          \/ syncMap' = [syncMap EXCEPT ![cur[c]] = R]
      BY <1>6 DEF Update, UpdateFails
    <3>3. failed' \in [Cleaner -> BOOLEAN]
      BY <1>6 DEF Update, UpdateFails
    <3> HIDE DEF R
    <3> QED
      BY <3>1, <3>2, <3>3
  <2>3. /\ pc' = [pc EXCEPT ![c] = "unlock"] /\ pc[c] = "update"
        /\ UNCHANGED <<now, filled, lock, todo, cur>>
    BY <1>6 DEF Update, UpdateFails
  <2>4. /\ pc' \in [Cleaner -> PCs]
        /\ \A b \in Cleaner : cur'[b] # NoStructure <=> pc'[b] \in Holding
    BY <2>3 DEF PCs, Holding
  <2> QED
    BY <2>2, <2>3, <2>4
<1>7. ASSUME NEW c \in Cleaner, Unlock(c) PROVE TypeOK'
  BY <1>7 DEF Unlock, Released, RemainingAfter, AfterStructure, Locks, FreeLock, PCs, Holding
<1>8. ASSUME NEW s \in Session, Shutdown(s) \/ Crash(s) PROVE TypeOK'
  <2>1. LeaveSession(s) /\ lock' = LocksWithout({s})
    BY <1>8 DEF Shutdown, Crash, LocksAfterShutdown
  <2>2. lock' \in [Structure -> Locks \cup {FreeLock}]
    BY <2>1 DEF LeaveSession, LocksWithout
  <2>3. /\ pc' \in [Cleaner -> PCs]
        /\ todo' \in [Cleaner -> SUBSET Structure]
        /\ cur' \in [Cleaner -> Structure \cup {NoStructure}]
        /\ failed' \in [Cleaner -> BOOLEAN]
    BY <2>1 DEF LeaveSession, PCs
  <2>4. \A c \in Cleaner : cur'[c] # NoStructure <=> pc'[c] \in Holding
    BY <2>1 DEF LeaveSession, Holding
  <2> QED
    BY <2>1, <2>2, <2>3, <2>4 DEF LeaveSession
<1>9. ASSUME NEW d \in Structure, Expire(d) \/ Fill(d) PROVE TypeOK'
  BY <1>9 DEF Expire, Fill
<1>10. CASE Tick
  BY <1>10 DEF Tick
<1>11. CASE UNCHANGED vars
  BY <1>11 DEF vars
<1> QED
  BY <1>1, <1>2, <1>3, <1>4, <1>5, <1>6, <1>7, <1>8, <1>9, <1>10, <1>11 DEF Next, Step

(* Every reachable state is well typed, and a cleaner has a current        *)
(* structure exactly in the steps it takes with that structure locked      *)
(* (runGenericSingleClean between check and the deferred releaseLock).     *)
THEOREM TypeCorrect == Spec => []TypeOK
  BY TypeInit, TypeNext, PTL DEF Spec

-----------------------------------------------------------------------------
(* The lock of a structure belongs to the session of the cleaner that      *)
(* works on it, so cleaners with sessions of their own exclude each other. *)
LEMMA HoldsLockExcludes == OwnSessions /\ TypeOK /\ HoldsLock => MutualExclusion
  BY DEF OwnSessions, HoldsLock, MutualExclusion

LEMMA HoldsLockInit == Init => HoldsLock
  BY DEF Init, HoldsLock

(* Only an unlock or the end of its own session takes a lock away, and     *)
(* TryLock takes none that belongs to another session.                     *)
LEMMA HoldsLockNext ==
  ASSUME OwnSessions, TypeOK, HoldsLock, [Next]_vars
  PROVE  HoldsLock'
<1> SUFFICES ASSUME NEW b \in Cleaner, cur'[b] # NoStructure
             PROVE  lock'[cur'[b]].owner = SessionOf[b]
  BY DEF HoldsLock
<1> USE DEF HoldsLock
<1>0. MutualExclusion
  BY HoldsLockExcludes
<1>1. CASE UNCHANGED <<cur, lock>>
  BY <1>1
<1>2. ASSUME NEW c \in Cleaner, NEW d \in Structure, TryLock(c, d) \/ TryLockFails(c, d)
      PROVE  lock'[cur'[b]].owner = SessionOf[b]
  <2>1. \/ lock' = lock
        \/ LockAvailable(c, d) /\ lock' = [lock EXCEPT ![d] = Acquired(c, d)]
    BY <1>2 DEF TryLock, TryLockFails, LockSucceeded
  <2>2. \/ UNCHANGED cur
        \/ TryLock(c, d) /\ cur' = [cur EXCEPT ![c] = d]
    BY <1>2 DEF TryLock, TryLockFails
  <2>3. \/ cur'[b] = cur[b]
        \/ b = c /\ cur'[b] = d /\ TryLock(c, d)
    BY <2>2 DEF TypeOK
  <2>4. CASE b = c /\ cur'[b] = d /\ TryLock(c, d)
    BY <2>4 DEF TryLock, TypeOK, Acquired
  <2>5. CASE cur'[b] = cur[b]
    <3>1. cur[b] \in Structure /\ lock[cur[b]].owner = SessionOf[b]
      BY <2>5 DEF TypeOK
    <3>2. lock[cur[b]] # FreeLock
      BY <3>1, SessionAssumption DEF FreeLock
    <3>3. cur[b] = d /\ LockAvailable(c, d) => SessionOf[b] = SessionOf[c]
      BY <3>1, <3>2 DEF LockAvailable
    <3> QED
      BY <2>1, <2>5, <3>1, <3>3 DEF Acquired, TypeOK
  <2> QED
    BY <2>3, <2>4, <2>5
<1>3. ASSUME NEW c \in Cleaner, Unlock(c)
      PROVE  lock'[cur'[b]].owner = SessionOf[b]
  <2>1. b # c /\ cur'[b] = cur[b]
    BY <1>3 DEF Unlock, TypeOK
  <2>2. cur[b] # cur[c]
    BY <1>0, <2>1 DEF MutualExclusion
  <2> QED
    BY <1>3, <2>1, <2>2 DEF Unlock, TypeOK
<1>4. ASSUME NEW s \in Session, Shutdown(s) \/ Crash(s)
      PROVE  lock'[cur'[b]].owner = SessionOf[b]
  <2>1. LeaveSession(s) /\ lock' = LocksWithout({s})
    BY <1>4 DEF Shutdown, Crash, LocksAfterShutdown
  <2>2. b \notin Users(s) /\ cur'[b] = cur[b]
    BY <2>1 DEF LeaveSession
  <2>3. cur[b] \in Structure /\ lock[cur[b]].owner # s
    BY <2>2 DEF Users, TypeOK
  <2> QED
    BY <2>1, <2>2, <2>3 DEF LeaveSession, LocksWithout
<1> QED
  <2>1. CASE UNCHANGED vars
    BY <2>1, <1>1 DEF vars
  <2>2. ASSUME NEW c \in Cleaner, Open(c) \/ ListStructures(c) \/ EndBatch(c)
        PROVE  UNCHANGED <<cur, lock>>
    BY <2>2 DEF Open, ListStructures, EndBatch
  <2>3. ASSUME NEW c \in Cleaner, ReadRecord(c) \/ ReadSize(c) \/ Evict(c) \/ EvictFails(c)
                                  \/ Update(c) \/ UpdateFails(c)
        PROVE  UNCHANGED <<cur, lock>>
    BY <2>3 DEF ReadRecord, ReadSize, Evict, EvictFails, Update, UpdateFails
  <2>4. ASSUME NEW d \in Structure, Expire(d) \/ Fill(d)
        PROVE  UNCHANGED <<cur, lock>>
    BY <2>4 DEF Expire, Fill
  <2>5. Tick => UNCHANGED <<cur, lock>>
    BY DEF Tick
  <2> QED
    BY <1>1, <1>2, <1>3, <1>4, <2>1, <2>2, <2>3, <2>4, <2>5 DEF Next, Step

(* Cleaners that each have a client of their own never work on the same    *)
(* structure at the same time: nobody else reads or writes the record or   *)
(* empties the structure between check and releaseLock.                    *)
THEOREM Exclusion == ASSUME OwnSessions PROVE Spec => []MutualExclusion
<1>1. Init => TypeOK /\ HoldsLock
  BY TypeInit, HoldsLockInit
<1>2. TypeOK /\ HoldsLock /\ [Next]_vars => (TypeOK /\ HoldsLock)'
  BY TypeNext, HoldsLockNext
<1>3. TypeOK /\ HoldsLock => MutualExclusion
  BY HoldsLockExcludes
<1> QED
  BY <1>1, <1>2, <1>3, PTL DEF Spec

-----------------------------------------------------------------------------
(* Locks change hands only by TryLock, which a cleaner at work calls.      *)
LEMMA LockOwners ==
  ASSUME TypeOK, NEW c \in Cleaner, Open(c) \/ Step(c), NEW d \in Structure, lock'[d] # FreeLock
  PROVE  \/ lock[d] # FreeLock /\ lock'[d].owner = lock[d].owner
         \/ lock'[d].owner = SessionOf[c]
<1> USE DEF TypeOK
<1>1. CASE UNCHANGED lock
  BY <1>1
<1>2. ASSUME NEW e \in Structure, lock' = [lock EXCEPT ![e] = Acquired(c, e)]
      PROVE  \/ lock[d] # FreeLock /\ lock'[d].owner = lock[d].owner
             \/ lock'[d].owner = SessionOf[c]
  BY <1>2 DEF Acquired
<1>3. ASSUME Unlock(c), lock' = [lock EXCEPT ![cur[c]] = Released(lock[cur[c]])]
      PROVE  lock[d] # FreeLock /\ lock'[d].owner = lock[d].owner
  <2>1. CASE d # cur[c] BY <1>3, <2>1
  <2>2. CASE d = cur[c]
    <3>1. lock'[d] = Released(lock[d]) BY <1>3, <2>2
    <3>2. lock[d].count > 1 /\ lock'[d].owner = lock[d].owner
      BY <3>1 DEF Released, Locks, FreeLock
    <3> QED BY <3>2 DEF FreeLock
  <2> QED BY <2>1, <2>2
<1> QED
  BY <1>1, <1>2, <1>3
  DEF Step, Open, ListStructures, EndBatch, TryLock, TryLockFails, ReadRecord, ReadSize, Evict,
      EvictFails, Update, UpdateFails, Unlock

(* A cleaner's own steps never take a cleaner off the line.                *)
LEMMA StaysOpen ==
  ASSUME TypeOK, NEW c \in Cleaner, Open(c) \/ Step(c), NEW b \in Cleaner, pc[b] # "off" \/ b = c
  PROVE  pc'[b] # "off"
  BY DEF TypeOK, Step, Open, ListStructures, EndBatch, TryLock, TryLockFails, ReadRecord, ReadSize,
         Evict, EvictFails, Update, UpdateFails, Unlock, AfterStructure

LEMMA OwnersNext ==
  ASSUME TypeOK, OnlyOpenSessionsOwnLocks, [Next]_vars
  PROVE  OnlyOpenSessionsOwnLocks'
<1> SUFFICES ASSUME NEW d \in Structure, lock'[d] # FreeLock
             PROVE  \E b \in Cleaner : SessionOf[b] = lock'[d].owner /\ pc'[b] # "off"
  BY DEF OnlyOpenSessionsOwnLocks
<1>1. ASSUME NEW c \in Cleaner, Open(c) \/ Step(c)
      PROVE  \E b \in Cleaner : SessionOf[b] = lock'[d].owner /\ pc'[b] # "off"
  <2>1. CASE lock'[d].owner = SessionOf[c]
    BY <1>1, <2>1, StaysOpen
  <2>2. CASE lock[d] # FreeLock /\ lock'[d].owner = lock[d].owner
    <3>1. PICK b \in Cleaner : SessionOf[b] = lock[d].owner /\ pc[b] # "off"
      BY <2>2 DEF OnlyOpenSessionsOwnLocks
    <3> QED BY <1>1, <2>2, <3>1, StaysOpen
  <2> QED BY <1>1, <2>1, <2>2, LockOwners
<1>2. ASSUME NEW s \in Session, Shutdown(s) \/ Crash(s)
      PROVE  \E b \in Cleaner : SessionOf[b] = lock'[d].owner /\ pc'[b] # "off"
  <2>1. LeaveSession(s) /\ lock' = LocksWithout({s})
    BY <1>2 DEF Shutdown, Crash, LocksAfterShutdown
  <2>2. lock[d] # FreeLock /\ lock'[d] = lock[d] /\ lock[d].owner # s
    BY <2>1 DEF LocksWithout
  <2>3. PICK b \in Cleaner : SessionOf[b] = lock[d].owner /\ pc[b] # "off"
    BY <2>2 DEF OnlyOpenSessionsOwnLocks
  <2>4. b \notin Users(s) BY <2>2, <2>3 DEF Users
  <2> QED BY <2>1, <2>2, <2>3, <2>4 DEF LeaveSession
<1>3. CASE UNCHANGED <<lock, pc>>
  BY <1>3 DEF OnlyOpenSessionsOwnLocks
<1> QED
  BY <1>1, <1>2, <1>3 DEF Next, Expire, Fill, Tick, vars

(* Whatever calls fail on the way, a client that is gone leaves no key     *)
(* locked; sessions may be shared.                                         *)
THEOREM OpenOwners == Spec => []OnlyOpenSessionsOwnLocks
<1>1. Init => OnlyOpenSessionsOwnLocks
  BY DEF Init, OnlyOpenSessionsOwnLocks
<1> QED
  BY <1>1, TypeCorrect, OwnersNext, PTL DEF Spec

-----------------------------------------------------------------------------
(* A record that check can see is younger than every threshold: the date   *)
(* it reads, nanoseconds taken for seconds, lies in the future.            *)
LEMMA PresentIsNotSusceptible ==
  ASSUME TypeOK, NEW c \in Cleaner, NEW d \in Structure, Susceptible(c, syncMap[d])
  PROVE  syncMap[d] = Absent
<1> SUFFICES ASSUME syncMap[d] # Absent PROVE FALSE
  OBVIOUS
<1>1. PICK t \in StartTime..Horizon : syncMap[d].value = UnixNano(t)
  BY DEF TypeOK, Records
<1>2. TimeUnix(syncMap[d].value) \in Nat /\ TimeUnix(syncMap[d].value) > Horizon
  BY <1>1, ClockAssumption
<1>3. now \in Nat /\ now <= Horizon /\ Horizon \in Nat
  BY ClockAssumption DEF TypeOK
<1>4. SinceCleaned(syncMap[d]) < 0
  BY <1>2, <1>3 DEF SinceCleaned
<1>5. Threshold[c] \in Nat
  BY ConfigAssumption
<1>6. SinceCleaned(syncMap[d]) \in Int
  BY <1>2, <1>3 DEF SinceCleaned
<1> QED
  BY <1>4, <1>5, <1>6 DEF Susceptible

(* The record of a structure whose cleaner is about to empty it stays      *)
(* absent: only the cleaner that holds the lock writes it.                 *)
LEMMA LapsedNext ==
  ASSUME OwnSessions, IInv, [Next]_vars
  PROVE  LapsedWhileCleaning'
<1> SUFFICES ASSUME NEW b \in Cleaner, pc'[b] \in {"size", "evict"}, UseThreshold[b]
             PROVE  syncMap'[cur'[b]] = Absent
  BY DEF LapsedWhileCleaning
<1> USE DEF IInv
<1>0. MutualExclusion
  BY HoldsLockExcludes
<1>1. ASSUME pc'[b] = pc[b], cur'[b] = cur[b],
             \/ UNCHANGED syncMap
             \/ \E d \in Structure : syncMap' = [syncMap EXCEPT ![d] = Absent]
      PROVE  syncMap'[cur'[b]] = Absent
  BY <1>1 DEF LapsedWhileCleaning, TypeOK, Holding
<1>2. ASSUME NEW c \in Cleaner, NEW d \in Structure, TryLock(c, d) \/ TryLockFails(c, d)
      PROVE  syncMap'[cur'[b]] = Absent
  <2>1. c # b
    BY <1>2 DEF TryLock, TryLockFails, AfterStructure, TypeOK
  <2>2. cur'[b] = cur[b] /\ UNCHANGED syncMap
    BY <1>2, <2>1 DEF TryLock, TryLockFails, TypeOK
  <2>3. pc'[b] = pc[b]
    BY <1>2, <2>1 DEF TryLock, TryLockFails, TypeOK
  <2> QED
    BY <1>1, <2>2, <2>3
<1>3. ASSUME NEW c \in Cleaner, Open(c) \/ ListStructures(c) \/ EndBatch(c) \/ Unlock(c)
      PROVE  syncMap'[cur'[b]] = Absent
  <2>1. c # b
    BY <1>3 DEF Open, ListStructures, EndBatch, Unlock, AfterStructure, TypeOK
  <2> QED
    BY <1>1, <1>3, <2>1 DEF Open, ListStructures, EndBatch, Unlock, TypeOK
<1>4. ASSUME NEW c \in Cleaner, ReadRecord(c)
      PROVE  syncMap'[cur'[b]] = Absent
  <2>1. CASE c # b
    BY <1>1, <1>4, <2>1 DEF ReadRecord, TypeOK
  <2>2. CASE c = b
    <3>1. cur[b] \in Structure /\ Susceptible(b, syncMap[cur[b]])
      BY <1>4, <2>2 DEF ReadRecord, TypeOK, Holding
    <3> QED
      BY <1>4, <3>1, PresentIsNotSusceptible DEF ReadRecord
  <2> QED
    BY <2>1, <2>2
<1>5. ASSUME NEW c \in Cleaner, ReadSize(c)
      PROVE  syncMap'[cur'[b]] = Absent
  <2>1. CASE c # b
    BY <1>1, <1>5, <2>1 DEF ReadSize, TypeOK
  <2>2. CASE c = b
    BY <1>5, <2>2 DEF ReadSize, LapsedWhileCleaning
  <2> QED
    BY <2>1, <2>2
<1>6. ASSUME NEW c \in Cleaner, Evict(c) \/ EvictFails(c)
      PROVE  syncMap'[cur'[b]] = Absent
  <2>1. c # b
    BY <1>6 DEF Evict, EvictFails, TypeOK
  <2> QED
    BY <1>1, <1>6, <2>1 DEF Evict, EvictFails, TypeOK
<1>7. ASSUME NEW c \in Cleaner, Update(c) \/ UpdateFails(c)
      PROVE  syncMap'[cur'[b]] = Absent
  <2>1. c # b /\ pc'[b] = pc[b] /\ cur' = cur
    BY <1>7 DEF Update, UpdateFails, TypeOK
  <2>2. cur[b] # cur[c] /\ cur[b] \in Structure
    BY <1>0, <2>1 DEF MutualExclusion, TypeOK, Holding
  <2>3. syncMap'[cur[b]] = syncMap[cur[b]]
    BY <1>7, <2>2 DEF Update, UpdateFails, TypeOK
  <2> QED
    BY <2>1, <2>3 DEF LapsedWhileCleaning
<1>8. ASSUME NEW s \in Session, Shutdown(s) \/ Crash(s)
      PROVE  syncMap'[cur'[b]] = Absent
  <2>1. LeaveSession(s) /\ lock' = LocksWithout({s})
    BY <1>8 DEF Shutdown, Crash, LocksAfterShutdown
  <2>2. b \notin Users(s)
    BY <2>1 DEF LeaveSession
  <2> QED
    BY <1>1, <2>1, <2>2 DEF LeaveSession
<1>9. ASSUME NEW d \in Structure, Expire(d) \/ Fill(d)
      PROVE  syncMap'[cur'[b]] = Absent
  BY <1>1, <1>9 DEF Expire, Fill
<1>10. CASE Tick \/ UNCHANGED vars
  BY <1>1, <1>10 DEF Tick, vars
<1> QED
  BY <1>2, <1>3, <1>4, <1>5, <1>6, <1>7, <1>8, <1>9, <1>10 DEF Next, Step

(* The strengthened invariant holds in every reachable state.              *)
THEOREM IInvHolds == ASSUME OwnSessions PROVE Spec => []IInv
<1>1. Init => IInv
  BY TypeInit, HoldsLockInit DEF IInv, LapsedWhileCleaning, Init
<1>2. IInv /\ [Next]_vars => IInv'
  BY TypeNext, HoldsLockNext, LapsedNext DEF IInv
<1> QED
  BY <1>1, <1>2, PTL DEF Spec

-----------------------------------------------------------------------------
(* Steps that empty a structure: the cleaner at work on it, in its evict   *)
(* step.                                                                   *)
LEMMA EmptyingStep ==
  ASSUME IInv, [Next]_vars, NEW d \in filled \ filled'
  PROVE  \E c \in Cleaner : cur[c] = d /\ (UseThreshold[c] => syncMap[d] = Absent)
<1>1. PICK c \in Cleaner : Evict(c) \/ EvictFails(c)
  <2>1. ~ UNCHANGED vars
    BY DEF vars
  <2>2. ASSUME NEW c \in Cleaner, NEW e \in Structure PROVE ~ (TryLock(c, e) \/ TryLockFails(c, e))
    BY DEF TryLock, TryLockFails
  <2>3. ASSUME NEW c \in Cleaner
        PROVE ~ \/ Open(c) \/ ListStructures(c) \/ EndBatch(c) \/ ReadRecord(c)
                \/ ReadSize(c) \/ Update(c) \/ UpdateFails(c) \/ Unlock(c)
    BY DEF Open, ListStructures, EndBatch, ReadRecord, ReadSize, Update, UpdateFails, Unlock
  <2>4. ASSUME NEW s \in Session PROVE ~ (Shutdown(s) \/ Crash(s))
    BY DEF Shutdown, Crash, LeaveSession
  <2>5. ASSUME NEW e \in Structure PROVE ~ (Expire(e) \/ Fill(e))
    BY DEF Expire, Fill
  <2>6. ~ Tick
    BY DEF Tick
  <2> QED
    BY <2>1, <2>2, <2>3, <2>4, <2>5, <2>6 DEF Next, Step
<1>2. cur[c] = d
  BY <1>1 DEF Evict, EvictFails
<1> QED
  BY <1>1, <1>2 DEF Evict, EvictFails, IInv, LapsedWhileCleaning

(* A cleaner that applies a threshold empties a structure only when the    *)
(* record of the last clean has lapsed, whatever thresholds the others use *)
(* and however their calls are interleaved with its own.                   *)
THEOREM OnlyLapsedEmptied == ASSUME OwnSessions PROVE Spec => EmptiesOnlyLapsed
<1>1. IInv /\ [Next]_vars =>
        [\A d \in filled \ filled' :
           \E c \in Cleaner : cur[c] = d /\ (UseThreshold[c] => syncMap[d] = Absent)]_vars
  BY EmptyingStep
<1> QED
  BY <1>1, IInvHolds, PTL DEF EmptiesOnlyLapsed, Spec

-----------------------------------------------------------------------------
(* The refinement: the cleaners at work on d are those whose current       *)
(* structure is d, and d is protected until its record expires.            *)
AtWork == [d \in Structure |-> {c \in Cleaner : cur[c] = d}]
Protection == [d \in Structure |-> syncMap[d].expires]

LEMMA RefinementInit == Init => Registry!Init
<1> SUFFICES ASSUME Init PROVE Registry!Init
  OBVIOUS
<1>1. \A d \in Structure : {c \in Cleaner : cur[c] = d} = {}
  BY SessionAssumption DEF Init
<1>2. \A d \in Structure : syncMap[d].expires = 0
  BY DEF Init, Absent
<1> QED
  BY <1>1, <1>2 DEF Registry!Init, Init

(* A step that leaves the data, the records and the current structures     *)
(* alone is invisible to the registry.                                     *)
LEMMA RefinementStutter ==
  ASSUME UNCHANGED <<now, filled, syncMap, cur>>
  PROVE  UNCHANGED Registry!rvars
  BY DEF Registry!rvars

LEMMA RefinementTryLock ==
  ASSUME IInv, NEW c \in Cleaner, NEW d \in Structure, TryLock(c, d), OwnSessions
  PROVE  Registry!Claim(c, d)
<1>1. cur[c] = NoStructure
  BY DEF TryLock, IInv, TypeOK, Holding
<1>2. ASSUME NEW b \in Cleaner, cur[b] = d PROVE FALSE
  <2>1. lock[d].owner = SessionOf[b] /\ SessionOf[b] \in Session
    BY <1>2, SessionAssumption DEF IInv, HoldsLock
  <2>2. lock[d] # FreeLock
    BY <2>1, SessionAssumption DEF FreeLock
  <2>3. SessionOf[b] = SessionOf[c]
    BY <2>1, <2>2 DEF TryLock, LockSucceeded, LockAvailable
  <2> QED
    BY <1>1, <1>2, <2>3, SessionAssumption DEF OwnSessions
<1>3. AtWork[d] = {}
  BY <1>2 DEF AtWork
<1>4. AtWork' = [AtWork EXCEPT ![d] = {c}]
  <2>1. cur' = [cur EXCEPT ![c] = d] /\ cur \in [Cleaner -> Structure \cup {NoStructure}]
    BY DEF TryLock, IInv, TypeOK
  <2>2. {b \in Cleaner : cur'[b] = d} = {c}
    BY <1>2, <2>1
  <2>3. ASSUME NEW e \in Structure, e # d
        PROVE  {b \in Cleaner : cur'[b] = e} = {b \in Cleaner : cur[b] = e}
    BY <1>1, <2>1, <2>3, SessionAssumption
  <2> QED
    BY <2>2, <2>3 DEF AtWork
<1> QED
  BY <1>3, <1>4 DEF Registry!Claim, AtWork, TryLock

LEMMA RefinementEvict ==
  ASSUME IInv, NEW c \in Cleaner, Evict(c) \/ EvictFails(c)
  PROVE  [Registry!Empty(c, cur[c])]_(Registry!rvars) /\ cur[c] \in Structure
<1>1. cur[c] \in Structure /\ (UseThreshold[c] => syncMap[cur[c]] = Absent)
  BY DEF Evict, EvictFails, IInv, TypeOK, LapsedWhileCleaning, Holding
<1>2. UNCHANGED <<now, syncMap, cur>>
  BY DEF Evict, EvictFails
<1>3. filled' = filled \/ filled' = filled \ {cur[c]}
  BY DEF Evict, EvictFails
<1>4. CASE filled' = filled
  BY <1>1, <1>2, <1>4, RefinementStutter
<1>5. CASE filled' = filled \ {cur[c]}
  <2>1. c \in AtWork[cur[c]] /\ (UseThreshold[c] => Protection[cur[c]] = 0)
    BY <1>1 DEF AtWork, Protection, Absent
  <2> QED
    BY <1>1, <1>2, <1>5, <2>1 DEF Registry!Empty, AtWork, Protection
<1> QED
  BY <1>3, <1>4, <1>5

LEMMA RefinementUpdate ==
  ASSUME IInv, NEW c \in Cleaner, Update(c) \/ UpdateFails(c)
  PROVE  [Registry!Record(c, cur[c])]_(Registry!rvars) /\ cur[c] \in Structure
<1>1. cur[c] \in Structure
  BY DEF Update, UpdateFails, IInv, TypeOK, Holding
<1>2. UNCHANGED <<now, filled, cur>>
  BY DEF Update, UpdateFails
<1>3. CASE UNCHANGED syncMap
  BY <1>1, <1>2, <1>3, RefinementStutter
<1>4. CASE syncMap' = [syncMap EXCEPT ![cur[c]] = NewRecord(c)]
  <2>1. Protection' = [Protection EXCEPT ![cur[c]] = now + Threshold[c]]
    BY <1>1, <1>4 DEF Protection, NewRecord, IInv, TypeOK
  <2>2. c \in AtWork[cur[c]]
    BY <1>1 DEF AtWork
  <2> QED
    BY <1>1, <1>2, <2>1, <2>2 DEF Registry!Record, AtWork, Protection
<1> QED
  BY <1>1, <1>3, <1>4 DEF Update, UpdateFails

(* Cleaners S let go of their structure.                                   *)
LEMMA RefinementLeave ==
  ASSUME NEW S \in SUBSET Cleaner, UNCHANGED <<now, filled, syncMap>>,
         cur \in [Cleaner -> Structure \cup {NoStructure}],
         cur' = [c \in Cleaner |-> IF c \in S THEN NoStructure ELSE cur[c]]
  PROVE  Registry!Leave(S)
<1>1. ASSUME NEW d \in Structure
      PROVE  {c \in Cleaner : cur'[c] = d} = {c \in Cleaner : cur[c] = d} \ S
  BY SessionAssumption
<1> QED
  BY <1>1 DEF Registry!Leave

LEMMA RefinementExpire ==
  ASSUME IInv, NEW d \in Structure, Expire(d)
  PROVE  Registry!Lapse(d)
<1>1. Protection[d] = syncMap[d].expires /\ syncMap[d].expires \in Nat \ {0}
  BY DEF Expire, IInv, TypeOK, Records, Protection
<1>2. Protection' = [Protection EXCEPT ![d] = 0]
  BY DEF Expire, IInv, TypeOK, Protection, Absent
<1> QED
  BY <1>1, <1>2 DEF Registry!Lapse, Expire, Protection

LEMMA RefinementStep ==
  ASSUME OwnSessions, IInv, [Next]_vars
  PROVE  [Registry!Next]_(Registry!rvars)
<1> USE DEF Registry!Next
<1>1. ASSUME NEW c \in Cleaner, Open(c) \/ ListStructures(c) \/ EndBatch(c) \/ ReadRecord(c) \/ ReadSize(c)
      PROVE  UNCHANGED <<now, filled, syncMap, cur>>
  BY <1>1 DEF Open, ListStructures, EndBatch, ReadRecord, ReadSize
<1>2. ASSUME NEW c \in Cleaner, NEW d \in Structure, TryLockFails(c, d)
      PROVE  UNCHANGED <<now, filled, syncMap, cur>>
  BY <1>2 DEF TryLockFails
<1>3. ASSUME NEW c \in Cleaner, NEW d \in Structure, TryLock(c, d)
      PROVE  Registry!Next
  BY <1>3, RefinementTryLock
<1>4. ASSUME NEW c \in Cleaner, Evict(c) \/ EvictFails(c)
      PROVE  [Registry!Next]_(Registry!rvars)
  <2>1. PICK d \in Structure : [Registry!Empty(c, d)]_(Registry!rvars)
    BY <1>4, RefinementEvict
  <2> QED
    BY <2>1
<1>5. ASSUME NEW c \in Cleaner, Update(c) \/ UpdateFails(c)
      PROVE  [Registry!Next]_(Registry!rvars)
  <2>1. PICK d \in Structure : [Registry!Record(c, d)]_(Registry!rvars)
    BY <1>5, RefinementUpdate
  <2> QED
    BY <2>1
<1>6. ASSUME NEW c \in Cleaner, Unlock(c)
      PROVE  Registry!Next
  <2>1. cur \in [Cleaner -> Structure \cup {NoStructure}]
    BY DEF IInv, TypeOK
  <2>2. cur' = [b \in Cleaner |-> IF b \in {c} THEN NoStructure ELSE cur[b]]
    BY <1>6, <2>1 DEF Unlock
  <2>3. UNCHANGED <<now, filled, syncMap>>
    BY <1>6 DEF Unlock
  <2> QED
    BY <2>1, <2>2, <2>3, RefinementLeave
<1>7. ASSUME NEW s \in Session, Shutdown(s) \/ Crash(s)
      PROVE  Registry!Next
  <2>1. LeaveSession(s) /\ lock' = LocksWithout({s})
    BY <1>7 DEF Shutdown, Crash, LocksAfterShutdown
  <2>2. Users(s) \in SUBSET Cleaner
    BY DEF Users
  <2>3. cur \in [Cleaner -> Structure \cup {NoStructure}]
    BY DEF IInv, TypeOK
  <2> QED
    BY <2>1, <2>2, <2>3, RefinementLeave DEF LeaveSession
<1>8. ASSUME NEW d \in Structure, Expire(d)
      PROVE  Registry!Next
  BY <1>8, RefinementExpire
<1>9. ASSUME NEW d \in Structure, Fill(d)
      PROVE  Registry!Next
  BY <1>9 DEF Fill, Registry!Fill
<1>10. Tick => Registry!Next
  BY DEF Tick, Registry!Tick
<1>11. UNCHANGED vars => UNCHANGED <<now, filled, syncMap, cur>>
  BY DEF vars
<1> QED
  BY <1>1, <1>2, <1>3, <1>4, <1>5, <1>6, <1>7, <1>8, <1>9, <1>10, <1>11, RefinementStutter
     DEF Next, Step

(* The cleaners, for every number of instances and whatever calls fail,    *)
(* implement the registry: one cleaner per structure, and no emptying of a *)
(* protected structure by a cleaner that applies a threshold.              *)
THEOREM CleanersImplementRegistry == ASSUME OwnSessions PROVE Spec => ImplementsRegistry
<1>1. IInv /\ [Next]_vars => [Registry!Next]_(Registry!rvars)
  BY RefinementStep
<1> QED
  BY <1>1, RefinementInit, IInvHolds, PTL DEF ImplementsRegistry, Registry!Spec, Spec
-----------------------------------------------------------------------------
(* The time a record was written at.                                       *)
LEMMA UnixNanoInverse ==
  ASSUME NEW t \in StartTime..Horizon
  PROVE  UnixNano(t) \div NanosPerTick = t
<1>1. t \in Nat /\ NanosPerTick \in Nat \ {0}
  BY ClockAssumption
<1>2. \A m \in Nat, n \in Nat \ {0} : (m * n) \div n = m
  OBVIOUS
<1> QED BY <1>1, <1>2 DEF UnixNano

WrittenAt(rec) == rec.value \div NanosPerTick

(* A record expires one threshold, that of its writer, after it was        *)
(* written.                                                                *)
LivesForAThreshold == \A d \in Structure :
  syncMap[d] # Absent => \E b \in Cleaner : syncMap[d].expires = WrittenAt(syncMap[d]) + Threshold[b]

LEMMA LivesNext ==
  ASSUME TypeOK, LivesForAThreshold, [Next]_vars
  PROVE  LivesForAThreshold'
<1> SUFFICES ASSUME NEW d \in Structure, syncMap'[d] # Absent
             PROVE  \E b \in Cleaner : syncMap'[d].expires = WrittenAt(syncMap'[d]) + Threshold[b]
  BY DEF LivesForAThreshold, WrittenAt
<1>1. CASE syncMap'[d] = syncMap[d]
  BY <1>1 DEF LivesForAThreshold
<1>2. ASSUME NEW c \in Cleaner, Update(c) \/ UpdateFails(c), syncMap'[d] # syncMap[d]
      PROVE  \E b \in Cleaner : syncMap'[d].expires = WrittenAt(syncMap'[d]) + Threshold[b]
  <2>1. syncMap'[d] = NewRecord(c)
    BY <1>2 DEF Update, UpdateFails, TypeOK
  <2>2. WrittenAt(NewRecord(c)) = now
    BY UnixNanoInverse DEF WrittenAt, NewRecord, TypeOK
  <2> QED BY <2>1, <2>2 DEF NewRecord
<1>3. ASSUME NEW e \in Structure, Expire(e), syncMap'[d] # syncMap[d] PROVE FALSE
  BY <1>3 DEF Expire, TypeOK
<1>4. ASSUME NEW s \in Session, Shutdown(s) \/ Crash(s) PROVE UNCHANGED syncMap
  BY <1>4 DEF Shutdown, Crash, LeaveSession
<1> QED
  BY <1>1, <1>2, <1>3, <1>4
  DEF Next, Step, Open, ListStructures, EndBatch, TryLock, TryLockFails, ReadRecord, ReadSize,
      Evict, EvictFails, Unlock, Fill, Tick, vars

(* check turns a structure down by a record it has read, and by no other   *)
(* step.                                                                   *)
LEMMA TurnedDown ==
  ASSUME TypeOK, Next, NEW c \in Cleaner, pc[c] = "get", pc'[c] = "unlock", ~failed'[c]
  PROVE  cur[c] \in Structure /\ syncMap[cur[c]] # Absent
<1>1. ASSUME NEW b \in Cleaner, Open(b) \/ Step(b), b # c PROVE pc'[c] = pc[c]
  BY <1>1 DEF Open, Step, ListStructures, EndBatch, TryLock, TryLockFails, ReadRecord, ReadSize,
              Evict, EvictFails, Update, UpdateFails, Unlock, TypeOK
<1>2. ASSUME NEW s \in Session, Shutdown(s) \/ Crash(s) PROVE pc'[c] # "unlock"
  BY <1>2 DEF Shutdown, Crash, LeaveSession
<1>3. ASSUME NEW d \in Structure, Expire(d) \/ Fill(d) PROVE pc'[c] = pc[c]
  BY <1>3 DEF Expire, Fill
<1>4. ReadRecord(c)
  BY <1>1, <1>2, <1>3
  DEF Next, Tick, Open, Step, ListStructures, EndBatch, TryLock, TryLockFails, ReadSize,
      Evict, EvictFails, Update, UpdateFails, Unlock
<1>5. ~ Susceptible(c, syncMap[cur[c]])
  <2>1. failed' # [failed EXCEPT ![c] = TRUE]
    BY DEF TypeOK
  <2>2. pc' # [pc EXCEPT ![c] = "size"]
    BY DEF TypeOK
  <2> QED BY <1>4, <2>1, <2>2 DEF ReadRecord
<1> QED BY <1>5 DEF Susceptible, TypeOK, Holding

(* A map entry is not returned any more once its time to live has passed,  *)
(* even if the cluster has yet to remove it.                               *)
LapsedRecordsUnread ==
  [][\A c \in Cleaner :
       pc[c] = "get" /\ pc'[c] # "get" /\ ~failed'[c] /\ syncMap[cur[c]] # Absent =>
         now < syncMap[cur[c]].expires]_vars

(* If all cleaners use the same threshold and lapsed records are not read, *)
(* check keeps the promise of defaultConfig.yaml in spite of its confusion *)
(* of units: it turns a structure down only while less than the threshold  *)
(* has passed since the recorded clean.  With the run that violates the    *)
(* property this says that different thresholds are the only other cause.  *)
THEOREM EqualThresholdsElapse ==
  ASSUME \A b, c \in Cleaner : Threshold[b] = Threshold[c]
  PROVE  Spec /\ LapsedRecordsUnread => CleansOnceThresholdElapsed
<1>1. Init => LivesForAThreshold
  BY DEF Init, LivesForAThreshold
<1>2. /\ TypeOK /\ LivesForAThreshold /\ [Next]_vars
      /\ [\A c \in Cleaner :
            pc[c] = "get" /\ pc'[c] # "get" /\ ~failed'[c] /\ syncMap[cur[c]] # Absent =>
              now < syncMap[cur[c]].expires]_vars
      => [\A c \in Cleaner :
            /\ pc[c] = "get" /\ pc'[c] = "unlock" /\ ~failed'[c]
            => now < (syncMap[cur[c]].value \div NanosPerTick) + Threshold[c]]_vars
  <2> SUFFICES ASSUME TypeOK, LivesForAThreshold, Next,
                      NEW c \in Cleaner, pc[c] = "get", pc'[c] = "unlock", ~failed'[c],
                      syncMap[cur[c]] # Absent => now < syncMap[cur[c]].expires
               PROVE  now < (syncMap[cur[c]].value \div NanosPerTick) + Threshold[c]
    OBVIOUS
  <2>1. cur[c] \in Structure /\ syncMap[cur[c]] # Absent
    BY TurnedDown
  <2>2. syncMap[cur[c]].expires = WrittenAt(syncMap[cur[c]]) + Threshold[c]
    BY <2>1 DEF LivesForAThreshold
  <2> QED BY <2>1, <2>2 DEF WrittenAt
<1> QED
  BY <1>1, <1>2, LivesNext, TypeCorrect, PTL
  DEF Spec, LapsedRecordsUnread, CleansOnceThresholdElapsed
=============================================================================
