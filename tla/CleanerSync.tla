----------------------------- MODULE CleanerSync -----------------------------
(***************************************************************************)
(* The state cleaners of src/state/cleaner.go: every cleaner -- the batch  *)
(* map or queue cleaner of an instance, or the single cleaner a map runner *)
(* runs before its test loop -- goes through the structures in its scope;  *)
(* for each it locks the structure's key in the sync map, decides from the *)
(* last-cleaned record whether to clean, empties the structure, writes a   *)
(* new record whose time to live is the clean-again threshold, and         *)
(* unlocks.  Cleaners of all instances share one sync map and run          *)
(* concurrently.  Each remote call is a step of its own; it can fail, and  *)
(* a call that reports an error may nevertheless have taken effect.        *)
(*                                                                         *)
(* Hazelcast itself (locks, record expiry, loss of a client's session) is  *)
(* modelled from how the cleaners use it: TryLock does not wait, a lock    *)
(* belongs to the session of a client and can be taken again by the same   *)
(* session, closing the session frees its locks, and an expired record may *)
(* stay visible for a while before it disappears.                          *)
(***************************************************************************)
EXTENDS Integers, FiniteSets

CONSTANTS
  Cleaner,          \* cleaners
  Structure,        \* payload data structures
  Internal,         \* the structures whose name starts with "__"
  Session,          \* Hazelcast client sessions
  NoSession,        \* owner of a free key
  NoStructure,      \* cur[c] of a cleaner that is between structures
  SessionOf,        \* [Cleaner -> Session]
  Scope,            \* [Cleaner -> SUBSET Structure], service and prefix of the cleaner
  UseThreshold,     \* [Cleaner -> BOOLEAN], cleanAgainThreshold.enabled
  Threshold,        \* [Cleaner -> Nat], cleanAgainThreshold.thresholdMs in ticks
  ErrorBehavior,    \* [Cleaner -> {"ignore", "fail"}]
  StartTime,        \* the clock at start; a last-cleaned record is never before it
  Horizon,          \* bound on the clock
  NanosPerTick,     \* the unit time.Now().UnixNano() reports in
  TicksPerSecond    \* the unit time.Unix(sec, 0) expects

(* update stores UnixNano, check reads the value back as seconds.          *)
UnixNano(t) == t * NanosPerTick
TimeUnix(v) == v * TicksPerSecond

ASSUME SessionAssumption ==
  /\ NoSession \notin Session
  /\ NoStructure \notin Structure
  /\ SessionOf \in [Cleaner -> Session]

(* client.ValidateInt refuses thresholds below one.                        *)
ASSUME ConfigAssumption ==
  /\ Internal \subseteq Structure
  /\ Scope \in [Cleaner -> SUBSET Structure]
  /\ UseThreshold \in [Cleaner -> BOOLEAN]
  /\ Threshold \in [Cleaner -> Nat \ {0}]
  /\ ErrorBehavior \in [Cleaner -> {"ignore", "fail"}]

(* The present is far below the nanosecond count of any earlier moment     *)
(* read as seconds: that date lies billions of years ahead.                *)
ASSUME ClockAssumption ==
  /\ Horizon \in Nat /\ StartTime \in 1..Horizon
  /\ NanosPerTick \in Nat \ {0}
  /\ \A t \in StartTime..Horizon :
        UnixNano(t) \in Nat \ {0} /\ TimeUnix(UnixNano(t)) \in Nat /\ TimeUnix(UnixNano(t)) > Horizon

VARIABLES
  now,              \* the clock
  filled,           \* the structures that hold data
  syncMap,          \* [Structure -> record], last-cleaned records
  lock,             \* [Structure -> [owner, count]], key locks of the sync map
  pc,               \* [Cleaner -> step the cleaner takes next]
  todo,             \* [Cleaner -> SUBSET Structure], structures left in the batch
  cur,              \* [Cleaner -> structure whose lock check returned, or NoStructure]
  failed            \* [Cleaner -> BOOLEAN], the current clean returns an error

vars == <<now, filled, syncMap, lock, pc, todo, cur, failed>>

Absent == [value |-> 0, expires |-> 0]
FreeLock == [owner |-> NoSession, count |-> 0]

(* Steps taken with the lock of cur[c] held.                               *)
Holding == {"get", "size", "evict", "update", "unlock"}
PCs == {"off", "list", "next", "done"} \cup Holding

Init ==
  /\ now = StartTime
  /\ filled \in SUBSET Structure
  /\ syncMap = [d \in Structure |-> Absent]
  /\ lock = [d \in Structure |-> FreeLock]
  /\ pc = [c \in Cleaner |-> "off"]
  /\ todo = [c \in Cleaner |-> {}]
  /\ cur = [c \in Cleaner |-> NoStructure]
  /\ failed = [c \in Cleaner |-> FALSE]

-----------------------------------------------------------------------------
(* Helpers.  A definition named Mut... is a mutation of the next one, used *)
(* to check that the properties notice such a bug.                         *)

AfterStructure(c, err) ==
  IF err /\ ErrorBehavior[c] = "fail" THEN "done" ELSE "next"

RemainingAfter(c, err) ==
  IF err /\ ErrorBehavior[c] = "fail" THEN {} ELSE todo[c]

MutTodoWithout(c, d) == todo[c]

TodoWithout(c, d) == todo[c] \ {d}

Candidates(c, infos) == (infos \ Internal) \cap Scope[c]

LockAvailable(c, d) == lock[d] = FreeLock \/ lock[d].owner = SessionOf[c]

MutLockSucceeded(c, d) == TRUE

(* check goes on only if TryLock returned true.                            *)
LockSucceeded(c, d) == LockAvailable(c, d)

Acquired(c, d) == [owner |-> SessionOf[c], count |-> lock[d].count + 1]

Released(l) == IF l.count <= 1 THEN FreeLock ELSE [l EXCEPT !.count = l.count - 1]

(* time.Since(time.Unix(lastCleanedAt, 0))                                 *)
SinceCleaned(rec) == now - TimeUnix(rec.value)

MutSusceptible(c, rec) == rec = Absent \/ SinceCleaned(rec) < Threshold[c]

Susceptible(c, rec) == rec = Absent \/ SinceCleaned(rec) >= Threshold[c]

(* The locks left when the clients of sessions S close.                    *)
LocksWithout(S) == [d \in Structure |-> IF lock[d].owner \in S THEN FreeLock ELSE lock[d]]

-----------------------------------------------------------------------------
(* Actions of a cleaner.                                                   *)

(* Build: the configuration is read and the client connects.               *)
Open(c) ==
  /\ pc[c] = "off"
  /\ pc' = [pc EXCEPT ![c] = "list"]
  /\ UNCHANGED <<now, filled, syncMap, lock, todo, cur, failed>>

(* The structures in the cluster are listed and filtered; a listing that   *)
(* fails ends the batch.                                                   *)
ListStructures(c) ==
  /\ pc[c] = "list"
  /\ \/ \E infos \in SUBSET Structure :
          /\ todo' = [todo EXCEPT ![c] = Candidates(c, infos)]
          /\ pc' = [pc EXCEPT ![c] = "next"]
     \/ /\ pc' = [pc EXCEPT ![c] = "done"]
        /\ UNCHANGED todo
  /\ UNCHANGED <<now, filled, syncMap, lock, cur, failed>>

EndBatch(c) ==
  /\ pc[c] = "next" /\ todo[c] = {}
  /\ pc' = [pc EXCEPT ![c] = "done"]
  /\ UNCHANGED <<now, filled, syncMap, lock, todo, cur, failed>>

(* check up to TryLock: without a threshold, the record is not read.       *)
TryLock(c, d) ==
  /\ pc[c] = "next" /\ d \in todo[c]
  /\ LockSucceeded(c, d)
  /\ lock' = [lock EXCEPT ![d] = Acquired(c, d)]
  /\ todo' = [todo EXCEPT ![c] = TodoWithout(c, d)]
  /\ cur' = [cur EXCEPT ![c] = d]
  /\ pc' = [pc EXCEPT ![c] = IF UseThreshold[c] THEN "get" ELSE "size"]
  /\ UNCHANGED <<now, filled, syncMap, failed>>

(* GetMap or TryLock fails or finds the key locked: check returns an error *)
(* and no lock information, so nothing is unlocked -- not even a lock that *)
(* was granted but whose confirmation got lost.                            *)
TryLockFails(c, d) ==
  /\ pc[c] = "next" /\ d \in todo[c]
  /\ \/ lock' = lock
     \/ LockAvailable(c, d) /\ lock' = [lock EXCEPT ![d] = Acquired(c, d)]
  /\ todo' = [todo EXCEPT ![c] = RemainingAfter(c, TRUE) \cap TodoWithout(c, d)]
  /\ pc' = [pc EXCEPT ![c] = AfterStructure(c, TRUE)]
  /\ UNCHANGED <<now, filled, syncMap, cur, failed>>

(* check from Get to its return.                                           *)
ReadRecord(c) ==
  /\ pc[c] = "get"
  /\ \/ /\ pc' = [pc EXCEPT ![c] = IF Susceptible(c, syncMap[cur[c]]) THEN "size" ELSE "unlock"]
        /\ UNCHANGED failed
     \/ /\ pc' = [pc EXCEPT ![c] = "unlock"]
        /\ failed' = [failed EXCEPT ![c] = TRUE]
  /\ UNCHANGED <<now, filled, syncMap, lock, todo, cur>>

(* retrieveAndClean up to Size: an empty structure is skipped, but still   *)
(* recorded as cleaned.                                                    *)
ReadSize(c) ==
  /\ pc[c] = "size"
  /\ \/ /\ pc' = [pc EXCEPT ![c] = IF cur[c] \in filled THEN "evict" ELSE "update"]
        /\ UNCHANGED failed
     \/ /\ pc' = [pc EXCEPT ![c] = "unlock"]
        /\ failed' = [failed EXCEPT ![c] = TRUE]
  /\ UNCHANGED <<now, filled, syncMap, lock, todo, cur>>

(* EvictAll of a map, Clear of a queue.                                    *)
Evict(c) ==
  /\ pc[c] = "evict"
  /\ filled' = filled \ {cur[c]}
  /\ pc' = [pc EXCEPT ![c] = "update"]
  /\ UNCHANGED <<now, syncMap, lock, todo, cur, failed>>

EvictFails(c) ==
  /\ pc[c] = "evict"
  /\ filled' \in {filled, filled \ {cur[c]}}
  /\ pc' = [pc EXCEPT ![c] = "unlock"]
  /\ failed' = [failed EXCEPT ![c] = TRUE]
  /\ UNCHANGED <<now, syncMap, lock, todo, cur>>

MutNewRecord(c) == [value |-> UnixNano(now), expires |-> now]
MutWithoutTTL(c) == [value |-> UnixNano(now), expires |-> 0]

(* The record lives for the threshold of the cleaner that writes it,       *)
(* whether or not that cleaner applies it to itself.                       *)
NewRecord(c) == [value |-> UnixNano(now), expires |-> now + Threshold[c]]

Update(c) ==
  /\ pc[c] = "update"
  /\ syncMap' = [syncMap EXCEPT ![cur[c]] = NewRecord(c)]
  /\ pc' = [pc EXCEPT ![c] = "unlock"]
  /\ UNCHANGED <<now, filled, lock, todo, cur, failed>>

UpdateFails(c) ==
  /\ pc[c] = "update"
  /\ \/ UNCHANGED syncMap
     \/ syncMap' = [syncMap EXCEPT ![cur[c]] = NewRecord(c)]
  /\ pc' = [pc EXCEPT ![c] = "unlock"]
  /\ failed' = [failed EXCEPT ![c] = TRUE]
  /\ UNCHANGED <<now, filled, lock, todo, cur>>

(* The deferred releaseLock: its error is logged and nothing else, so the  *)
(* key may stay locked.  Then the batch loop goes on or stops.             *)
Unlock(c) ==
  /\ pc[c] = "unlock"
  /\ \/ lock' = [lock EXCEPT ![cur[c]] = Released(lock[cur[c]])]
     \/ UNCHANGED lock
  /\ todo' = [todo EXCEPT ![c] = RemainingAfter(c, failed[c])]
  /\ pc' = [pc EXCEPT ![c] = AfterStructure(c, failed[c])]
  /\ cur' = [cur EXCEPT ![c] = NoStructure]
  /\ failed' = [failed EXCEPT ![c] = FALSE]
  /\ UNCHANGED <<now, filled, syncMap>>

-----------------------------------------------------------------------------
(* Client sessions and the environment.                                    *)

Users(s) == {c \in Cleaner : SessionOf[c] = s}

(* The cleaners of s leave whatever step they are in.                      *)
LeaveSession(s) ==
  /\ pc' = [c \in Cleaner |-> IF c \in Users(s) THEN "off" ELSE pc[c]]
  /\ todo' = [c \in Cleaner |-> IF c \in Users(s) THEN {} ELSE todo[c]]
  /\ cur' = [c \in Cleaner |-> IF c \in Users(s) THEN NoStructure ELSE cur[c]]
  /\ failed' = [c \in Cleaner |-> IF c \in Users(s) THEN FALSE ELSE failed[c]]
  /\ UNCHANGED <<now, filled, syncMap>>

MutLocksAfterShutdown(s) == lock

LocksAfterShutdown(s) == LocksWithout({s})

(* The deferred client shutdown: at the end of the batch for a batch       *)
(* cleaner, at the end of the runner for a pre-run cleaner.                *)
Shutdown(s) ==
  /\ \E c \in Users(s) : pc[c] = "done"
  /\ \A c \in Users(s) : pc[c] \in {"done", "off"}
  /\ lock' = LocksAfterShutdown(s)
  /\ LeaveSession(s)

(* The Hazeltest instance dies at any point.                               *)
Crash(s) ==
  /\ \E c \in Users(s) : pc[c] \notin {"done", "off"}
  /\ lock' = LocksWithout({s})
  /\ LeaveSession(s)

(* The cluster drops a record once its time to live is over.               *)
Expire(d) ==
  /\ syncMap[d] # Absent /\ syncMap[d].expires <= now
  /\ syncMap' = [syncMap EXCEPT ![d] = Absent]
  /\ UNCHANGED <<now, filled, lock, pc, todo, cur, failed>>

(* A load runner, of whichever instance, puts data into a structure.       *)
Fill(d) ==
  /\ d \notin filled
  /\ filled' = filled \cup {d}
  /\ UNCHANGED <<now, syncMap, lock, pc, todo, cur, failed>>

Tick ==
  /\ now < Horizon
  /\ now' = now + 1
  /\ UNCHANGED <<filled, syncMap, lock, pc, todo, cur, failed>>

(* One clean after the other: the steps of c once it has its client.       *)
Step(c) ==
  \/ ListStructures(c) \/ EndBatch(c)
  \/ \E d \in Structure : TryLock(c, d) \/ TryLockFails(c, d)
  \/ ReadRecord(c) \/ ReadSize(c)
  \/ Evict(c) \/ EvictFails(c) \/ Update(c) \/ UpdateFails(c) \/ Unlock(c)

Next ==
  \/ \E c \in Cleaner : Open(c) \/ Step(c)
  \/ \E s \in Session : Shutdown(s) \/ Crash(s)
  \/ \E d \in Structure : Expire(d) \/ Fill(d)
  \/ Tick

Spec == Init /\ [][Next]_vars

(* Every remote call returns, with a result or an error (the client's      *)
(* invocation timeout), and deferred shutdowns run.  Nothing obliges a     *)
(* cleaner to start, an instance to crash or the clock to reach Horizon.   *)
FairSpec ==
  /\ Spec
  /\ \A c \in Cleaner : WF_vars(Step(c))
  /\ \A s \in Session : WF_vars(Shutdown(s))
-----------------------------------------------------------------------------
(* Properties.                                                             *)

Records == [value : {UnixNano(t) : t \in StartTime..Horizon}, expires : Nat \ {0}]
Locks == [owner : Session, count : Nat \ {0}]

(* Types, and the two facts every step relies on: cur[c] is set exactly    *)
(* while c holds a lock, and only then an error can be pending.            *)
TypeOK ==
  /\ now \in StartTime..Horizon
  /\ filled \in SUBSET Structure
  /\ syncMap \in [Structure -> Records \cup {Absent}]
  /\ lock \in [Structure -> Locks \cup {FreeLock}]
  /\ pc \in [Cleaner -> PCs]
  /\ todo \in [Cleaner -> SUBSET Structure]
  /\ cur \in [Cleaner -> Structure \cup {NoStructure}]
  /\ failed \in [Cleaner -> BOOLEAN]
  /\ \A c \in Cleaner : cur[c] # NoStructure <=> pc[c] \in Holding

(* While one cleaner is between check and releaseLock on a structure, no   *)
(* other cleaner is: nobody else reads or writes its last-cleaned record   *)
(* or empties it (cleaner.go, comment on check).                           *)
MutualExclusion ==
  \A b, c \in Cleaner : cur[b] = cur[c] /\ cur[b] # NoStructure => b = c

(* Each cleaner has a client of its own, as batch cleaners of different    *)
(* instances do.                                                           *)
OwnSessions == \A b, c \in Cleaner : SessionOf[b] = SessionOf[c] => b = c

(* The lock of a cleaner's current structure belongs to its session.       *)
HoldsLock == \A c \in Cleaner :
  cur[c] # NoStructure => lock[cur[c]].owner = SessionOf[c]

(* A positive answer of check stays true until the cleaner has acted on it.*)
LapsedWhileCleaning == \A c \in Cleaner :
  pc[c] \in {"size", "evict"} /\ UseThreshold[c] => syncMap[cur[c]] = Absent

(* The inductive invariant behind MutualExclusion and EmptiesOnlyLapsed.   *)
IInv == TypeOK /\ HoldsLock /\ LapsedWhileCleaning

(* A structure is only emptied by a cleaner at work on it, and if that     *)
(* cleaner applies a threshold no record of an earlier clean exists, so    *)
(* the time to live set by the last recorded clean has passed: an instance *)
(* starting later does not wipe data an earlier one has begun to load.     *)
EmptiesOnlyLapsed ==
  [][\A d \in filled \ filled' :
        \E c \in Cleaner : cur[c] = d /\ (UseThreshold[c] => syncMap[d] = Absent)]_vars

(* A key of the sync map is never left locked by a client that is gone,    *)
(* whichever calls failed on the way.                                      *)
OnlyOpenSessionsOwnLocks ==
  \A d \in Structure : lock[d] # FreeLock =>
    \E c \in Cleaner : SessionOf[c] = lock[d].owner /\ pc[c] # "off"

(* Together the cleaners implement the abstract registry.                  *)
Registry == INSTANCE CleanRegistry WITH
  cleaners <- [d \in Structure |-> {c \in Cleaner : cur[c] = d}],
  protected <- [d \in Structure |-> syncMap[d].expires]

ImplementsRegistry == Registry!Spec

(* Lost replies and failed unlocks leave keys locked, but not for ever:    *)
(* a locked key becomes free again.                                        *)
LockEventuallyFree ==
  \A d \in Structure : lock[d] # FreeLock ~> lock[d] = FreeLock

(* A cleaner that started ends, and its client with it, whatever the other *)
(* cleaners do: TryLock never waits.                                       *)
CleanersTerminate == \A c \in Cleaner : pc[c] # "off" ~> pc[c] = "off"

(* defaultConfig.yaml: a candidate is cleaned if the difference between    *)
(* the last cleaned timestamp and the current one reaches the threshold.   *)
CleansOnceThresholdElapsed ==
  [][\A c \in Cleaner :
       /\ pc[c] = "get" /\ pc'[c] = "unlock" /\ ~failed'[c]
       => now < (syncMap[cur[c]].value \div NanosPerTick) + Threshold[c]]_vars
=============================================================================
