# Hazeltest in TLA+

Hazeltest generates load for a Hazelcast cluster under test: an instance cleans
state left over by earlier tests, starts map and queue runners and a chaos
monkey, and reports on them through HTTP endpoints. Many instances usually run
against one cluster. This directory holds TLA+ models of the parts of Hazeltest
in which concurrency, failing remote calls or long sequences of calls decide
whether it works, TLC configurations that check them, and TLAPS proofs.

## 1. The system

| part | source | state | operations | interacts with |
|---|---|---|---|---|
| start-up | `hazeltest.go` | - | parse configuration, run cleaners, start API, map tester, queue tester, monkeys | all others |
| readiness | `api/endpoints.go` | `Up`, `numNonReadyActors`, `atLeastOneActorRegistered` | `RaiseNotReady`, `RaiseReady`, HTTP handlers | called by every actor |
| status registry | `api/status.go` | map of query functions | `RegisterStatefulActor`, `assembleActorStatus` | status gatherers |
| status gatherer | `status/gatherer.go` | channel of 10 updates, status map | `Listen`, `StopListen`, `AssembleStatusCopy` | fed by runners, loops, cleaners, monkey |
| state cleaners | `state/cleaner.go` | none of their own; sync maps in Hazelcast: key locks, last-cleaned records | `RunCleaners`, batch `Clean`, single `Clean`, `check`, `update`, `releaseLock` | each other through the cluster; load of other instances |
| map runners | `maps/runner.go`, `loadrunner.go`, `pokedexrunner.go` | state list | configure, raise not ready / ready, run the test loop | readiness, gatherer, test loop |
| boundary test loop | `maps/testloop.go` | per goroutine: mode, last and next action, key cache | operation chain, reset after the chain | remote map, counters |
| batch test loop | `maps/testloop.go` | counters | ingest all, read all, remove some | remote map, counters |
| queue runners and loop | `queues/*.go` | counters | put and poll goroutines per queue | remote queue, counters |
| member killer | `chaos/*.go` | discovered namespace, client set, kill count | choose a pod, delete it | Kubernetes |
| payload generator | `loadsupport/payloadgenerator.go` | per actor: size and number of uses | generate payload | load runner's goroutines |
| configuration, wrapper, logging | `client/`, `hazelcastwrapper/`, `logging/` | parsed values, client | parse, validate, forward, log (fatal events exit) | all |

What is hard about it:

- *Concurrent cleaners.* Instances start within milliseconds of each other and
  clean the same structures. Lock, decision, emptying, record and unlock are
  separate remote calls; each can fail, fail after taking effect, or be the last
  thing the instance does.
- *Local cache and remote map.* The boundary loop decides from a cache that
  follows the remote map only through the results of its calls.
- *Channels and shared counters.* Worker goroutines, runner and quit message
  share a bounded channel that the listener closes.
- *Readiness.* One counter for actors that start in any order, late, or give up.
- *Shared maps.* The goroutines of a runner can work on one map. Any of them can
  clean it, reset keys on it by a pattern, or destroy it, while others load it.
- *Full queues.* The capacity is checked, then a put waits without a timeout;
  the poll workers have a limited number of runs.
- *A cluster that changes.* A pod is chosen from a list and deleted by name
  later; client set and namespace are set up on first use, in a run that may
  fail.

What makes each part correct:

- cleaners: one cleaner per structure at a time; no emptying of what a recorded
  clean protects; no key locked for ever; they end;
- boundary loop: no action across a boundary; the cache is off only where a call
  failed or a key was lost; chains end;
- gatherer: the quit message is last; the final status is the last word; nobody
  blocks for ever;
- instance: no load before a successful clean; ready means all announced actors
  are, and is reached;
- map goroutines: what is read was ingested unless a neighbour cleared it;
  nothing stays behind; a goroutine touches its own keys only (which the reset
  does not achieve); payload sizes change on schedule;
- queue goroutines: nobody waits on a queue of its own, somebody always moves on
  a shared one, queues are empty in the end;
- member killer: kills where it listed, only what was ready if so configured,
  reports no kill that was none, ends.

## 2. Modules

| module | models | state ↔ code |
|---|---|---|
| `CleanRegistry` | abstract: what all cleaners promise together | who is at work on a structure, until when it is protected |
| `CleanerSync` | `state/cleaner.go` | `syncMap`, `lock`: the sync map's records and key locks; `pc`, `todo`, `cur`, `failed`: where each cleaner is in `runGenericBatchClean` / `runGenericSingleClean`; `filled`: payload structures holding data |
| `CleanerSyncProofs` | proofs about `CleanerSync` | |
| `MCCleanerSync` | TLC instances of it | |
| `BoundaryLoop` | one goroutine of the boundary loop | `mode`, `last`, `next`: `modeCache`, `actionCache`; `inserted`, `available`: the key caches; `remote`: its keys in the map; `info`: its entry in the payload generator; `Neighbour`: the loop as `MapRun` sees it |
| `BoundaryLoopProofs` | proofs about it | |
| `MCBoundaryLoop` | TLC instances of it | |
| `StatusView` | abstract: what the status promises to its readers | which values were counted and not shown yet, what is shown |
| `StatusGatherer` | `status/gatherer.go` and both counter trackers | `updates`, `closed`, `status`, `finished`; `worker`, `pending`: goroutines in `increaseCounter` |
| `StatusGathererProofs`, `StatusViewProofs` | proofs about it; that it implements `StatusView` | |
| `InstanceLifecycle` | `hazeltest.go`, `RunCleaners`, the actors' launch, `api/endpoints.go` | `up`, `registered`, `numNonReadyActors`: the `readiness` struct; `pc`: where each actor's goroutine is |
| `InstanceLifecycleProofs` | proofs about it | |
| `PayloadGenerator` | `loadsupport/payloadgenerator.go` | operators only: `Generated` maps an actor's entry to the entries a call can leave |
| `MapRun` | `runWrapper`, the batch loop and resets of `maps/testloop.go`; extends `PayloadGenerator` | `pc`, `run`, `pos`, `toDelete`: where each map goroutine is; `stored`: keys in the Hazelcast maps; `info`: `payloadConsumingActors`; `sizes`: history of the payloads' sizes |
| `MapRunProofs`, `MCMapRun` | proofs about it, TLC instances of it | |
| `QueueLoop` | `queues/testloop.go` | `putsLeft`, `pollsLeft`: what `runElementLoop` has left; `waiting`: workers inside `Put`; `size`: the queues' lengths |
| `QueueLoopProofs`, `MCQueueLoop` | proofs about it, TLC instances of it | |
| `MemberKiller` | `causeChaos` of `chaos/monkeys.go`, `chaos/memberaccess.go` | `clientset`, `namespace`, `numMembersKilled` as in the code; `chosen`: the member between `choose` and `kill`; `existing`, `ready`, `terminating`: the pods |
| `MemberKillerProofs`, `MCMemberKiller` | proofs about it, TLC instances of it | |

How they fit together: `CleanerSync` implements `CleanRegistry`,
`StatusGatherer` implements `StatusView`. The cleaner
that `MapRun` calls before a run is one of `CleanerSync`, seen here by its
outcome only. `BoundaryLoop` looks at one boundary goroutine in detail and at
the others as `Wipe`; `MapRun` looks at the goroutines together and at a
boundary chain only by what it does to the map and to the payload generator. That both speak of one program
is checked and proved: every step of `BoundaryLoop` is a step that `MapRun`
attributes to its boundary goroutine (`BehavesAsNeighbour`). The counters that `MapRun` and
`QueueLoop` leave out are in `StatusGatherer`, the actors' launch is in
`InstanceLifecycle`.

Definitions whose name begins with `Mut` are mutations of the definition that
follows (a dropped guard, a missing reset, a swapped order). They are never used
by a specification; substituted for the original they show that a property
notices such a bug.

### CleanerSync

A cleaner takes one action per remote call: `ListStructures`, `TryLock`,
`ReadRecord`, `ReadSize`, `Evict`, `Update`, `Unlock`, and a failing variant of
each. A failing variant covers a call without effect and one whose effect took
place although an error came back. `check` is `TryLock` plus `ReadRecord`: with
`UseThreshold` off it returns after the lock. `Shutdown` is the deferred client
shutdown, `Crash` the end of the process at any point; both free the session's
locks. `Open` stands for building a cleaner with a new client, so a cleaner can
run again in the same behaviour, as instances get restarted. One key space
stands for the two sync maps (of maps and of queues), which never interact.

Not in `src/`, modelled from its use: key locks belong to a client's session and
can be taken again by it; closing the session frees them; a record disappears at
some time after its time to live has passed. The sync map's locks have no lease
and the cleaners pass no lock context, so all goroutines sharing a client own
locks in common.

Time is counted in ticks. The unit error of the code is kept: `UnixNano`
multiplies by `NanosPerTick`, `TimeUnix` by `TicksPerSecond`, and the only thing
assumed about them (`ClockAssumption`) is that a nanosecond count read as
seconds is a date in the far future. `time.Since` saturates in Go; a large
negative duration compares as one either way.

### BoundaryLoop

`Decide` is one iteration of `runOperationChain` up to the remote call:
`checkForModeChange`, `determineNextMapAction`, the loop index step back for
reads, `chooseNextMapElement`. `ActSucceeds` and `ActFails` are
`executeMapAction` with the cache update; before an insert `AssemblePayload` calls
the payload generator if sizes vary, whatever becomes of the insert. `Reset` and `ResetFails` are
`resetAfterOperationChain`, where mode and last action are cleared before the
remote call and the key caches only after it succeeded. `Wipe` is somebody else
evicting or destroying the map, or removing keys by a pattern, which can fail
part-way: it takes all keys or some. The source
data is `1..NumElements`; `First` is the element an insert falls back to when
all are inserted. Boundaries are compared after rounding to a
number of elements, as in the code. `doubtful` is a history variable: elements
whose last insert or remove failed, or whose key was lost to others or to a
reset that failed part-way. `wiped` is another: somebody cleared the map since
the run began.

`Neighbour` is `MapRun` for one goroutine, with the loop's variables in place of
its own. `MapRun` merges a read with the action before it, so the position there
is one ahead of the loop index while a read is pending (`NeighbourPos`), and a
read is a stutter. Batch variables are constants, and there is no shared map:
what others do to the map is `Wipe` in both.

### StatusGatherer

The runner (`main`), the workers and the listener are separate processes on a
bounded sequence. `Increase` computes a value under the tracker's mutex,
`SendIncrease` sends it after the unlock. State changes of the runner are
reduced to the first and the last one. `lastSent` is a history variable.

`StatusView` knows nothing of goroutines and channel. It has the counters, the
values counted but not shown, and what is shown: the runner's start, then for
each counter its initial value followed by every value it took, once each and in
any order, then the end of the runner, then that the status is finished. The
refinement maps the values not shown to those in the channel, those a worker
holds between unlock and send, and the initial values not sent yet.

### InstanceLifecycle

Each actor: disabled or misconfigured (`StaysOut`), or `RaiseNotReady`, then one
of `RaiseReady`, `GivesUp` (returns without `RaiseReady`; map runners only) and
`DiesFatally` (a log event with fatal level, which exits the process; all
runners). A queue runner can end the process later, too: `DiesInLoop` is the
fatal `GetQueue` error in its test loop, after `RaiseReady`. The member killer
has none of the last three. The mutex makes
`RaiseNotReady` and `RaiseReady` atomic. The HTTP handlers only read and are
left out.

### MapRun and PayloadGenerator

`GetMap`, `Clean` and `Destroy` with their failing variants are the calls of
`runWrapper` around the loop; `Destroy` is deferred after `GetMap`, so a
goroutine whose clean failed with behaviour "fail" destroys the map as well. In
the batch loop every remote call is an action: `IngestFound` / `IngestMissing`,
`Set`, `ReadFound` / `ReadNil`, `BeginRemove` (draws `numElementsToDelete`),
`RemoveFound` / `RemoveMissing`, `Remove`, and failing variants. An error ends
the run (`EndRun`), which counts as one. A failed `Set` or `Remove` may have
taken effect.

The outcomes of the pre-run clean are three: `Clean` empties the map,
`CleanSkips` finds it protected by a recent clean or empty, `CleanFails` is any
error, a locked key included; after it `errorBehavior` decides.

A key is a pair of map number and element, as in `assembleMapKey`; the client
id, which is the same for all goroutines of the process and different for
others, is left out. `shared` is a map name without the index. `MatchingKeys` is
the predicate of the reset, `<client>-<map>-<number>%`, read as the pattern it
is: it also matches longer numbers. In a boundary run `ChainAction` inserts or
removes any own key; which one, and when a chain ends, is `BoundaryLoop`'s
business.

`AssemblePayload` is `getOrAssemblePayload`: a batch write (`IngestMissing`) and
a boundary insert (`ChainAction`) call it before the remote call, and with
payloads of variable size it calls the generator (`Generated`), so that a write
which fails has used up a payload, too. `NoInfo` stands for no entry: the call
that creates one draws a size at once, so no later call finds it empty. An actor
name contains the map number, so no two goroutines write one entry. `wiped` and
`sizes` are history variables; `sizes[g]` lists the size of every payload that
goroutine `g` was given.

### QueueLoop

Each goroutine has a put worker and a poll worker. `CheckFails`, `QueueFull` and
`CallPut` are the three outcomes of the capacity check, `Put` and `PutFails` the
two of the put that follows: between check and put others move. `Put` is enabled
only while there is room. `GetQueueFails` is logged with fatal level, which ends
the process (`up`). `Destroy` follows when both workers are done; its error is
dropped, recorded in the history variable `lost`. Nested loops over runs and
elements are one countdown, since nothing depends on where a run ends. A
disabled operation is a countdown from zero. Sleeps and batch sizes are left
out. Values are not distinguished, only counted.

### MemberKiller

One action per step of a run: the draw against `chaosProbability`, `getOrInit`,
`getOrDiscover`, list and choice, kill. `choose` and `kill` each ask for client
set and namespace; in `kill` both are set up already, which `KillsWhereItListed`
says, so `Kill` does not ask again. `DiscoveredFrom` follows the order of the
code: the file wins over the environment, an unreadable file is an error in any
case. With `targetOnlyActive` a pod is drawn as many times as there are pods,
with replacement: some ready pod, or none although one is there (`NoneFound`).
`Cluster` lets pods become ready, unready, disappear and return under their name
between any two steps.

## 3. What TLC checks

| run | instance | properties |
|---|---|---|
| `cleaner_safety` | 2 batch cleaners in own sessions; one applies no threshold; thresholds 2 and 1; behaviours "fail" and "ignore"; 2 payload structures, 1 internal; clock 1..3 | `TypeOK`, `MutualExclusion`, `OnlyOpenSessionsOwnLocks`, `EmptiesOnlyLapsed`, `ImplementsRegistry` |
| `cleaner_liveness` | the same with both thresholds applied, no internal structure, clock 1..2 | `LockEventuallyFree`, `CleanersTerminate` |
| `boundary_loop` | 3 elements, chains of 3 counted actions, 2 runs, 4 configurations, one with sizes drawn every 2 payloads | `TypeOK`, `CacheTracksRemote`, `RespectsBoundaries`, `BehavesAsNeighbour`, `LoopEnds` |
| `status_gatherer` | 3 workers, 2 counters up to 2, channel of 2 | `TypeOK`, `NoSendAfterClose`, `FinishedIsFinal`, `NeverOvercounts`, `ImplementsView`, `EventuallyFinished` |
| `instance_lifecycle` | 2 map runners, queue runner, monkey, 2 cleaners | `TypeOK`, `CleanedBeforeLoad`, `UpMeansReady`, `ReadyMeansUp`, `EventuallyReady` |
| `map_run` | map goroutines 1 and 10, 2 elements, 2 runs; 4 configurations: batch on a shared cleaned map, batch on own maps next to other instances, boundary chains of 2 on a shared map with and without reset; in the second and the last with sizes drawn every 3 payloads | `TypeOK`, `ReadsWhatItIngested`, `LeavesNothingBehind`, `SizeServesItsSteps`, `GoroutinesEnd` |
| `queue_loop` | 3 goroutines, capacity 1, 2 puts and 1 or 0 polls each; own queues, a shared one, a shared one with other instances, a shared one without polls | `TypeOK`, `OwnQueueNeverBlocks`, `FullQueueHasAMover`, `QueuesEndEmpty`, `GoroutinesEnd`, `PollersEnd` |
| `member_killer` | 3 pods, 3 runs; in cluster with and without environment variable, out of cluster; with and without `targetOnlyActive` and grace period | `TypeOK`, `KillsWhereItListed`, `KillsAreReal`, `TargetsWereReady`, `MonkeyEnds` |

What the others show. `BehavesAsNeighbour` has little slack: a chain may touch
the map `chainLength` times at most, reads notwithstanding, only its own keys,
and clears them at its end and only if it is to; and it asks the payload
generator once for every insert it tries, and for nothing else. `LoopEnds` is
about the reads that take the loop index back (`maps/testloop.go:336`): no mix of
results can make a chain run for ever. `ImplementsView` says more of
the order of messages than `FinishedIsFinal` and `NeverOvercounts`: no value is
lost, shown twice, or shown after the runner's end, whichever goroutine gets to
send first; only the order of two values of one counter is left open, as it is
in the code (`maps/testloop.go:149`). `UpMeansReady` and `ReadyMeansUp` make the
flag exact whenever an actor has announced itself, with launches, failures and
late actors in any order.

What the last three show. `ReadsWhatItIngested`: after any sequence of failed
runs a goroutine that comes to read has all its keys, so a nil read points to a
neighbour that cleaned, reset or destroyed the map. `LeavesNothingBehind`: once
a goroutine's own `Destroy` has succeeded its keys never come back, although
others recreate the map. `SizeServesItsSteps` is about the sizes themselves:
cut into blocks of `SameSizeStepsLimit`, the payloads a goroutine was given have
one size per block, through failed writes, across runs and in both loops; and at
the end of a block any size can be the next one, so it is drawn anew there. A
generator that draws too early, too late or on every call breaks it.
`OwnQueueNeverBlocks`: check and put are as good as atomic on a queue nobody
else uses. On a shared queue a put can wait, also when all polls are used up,
but `FullQueueHasAMover` shows that somebody else will get it out: the goroutine
that filled the queue is not waiting and destroys it in the end. So everybody
ends (`GoroutinesEnd`), except when the `Destroy` was lost, the process died or
other instances use the queue: a fill by another instance can block a put for
ever. `KillsWhereItListed` relates two independent lookups. `TargetsWereReady`
is as much as the code gives: the pod may have become unready, or been replaced
by a new one of the same name, since it was listed.

Why the bounds are enough for what they show. Cleaners interact only on one key
at a time, and pairwise: two of them, with every failure on either side, give
every conflict; a second structure lets a batch go on or stop after an error;
three clock values let a record of threshold 1 lapse while one of threshold 2
lasts. Three elements let the boundary loop be below, between and above distinct
rounded boundaries, chains of three leave room for a drain after a fill, and two
runs for a chain that starts from the state of another. A channel smaller than
the number of workers lets all of them be blocked in a send; a counter of two
lets a worker overtake another. 1 and 10 are the smallest map numbers of which
one begins with the digits of the other; two elements let a run fail before,
between and after writes, two runs let one pick up from the other; a size for
three payloads spans runs of two writes, and chains of two inserts. With capacity one a single put fills a queue;
the third goroutine can fill it again while two wait. Three pods and three runs
let a pod be killed, come back and be listed again while others are not ready.

`CHECK_DEADLOCK FALSE` is set where the system stops: the boundary loop after
its runs, an exited process, an instance whose actors have all ended, map
goroutines after their runs, queue workers that are done or, with another
instance's values in their queue, wait for ever, and a monkey that is done in a
cluster at rest.

### Disagreements with the documentation

Four runs end in a violation. Each checks one sentence of the repository.

- `cleaner_threshold` / `CleansOnceThresholdElapsed`:
  `client/defaultConfig.yaml:117-118` says a candidate is cleaned once the
  difference between last-cleaned and current timestamp reaches the threshold.
  `update` stores nanoseconds, `check` reads them as seconds (`cleaner.go:353`,
  `368`). An existing record therefore always says no; what re-enables cleaning
  is its expiry, set by whoever wrote it. With equal thresholds that amounts to
  the documented behaviour, with different ones it does not: the instance with
  threshold 1 leaves the structure alone until the other instance's threshold of
  2 is over. `EqualThresholdsElapse` proves the harmless half: with one threshold
  for all, and a cluster that does not return lapsed records, the sentence
  holds.
- `cleaner_shared` / `MutualExclusion`: the comment on `check`
  (`cleaner.go:116-118`) says the lock keeps every other actor from the record
  between check and update. The map goroutines of one runner share one cleaner
  and one client (`maps/testloop.go:536-592`). If they also share the map, all
  of them get the lock. This rests on the ownership of Hazelcast key locks
  described above.
- `boundary_reset` / `NeverAboveUpper`: `client/defaultConfig.yaml:437-438` says
  that the loop does not ingest more than the upper boundary. After a reset
  whose `RemoveAll` failed, the mode is empty and the cache is not; the first
  decision of the next chain is then an insert, also at the upper boundary.
  `OnlyFailedResetsOverfill` proves that nothing else gets there: without such a
  reset the sentence holds, if the boundaries do not round to the same number.
- `map_keys` / `ResetLeavesOthers`: `client/defaultConfig.yaml:422-423` says the
  reset leaves the values of other test loops of the same runner untouched.
  `assemblePredicate` (`maps/testloop.go:208-212`) builds a pattern that ends in
  the bare map number, so on a shared map goroutine 1 also clears goroutine 10,
  whose cache keeps believing in its keys. `TenGoroutinesApart` proves the
  sentence for a runner of up to ten maps, `ResetsApart` for goroutines on maps
  of their own, or whose numbers are never a prefix of one another. (0 is a
  prefix of no other number: numbers have no leading zeros.)

Noted without a run of its own: the log line "out of n candidate pods, none
was ready" (`chaos/memberaccess.go:289`) can be wrong, as drawing is with
replacement.

### Fairness

- `CleanerSync!FairSpec`: weak fairness of each cleaner's steps and of the
  deferred shutdowns. Remote calls return, with a result or with an error after
  the client's invocation timeout; `TryLock` does not wait. Nothing makes a
  cleaner start, an instance crash, a record expire or the clock advance.
- `BoundaryLoop!FairSpec`: the goroutine is scheduled and its calls return, with
  any outcome. Nothing is assumed about `Wipe`.
- `StatusGatherer!FairSpec`: goroutines are scheduled. Strong fairness of a
  worker's steps because its send competes for room in the channel: Go's channel
  queues blocked senders first in, first out. Every worker ends, as its runs are
  counted.
- `InstanceLifecycle!FairSpec`: goroutines are scheduled, and what an actor does
  before its test loop ends well or badly. The loop need not end.
- `MapRun!FairSpec`: each goroutine is scheduled and its calls return, with any
  outcome. Nothing is assumed about `Wipe`, and a chain may end at any length up
  to `chainLength`.
- `QueueLoop!FairSpec`: workers are scheduled and calls return, except `Put` on
  a full queue, which nothing forces to return (`Returns`), neither well nor
  with an error.
- `MemberKiller!FairSpec`: the monkey's goroutine is scheduled and its calls
  return. The cluster owes nothing.

## 4. What is proved

All with TLAPS, for any values of the constants that satisfy the named
assumptions.

`CleanerSyncProofs`. `TypeCorrect` is inductive as it stands, because `TypeOK`
includes that `cur[c]` is set exactly in the steps taken with a lock held.
`MutualExclusion` is not inductive: nothing in it says why a second `TryLock`
fails. `HoldsLock` does (the lock of a cleaner's current structure belongs to
its session), and together with `OwnSessions` (each cleaner has a client of its
own, as batch cleaners of different instances have) it implies exclusion:
`Exclusion`. Without `OwnSessions` the theorem is false, see `cleaner_shared`.
`EmptiesOnlyLapsed` needs a third part, `LapsedWhileCleaning`: when `check` said
yes to a cleaner with a threshold, no record exists, and this remains so until
that cleaner writes one, since only holders of the lock write. `IInvHolds` is
the conjunction, `OnlyLapsedEmptied` the action property. `ClockAssumption`
enters here: a record that exists is never susceptible.
`CleanersImplementRegistry` maps each step to a step of `CleanRegistry` or to a
stutter, action by action; the refinement maps `cleaners` to the cleaners whose
current structure it is, and `protected` to the record's expiry.

`OpenOwners`, a session that owns a lock is open, needs no more than the types:
only an open cleaner takes a lock, and leaving a session frees all of its locks.
It holds for shared sessions, too.

`EqualThresholdsElapse` rests on `LivesForAThreshold`: a record expires some
cleaner's threshold after the time written in it, which `UnixNanoInverse` gets
back from the nanoseconds. Its hypothesis `LapsedRecordsUnread` is what
Hazelcast promises of entries past their time to live; the specification itself
lets a lapsed record be read until `Expire`.

`InstanceLifecycleProofs`. The inductive invariant is the conjunction of
`TypeOK`, `CleanedBeforeLoad`, `UpMeansReady` and `OffBeforeTesting` (no actor exists before the
testers are started). `numNonReadyActors` is the cardinality of the set of
actors that announced themselves and are not ready; the proof shows that every
step adds or removes the one element that the code's increment and decrement
stand for. `ReadinessNeverStuck` adds `ReadyMeansUp` to it: the last decrement
finds the counter at zero because the counter is exact, and sets the flag.

`MapRunProofs`. `Types` adds to `TypeOK` that a goroutine inside a run has runs
left (`BegunRuns`), without which `run` could leave its range.
`ReadsWhatItIngested` is not inductive: it speaks of the reading phase only.
`Progress` says it for the ingesting one (all elements before the current
position are stored, unless the map was wiped), and is proved goroutine by
goroutine: `Frame` says that a step of one goroutine adds no keys of another,
and takes none without setting its `wiped`. `LeavesNothingBehind` follows from
the same `Frame` and from the goroutine's own steps.

`SizesKeepSchedule`: that the sizes so far are uniform in each block
(`Uniform`) is not inductive, as nothing ties the next size to the last one.
`OnSchedule` adds that the generator's entry counts the payloads since the
current size was drawn, and holds the size of the last one. A call either stays
within the block and appends that same size (`AppendedUniform`), or finds the
block full and starts another; which of the two is a matter of division with
remainder, for which `Quotient` gives the solver what it needs. `StepAssembles`
says that a goroutine's step assembles one payload or none, in any of its three
places, so that the argument is made once.

`ResetsApart` and `TenGoroutinesApart` need nothing but the types and the
decimal arithmetic of `BeginsWith` (`DigitsDiffer`): a one-digit number is a
prefix of itself and of numbers above nine.

`QueueLoopProofs`. `TypeOK`, `OwnQueueNeverBlocks`, `FullQueueHasAMover` and
`QueuesEndEmpty` are inductive together. The proof first sums up the eleven actions
of a goroutine in the six things they can do to a queue and its users (`Effect`:
pass, enter or leave a put, drain, begin, end), then shows each invariant for
those. The case that matters is `Leaves`: whoever fills the last place has just
stopped waiting, and is the mover. `NeverStuck` draws the conclusion: as long as
somebody has work left on a queue (one that other instances leave alone, and
whose `Destroy` was not lost) somebody on it has a step to take (`CanMove`). That
is freedom from deadlock queue by queue, which TLC's deadlock check, being
global, would not tell.

`MemberKillerProofs`. The invariant follows the run: from `namespace` on the
client set is there, from `list` on the namespace is, in `kill` it is the one
listed in, and a target was ready when listed. `accepted` is bounded by the runs
begun.

`BoundaryLoopProofs`. `Counts` adds that loop index and run number stay in range
although a read takes the index back. `CacheTracksRemote` is inductive with the
types; `RespectsBoundaries` follows from the definition of the next action step
by step, for any boundaries after rounding. `OnlyFailedResetsOverfill` adds
`FillsBelowUpper`: a chain without a mode has an empty cache, and an insert that
was decided was decided below the boundary. A failed reset breaks the first
part, and only that. `AlwaysFindsAnElement` proves what comments of
`chooseNextMapElement` only hope: a read or remove is never asked of an empty
cache.

`ActsAsNeighbour` proves `BehavesAsNeighbour`. The mapping is expanded once per
action of `MapRun` (lemmas `As...`), in terms of the variables of the loop; then
each action of the loop is matched with one of them or a stutter (lemmas
`...Maps`). `AsAssemblePayload` does the same for the payload an insert asks for. A
counted action is possible in `MapRun` only while its position has
not passed `chainLength`, which is where the range of the loop index is needed.

`StatusGathererProofs`. Four layers: `Workers` (who may still send, and that all
are done when the quit message is sent), `QuitIsLast` (nothing behind the quit
message, nothing after the close), `Latest` (the status is the last value sent,
or a later one of that counter is in the channel), `Counted` (no value in flight
exceeds the count). They give `ClosedForGood`, `FinalWord` and `NoOvercount`.

`StatusViewProofs`. `GathererImplementsView` needs to know what is where in the
channel: `StartingFirst`, `CompleteLast`, `CountsComplete` (a runner that ends
without completing has counted nothing), `ListenerStates`, and `Distinct` (no
two values of one counter in flight are equal, and an initial value is ahead of
all counted ones). With them each step maps to a step of `StatusView` or a
stutter: a send is a stutter, since it moves a value from a worker to the
channel; the increase under the mutex is `Count`; a receive is `Show`,
`ShowStarting` or `ShowComplete`, depending on the message.

Step bounds. Liveness under fairness is out of the prover's reach, but its
safety half is not: `LoopRunsOutOfSteps`, `GoroutinesRunOutOfSteps` and
`WorkersRunOutOfSteps` exhibit a natural number that every step of a goroutine
lowers and that no step of anybody else raises, for any lengths, numbers of runs
and results of calls. So no retry, no read that takes the index back, and no
neighbour can make a loop go on for ever. For the boundary loop the bound gives
two steps to each action and counts a pending read, as no read follows a read;
for map goroutines it adds up phases and elements; for queue workers it is the
two countdowns. What remains of `LoopEnds` and `GoroutinesEnd` is
that a goroutine that is not done has a step to take (`AlwaysFindsAnElement` and
`NeverStuck` are that for the two cases in doubt) and is scheduled.

Only model-checked: every liveness property as such, since fairness and
`ENABLED` are out of the prover's reach.

## 5. Not modelled

Log output and formatting; the YAML decoding and key paths of the configuration
(its values are constants of the modules); where elements come from and the
bytes of payloads; the HTTP handlers and the status registry, which only read;
the client's UUID; Helm charts. Sleeps are not modelled: they only delay, and
every interleaving is considered anyway. `readinessHandler` reads the flag
without the mutex, once for the code and once for the body, so a body can
contradict its status code; no probe looks at the body.

## 6. What could follow

Every component with state or concurrency of its own has a module. What is left
is composition in larger instances: cleaners of several instances together with
the map goroutines they clean for (`MapRun` uses only the cleaner's outcome),
and queue goroutines of two instances, each with its own countdown, in place of
`OthersAct`. To be proved: step bounds for the cleaners, the workers of the
gatherer and the member killer.
