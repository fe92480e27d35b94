--------------------------- MODULE StatusGatherer ---------------------------
(***************************************************************************)
(* The status of one actor: src/status/gatherer.go, fed by a runner and    *)
(* its test loop.  The runner's goroutine sends state changes and initial  *)
(* counter values; the test loop's worker goroutines increase shared       *)
(* counters and send the new values; all go through one bounded channel to *)
(* a listener goroutine that writes the status map.  When the workers are  *)
(* done, the runner sends the quit message, on which the listener marks    *)
(* the status finished and closes the channel.  Sending on a closed        *)
(* channel would crash the instance.                                       *)
(***************************************************************************)
EXTENDS Integers, Sequences

CONSTANTS
  Worker,       \* the test loop's goroutines, one per map, or put and poll of a queue
  Counter,      \* the counters of the test loop
  Capacity,     \* size of the channel, 10 in NewGatherer
  MaxCount      \* bound on each counter

StateKey == "currentState"
Unset == -1                    \* a key that is not in the status map
Starting == 1                  \* the runner's states, as far as they are told apart
Complete == 2

Key == Counter \cup {StateKey}
Message == [key : Key, value : Nat]
Quit == [key |-> "none", value |-> 0]    \* Update{}, its key is the empty string

(* No counter is called like the state, or like the quit message's key.    *)
ASSUME GathererAssumption ==
  /\ Capacity \in Nat \ {0} /\ MaxCount \in Nat
  /\ Counter \cap {StateKey, Quit.key} = {}

VARIABLES
  main,         \* the runner's goroutine: "launch", "init", "wait", "quit", "ended"
  uninit,       \* counters whose initial value is not sent yet
  counters,     \* [Counter -> Nat], mapTestLoopCountersTracker.counters
  worker,       \* [Worker -> "off", "idle", "send" or "done"]
  pending,      \* [Worker -> Message], the update a worker in "send" has to send
  updates,      \* the channel
  closed,       \* whether it is closed
  listener,     \* the listener's goroutine: "start", "receive" or "ended"
  status,       \* [Key -> Nat or Unset], the status map
  finished,     \* status["finished"]: "absent", "false" or "true"
  lastSent      \* history: the value last put into the channel for a key

vars == <<main, uninit, counters, worker, pending, updates, closed, listener, status,
          finished, lastSent>>

Init ==
  /\ main = "launch" /\ uninit = Counter
  /\ counters = [k \in Counter |-> 0]
  /\ worker = [w \in Worker |-> "off"]
  /\ pending = [w \in Worker |-> Quit]
  /\ updates = <<>> /\ closed = FALSE
  /\ listener = "start"
  /\ status = [k \in Key |-> Unset]
  /\ finished = "absent"
  /\ lastSent = [k \in Key |-> Unset]

-----------------------------------------------------------------------------
MutHasRoom == Len(updates) <= Capacity

(* A send blocks while the channel is full.                                *)
HasRoom == Len(updates) < Capacity

Send(msg) ==
  /\ HasRoom
  /\ updates' = Append(updates, msg)
  /\ lastSent' = [lastSent EXCEPT ![msg.key] = msg.value]

SendState(state) == Send([key |-> StateKey, value |-> state])

MutAfterAbort == "ended"

(* The quit message is sent by a defer, so also after an early return.     *)
AfterAbort == "quit"

(* The runner.  It announces its start, and may give up before it has a    *)
(* test loop (configuration not valid, runner disabled, no elements).      *)
Launch ==
  /\ main = "launch"
  /\ SendState(Starting)
  /\ main' \in {"init", AfterAbort}
  /\ UNCHANGED <<uninit, counters, worker, pending, closed, listener, status, finished>>

(* The counters tracker's init: one message per counter.                   *)
InitCounter(k) ==
  /\ main = "init" /\ k \in uninit
  /\ Send([key |-> k, value |-> 0])
  /\ uninit' = uninit \ {k}
  /\ UNCHANGED <<main, counters, worker, pending, closed, listener, status, finished>>

StartWorkers ==
  /\ main = "init" /\ uninit = {}
  /\ main' = "wait"
  /\ worker' = [w \in Worker |-> "idle"]
  /\ UNCHANGED <<uninit, counters, pending, updates, closed, listener, status, finished, lastSent>>

MutWorkersDone == \E w \in Worker : worker[w] = "done"

(* wg.Wait in runWrapper                                                   *)
WorkersDone == \A w \in Worker : worker[w] = "done"

ReportComplete ==
  /\ main = "wait" /\ WorkersDone
  /\ SendState(Complete)
  /\ main' = "quit"
  /\ UNCHANGED <<uninit, counters, worker, pending, closed, listener, status, finished>>

StopListen ==
  /\ main = "quit"
  /\ HasRoom
  /\ updates' = Append(updates, Quit)
  /\ main' = "ended"
  /\ UNCHANGED <<uninit, counters, worker, pending, closed, listener, status, finished, lastSent>>

MutStored(k) == counters

Stored(k) == [counters EXCEPT ![k] = counters[k] + 1]

(* The workers.  increaseCounter computes the new value under its mutex    *)
(* and sends it after the unlock, so another worker may overtake.          *)
Increase(w, k) ==
  /\ worker[w] = "idle" /\ counters[k] < MaxCount
  /\ counters' = Stored(k)
  /\ pending' = [pending EXCEPT ![w] = [key |-> k, value |-> counters[k] + 1]]
  /\ worker' = [worker EXCEPT ![w] = "send"]
  /\ UNCHANGED <<main, uninit, updates, closed, listener, status, finished, lastSent>>

SendIncrease(w) ==
  /\ worker[w] = "send"
  /\ Send(pending[w])
  /\ pending' = [pending EXCEPT ![w] = Quit]
  /\ worker' = [worker EXCEPT ![w] = "idle"]
  /\ UNCHANGED <<main, uninit, counters, closed, listener, status, finished>>

WorkerEnds(w) ==
  /\ worker[w] = "idle"
  /\ worker' = [worker EXCEPT ![w] = "done"]
  /\ UNCHANGED <<main, uninit, counters, pending, updates, closed, listener, status, finished,
                 lastSent>>

MutRecorded(msg) ==
  IF status[msg.key] = Unset THEN [status EXCEPT ![msg.key] = msg.value] ELSE status

(* insertSynchronously                                                     *)
Recorded(msg) == [status EXCEPT ![msg.key] = msg.value]

(* The listener.  Nothing says when it starts, relative to the first sends.*)
Listen ==
  /\ listener = "start"
  /\ listener' = "receive"
  /\ finished' = "false"
  /\ UNCHANGED <<main, uninit, counters, worker, pending, updates, closed, status, lastSent>>

Receive ==
  /\ listener = "receive" /\ updates # <<>> /\ Head(updates) # Quit
  /\ updates' = Tail(updates)
  /\ status' = Recorded(Head(updates))
  /\ UNCHANGED <<main, uninit, counters, worker, pending, closed, listener, finished, lastSent>>

ReceiveQuit ==
  /\ listener = "receive" /\ updates # <<>> /\ Head(updates) = Quit
  /\ updates' = Tail(updates)
  /\ finished' = "true" /\ closed' = TRUE
  /\ listener' = "ended"
  /\ UNCHANGED <<main, uninit, counters, worker, pending, status, lastSent>>

-----------------------------------------------------------------------------
Main == Launch \/ (\E k \in Counter : InitCounter(k)) \/ StartWorkers \/ ReportComplete \/ StopListen
Work(w) == (\E k \in Counter : Increase(w, k)) \/ SendIncrease(w) \/ WorkerEnds(w)
Listening == Listen \/ Receive \/ ReceiveQuit

(* The actor is over; its status stays readable.                           *)
Over ==
  /\ main = "ended" /\ listener = "ended"
  /\ UNCHANGED vars

Next == Main \/ (\E w \in Worker : Work(w)) \/ Listening \/ Over

Spec == Init /\ [][Next]_vars

(* Goroutines are scheduled; a blocked sender gets its turn.  Each worker  *)
(* has a last action, as its number of runs is finite.                     *)
FairSpec ==
  /\ Spec
  /\ WF_vars(Main) /\ WF_vars(Listening)
  /\ \A w \in Worker : WF_vars(SendIncrease(w)) /\ WF_vars(WorkerEnds(w)) /\ SF_vars(Work(w))
-----------------------------------------------------------------------------
TypeOK ==
  /\ main \in {"launch", "init", "wait", "quit", "ended"}
  /\ uninit \in SUBSET Counter
  /\ counters \in [Counter -> 0..MaxCount]
  /\ worker \in [Worker -> {"off", "idle", "send", "done"}]
  /\ pending \in [Worker -> Message \cup {Quit}]
  /\ updates \in Seq(Message \cup {Quit}) /\ Len(updates) <= Capacity
  /\ closed \in BOOLEAN
  /\ listener \in {"start", "receive", "ended"}
  /\ status \in [Key -> Nat \cup {Unset}]
  /\ finished \in {"absent", "false", "true"}
  /\ lastSent \in [Key -> Nat \cup {Unset}]

(* Nobody has anything left to send once the channel is closed, and        *)
(* nothing was left in it: no goroutine panics, no update is dropped.      *)
NoSendAfterClose ==
  closed => /\ main = "ended" /\ updates = <<>>
            /\ \A w \in Worker : worker[w] \notin {"idle", "send"}

(* A status marked finished is the last word: it holds, for every key, the *)
(* value that was sent last.                                               *)
FinishedIsFinal == finished = "true" => status = lastSent

(* The status never claims more failures than were counted.                *)
NeverOvercounts == \A k \in Counter : status[k] <= counters[k]

(* For its readers the gatherer is a StatusView: of the values a counter   *)
(* takes, those not shown yet are its initial value before it is sent,     *)
(* those in the channel and those a worker is about to send.               *)
InChannel(k) == {updates[i].value : i \in {i \in 1..Len(updates) : updates[i].key = k}}
AboutToSend(k) == {pending[w].value : w \in {w \in Worker : worker[w] = "send" /\ pending[w].key = k}}
NotInitialised(k) == IF main \in {"launch", "init"} /\ k \in uninit THEN {0} ELSE {}

View == INSTANCE StatusView WITH
  unshown <- [k \in Counter |-> NotInitialised(k) \cup InChannel(k) \cup AboutToSend(k)],
  status <- [k \in Counter |-> status[k]],
  state <- status[StateKey]

(* Whatever the order in which goroutines send and the listener receives,  *)
(* every value counted is shown exactly once, between Starting and         *)
(* Complete, and before the status is finished.                            *)
ImplementsView == View!Spec

(* The status becomes finished, however full the channel gets on the way:  *)
(* no sender and no listener waits for ever.                               *)
EventuallyFinished == <>(finished = "true")
=============================================================================
