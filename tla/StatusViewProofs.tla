--------------------------- MODULE StatusViewProofs ---------------------------
(***************************************************************************)
(* Proof that StatusGatherer implements StatusView, for any workers,       *)
(* counters and capacity of the channel.                                   *)
(***************************************************************************)
EXTENDS StatusGathererProofs

StartingMsg == [key |-> StateKey, value |-> Starting]
CompleteMsg == [key |-> StateKey, value |-> Complete]

(* Starting is the first message.                                          *)
StartingFirst ==
  /\ main = "launch" => uninit = Counter /\ updates = <<>> /\ status[StateKey] = Unset
  /\ status[StateKey] \in {Unset, Starting, Complete}
  /\ status[StateKey] = Unset <=> main = "launch" \/ (updates # <<>> /\ updates[1] = StartingMsg)

(* Complete is the last one but the quit message.                          *)
CompleteLast ==
  /\ \A i \in 1..Len(updates) : updates[i].key = StateKey =>
       \/ updates[i] = StartingMsg /\ i = 1
       \/ updates[i] = CompleteMsg /\ main \in {"quit", "ended"}
  /\ \A i, j \in 1..Len(updates) : updates[i] = CompleteMsg /\ i < j => updates[j] = Quit
  /\ status[StateKey] = Complete =>
       main \in {"quit", "ended"} /\ \A i \in 1..Len(updates) : updates[i] = Quit

(* A runner that does not complete has not counted anything.               *)
CountsComplete ==
  main \in {"quit", "ended"} =>
    \/ \A k \in Counter : counters[k] = 0
    \/ status[StateKey] = Complete
    \/ \E i \in 1..Len(updates) : updates[i] = CompleteMsg

ListenerStates ==
  /\ listener = "start" <=> finished = "absent"
  /\ listener = "receive" <=> finished = "false"

(* No value is on its way twice, and an initial value only ahead of all    *)
(* that were counted.                                                      *)
Distinct ==
  /\ main \in {"launch", "init"} =>
       /\ \A k \in Counter : counters[k] = 0
       /\ \A i \in 1..Len(updates) : updates[i].key \notin uninit
  /\ \A i, j \in 1..Len(updates) : i < j /\ updates[i].key = updates[j].key /\ updates[j].key \in Counter =>
       updates[i].value # updates[j].value /\ updates[j].value # 0
  /\ \A w \in Worker : worker[w] = "send" =>
       /\ pending[w].key \in Counter /\ pending[w].value # 0
       /\ \A i \in 1..Len(updates) : updates[i] # pending[w]
       /\ \A v \in Worker : worker[v] = "send" /\ pending[v] = pending[w] => v = w

InOrder == StartingFirst /\ CompleteLast /\ CountsComplete /\ ListenerStates /\ Distinct

Inv == Types /\ QuitIsLast /\ Counted /\ InOrder

-----------------------------------------------------------------------------
(* What appending to and taking from the channel does to it.               *)
LEMMA Appended ==
  ASSUME Types, NEW msg \in Message \cup {Quit}, updates' = Append(updates, msg)
  PROVE  /\ Len(updates) \in Nat /\ Len(updates') = Len(updates) + 1 /\ updates' # <<>>
         /\ \A i \in 1..Len(updates) : updates'[i] = updates[i]
         /\ updates'[Len(updates) + 1] = msg
         /\ updates # <<>> => updates'[1] = updates[1]
         /\ updates = <<>> => updates'[1] = msg /\ Len(updates) = 0
  BY DEF Types, TypeOK

LEMMA Taken ==
  ASSUME Types, updates # <<>>, updates' = Tail(updates)
  PROVE  /\ Len(updates) \in Nat \ {0} /\ Len(updates') = Len(updates) - 1
         /\ \A i \in 1..Len(updates') : updates'[i] = updates[i + 1]
         /\ Head(updates) = updates[1]
         /\ updates' # <<>> => Len(updates) > 1
         /\ \A i \in 1..Len(updates) : updates[i] \in Message \cup {Quit}
  BY DEF Types, TypeOK

LEMMA Keys ==
  /\ StateKey \notin Counter /\ Quit.key \notin Key /\ Starting # Complete
  /\ Starting # Unset /\ Complete # Unset
  /\ StartingMsg \in Message /\ CompleteMsg \in Message /\ StartingMsg # CompleteMsg
  /\ StartingMsg # Quit /\ CompleteMsg # Quit
<1>1. StateKey \in Key BY DEF Key
<1>2. Quit.key \notin Key BY QuitIsNoMessage
<1>3. StartingMsg.key \in Key /\ CompleteMsg.key \in Key BY <1>1 DEF StartingMsg, CompleteMsg
<1> QED
  BY <1>1, <1>2, <1>3, GathererAssumption
  DEF StartingMsg, CompleteMsg, Message, Starting, Complete, Unset
-----------------------------------------------------------------------------
(* A message of a counter, sent while the test loop runs or is set up.     *)
LEMMA CounterSent ==
  ASSUME Types, StartingFirst, CompleteLast, NEW msg \in Message, msg.key \in Counter, Send(msg),
         main \in {"init", "wait"}, UNCHANGED <<main, status>>
  PROVE  (StartingFirst /\ CompleteLast)'
<1>1. updates' = Append(updates, msg) BY DEF Send
<1>2. msg.key # StateKey /\ msg # StartingMsg /\ msg # CompleteMsg
  BY Keys DEF StartingMsg, CompleteMsg
<1>3. StartingFirst'
  BY <1>1, <1>2, Appended DEF StartingFirst
<1>4. \A i \in 1..Len(updates') : updates'[i].key = StateKey => updates'[i] = StartingMsg /\ i = 1
  BY <1>1, <1>2, Appended DEF CompleteLast
<1>5. \A i \in 1..Len(updates') : updates'[i] # CompleteMsg
  BY <1>4, Keys DEF CompleteMsg
<1> QED BY <1>3, <1>4, <1>5 DEF CompleteLast

(* The runner's own messages.                                              *)
LEMMA StateSent ==
  ASSUME Types, Inv, Launch \/ ReportComplete \/ StopListen
  PROVE  (StartingFirst /\ CompleteLast /\ CountsComplete)'
<1>1. CASE Launch
  <2>1. updates' = Append(updates, StartingMsg) /\ main = "launch" /\ main' \in {"init", "quit"}
        /\ UNCHANGED <<status, counters>>
    BY <1>1 DEF Launch, SendState, Send, AfterAbort, StartingMsg
  <2>2. Len(updates) = 0 /\ Len(updates') = 1 /\ updates'[1] = StartingMsg /\ updates' # <<>>
    BY <2>1, Appended, Keys DEF Inv, InOrder, StartingFirst
  <2>3. StartingFirst'
    BY <2>1, <2>2 DEF Inv, InOrder, StartingFirst
  <2>4. CompleteLast'
    BY <2>1, <2>2, Keys DEF Inv, InOrder, StartingFirst, CompleteLast
  <2>5. CountsComplete'
    BY <2>1 DEF Inv, InOrder, Distinct, CountsComplete
  <2> QED BY <2>3, <2>4, <2>5
<1>2. CASE ReportComplete
  <2>1. updates' = Append(updates, CompleteMsg) /\ main = "wait" /\ main' = "quit"
        /\ UNCHANGED <<status, counters>>
    BY <1>2 DEF ReportComplete, SendState, Send, CompleteMsg
  <2>2. StartingFirst'
    BY <2>1, Appended, Keys DEF Inv, InOrder, StartingFirst
  <2>3. \A i \in 1..Len(updates) : updates[i].key = StateKey => updates[i] = StartingMsg /\ i = 1
    BY <2>1 DEF Inv, InOrder, CompleteLast
  <2>4. \A i \in 1..Len(updates) : updates[i] # CompleteMsg
    BY <2>3, Keys DEF CompleteMsg
  <2>5. CompleteLast'
    BY <2>1, <2>3, <2>4, Appended, Keys DEF Inv, InOrder, CompleteLast
  <2>6. Len(updates) + 1 \in 1..Len(updates') /\ updates'[Len(updates) + 1] = CompleteMsg
    BY <2>1, Appended, Keys
  <2>7. CountsComplete'
    BY <2>6 DEF CountsComplete
  <2> QED BY <2>2, <2>5, <2>7
<1>3. CASE StopListen
  <2>1. updates' = Append(updates, Quit) /\ main = "quit" /\ main' = "ended"
        /\ UNCHANGED <<status, counters>>
    BY <1>3 DEF StopListen
  <2>2. Quit.key # StateKey BY Keys DEF Key
  <2>3. StartingFirst'
    BY <2>1, Appended, Keys DEF Inv, InOrder, StartingFirst
  <2>4. CompleteLast'
    BY <2>1, <2>2, Appended, Keys DEF Inv, InOrder, CompleteLast
  <2>5. CountsComplete'
    <3>1. ASSUME NEW i \in 1..Len(updates), updates[i] = CompleteMsg
          PROVE  i \in 1..Len(updates') /\ updates'[i] = CompleteMsg
      BY <2>1, <3>1, Appended
    <3> QED BY <2>1, <3>1 DEF Inv, InOrder, CountsComplete
  <2> QED BY <2>3, <2>4, <2>5
<1> QED BY <1>1, <1>2, <1>3

LEMMA ReceiveOrder ==
  ASSUME Inv, Receive \/ ReceiveQuit
  PROVE  (StartingFirst /\ CompleteLast /\ CountsComplete)'
<1>0. Types BY DEF Inv
<1>1. updates # <<>> /\ updates' = Tail(updates) /\ UNCHANGED <<main, counters>>
  BY DEF Receive, ReceiveQuit
<1>2. 1 \in 1..Len(updates) /\ main # "launch"
  BY <1>0, <1>1, Taken DEF Inv, InOrder, StartingFirst
<1>3. \A i \in 1..Len(updates') : i + 1 \in 1..Len(updates) /\ i + 1 # 1 /\ updates'[i] = updates[i + 1]
  BY <1>0, <1>1, Taken
<1>4. \A i \in 1..Len(updates') : updates'[i].key = StateKey =>
        updates'[i] = CompleteMsg /\ main \in {"quit", "ended"}
  BY <1>3 DEF Inv, InOrder, CompleteLast
<1>5. \A i, j \in 1..Len(updates') : updates'[i] = CompleteMsg /\ i < j => updates'[j] = Quit
  BY <1>3 DEF Inv, InOrder, CompleteLast
<1>6. updates' # <<>> => updates'[1] # StartingMsg
  <2>1. updates' # <<>> => 1 \in 1..Len(updates') BY <1>0, <1>1, Taken
  <2>2. StartingMsg.key = StateKey BY DEF StartingMsg
  <2> QED BY <1>4, <2>1, <2>2, Keys
<1>7. CASE Head(updates).key # StateKey
  <2>1. status'[StateKey] = status[StateKey]
    <3>1. CASE ReceiveQuit BY <3>1 DEF ReceiveQuit
    <3>2. CASE Receive
      <4>1. status \in [Key -> Nat \cup {Unset}] /\ StateKey \in Key
        BY <1>0 DEF Types, TypeOK, Key
      <4> QED BY <1>7, <3>2, <4>1 DEF Receive, Recorded
    <3> QED BY <3>1, <3>2
  <2>2. Head(updates) = updates[1] BY <1>0, <1>1, Taken
  <2>3. updates[1] # StartingMsg /\ updates[1] # CompleteMsg
    BY <1>7, <2>2 DEF StartingMsg, CompleteMsg
  <2>4. StartingFirst'
    BY <1>1, <1>2, <1>6, <2>1, <2>3 DEF StartingFirst, Inv, InOrder
  <2>5. CompleteLast'
    BY <1>1, <1>3, <1>4, <1>5, <2>1 DEF CompleteLast, Inv, InOrder
  <2>6. ASSUME NEW i \in 1..Len(updates), updates[i] = CompleteMsg
        PROVE  \E n \in 1..Len(updates') : updates'[n] = CompleteMsg
    <3>1. i # 1 BY <2>3, <2>6
    <3>2. i - 1 \in 1..Len(updates') /\ updates'[i - 1] = updates[i]
      BY <1>0, <1>1, <3>1, Taken
    <3> QED BY <2>6, <3>2
  <2>7. CountsComplete'
    BY <1>1, <2>1, <2>6 DEF CountsComplete, Inv, InOrder
  <2> QED BY <2>4, <2>5, <2>7
<1>8. CASE Head(updates).key = StateKey
  <2>1. Head(updates) = updates[1] /\ Receive
    BY <1>0, <1>1, <1>8, Taken, Keys DEF ReceiveQuit, Key
  <2>2. status'[StateKey] = updates[1].value
    <3>1. StateKey \in Key BY DEF Key
    <3> QED BY <1>8, <2>1, <3>1 DEF Receive, Recorded, Inv, Types, TypeOK
  <2>3. CASE updates[1] = StartingMsg
    <3>1. status'[StateKey] = Starting BY <2>2, <2>3 DEF StartingMsg
    <3>2. StartingFirst' BY <1>1, <1>2, <1>6, <3>1, Keys DEF StartingFirst
    <3>3. CompleteLast' BY <1>1, <1>4, <1>5, <3>1, Keys DEF CompleteLast
    <3>4. ASSUME NEW i \in 1..Len(updates), updates[i] = CompleteMsg
          PROVE  \E n \in 1..Len(updates') : updates'[n] = CompleteMsg
      <4>1. i # 1 BY <2>3, <3>4, Keys
      <4>2. i - 1 \in 1..Len(updates') /\ updates'[i - 1] = updates[i]
        BY <1>0, <1>1, <4>1, Taken
      <4> QED BY <3>4, <4>2
    <3>5. status[StateKey] = Unset BY <1>1, <2>3 DEF StartingFirst, Inv, InOrder
    <3>6. CountsComplete' BY <1>1, <3>4, <3>5, Keys DEF CountsComplete, Inv, InOrder
    <3> QED BY <3>2, <3>3, <3>6
  <2>4. CASE updates[1] = CompleteMsg
    <3>1. status'[StateKey] = Complete BY <2>2, <2>4 DEF CompleteMsg
    <3>2. main \in {"quit", "ended"}
      BY <1>2, <1>8, <2>1, <2>4, Keys DEF CompleteLast, Inv, InOrder
    <3>3. \A i \in 1..Len(updates') : updates'[i] = Quit
      BY <1>2, <1>3, <2>4 DEF CompleteLast, Inv, InOrder
    <3>4. StartingFirst' BY <1>1, <1>2, <1>6, <3>1, Keys DEF StartingFirst
    <3>5. CompleteLast' BY <1>1, <1>4, <1>5, <3>1, <3>2, <3>3 DEF CompleteLast
    <3>6. CountsComplete' BY <3>1 DEF CountsComplete
    <3> QED BY <3>4, <3>5, <3>6
  <2> QED BY <1>2, <1>8, <2>1, <2>3, <2>4 DEF CompleteLast, Inv, InOrder
<1> QED BY <1>7, <1>8

LEMMA MainStays ==
  ASSUME Types, NEW w \in Worker, Work(w)
  PROVE  main = "wait"
  BY DEF Work, Increase, SendIncrease, WorkerEnds, Types, TypeOK, Workers

LEMMA OrderNext ==
  ASSUME Inv, [Next]_vars
  PROVE  (StartingFirst /\ CompleteLast /\ CountsComplete /\ ListenerStates)'
<1>0. Types BY DEF Inv
<1>1. CASE Main
  <2>1. ASSUME NEW k \in Counter, InitCounter(k) PROVE (StartingFirst /\ CompleteLast /\ CountsComplete)'
    <3>1. [key |-> k, value |-> 0] \in Message BY DEF Message, Key
    <3>2. (StartingFirst /\ CompleteLast)'
      BY <1>0, <2>1, <3>1, CounterSent DEF InitCounter, Inv, InOrder
    <3> QED BY <2>1, <3>2 DEF InitCounter, CountsComplete
  <2>2. CASE StartWorkers
    <3>1. main = "init" /\ main' = "wait" /\ UNCHANGED <<updates, status, listener, finished>>
      BY <2>2 DEF StartWorkers
    <3> QED BY <3>1 DEF Inv, InOrder, StartingFirst, CompleteLast, CountsComplete, ListenerStates
  <2>3. ListenerStates'
    BY <1>1 DEF Main, Launch, InitCounter, StartWorkers, ReportComplete, StopListen, ListenerStates, Inv, InOrder
  <2> QED BY <1>0, <1>1, <2>1, <2>2, <2>3, StateSent DEF Main
<1>2. ASSUME NEW w \in Worker, Work(w)
      PROVE  (StartingFirst /\ CompleteLast /\ CountsComplete /\ ListenerStates)'
  <2>1. main = "wait" /\ UNCHANGED <<main, status, listener, finished>>
    BY <1>0, <1>2, MainStays DEF Work, Increase, SendIncrease, WorkerEnds
  <2>2. CASE SendIncrease(w)
    <3>1. pending[w] \in Message /\ pending[w].key \in Counter
      BY <2>2 DEF SendIncrease, Inv, InOrder, Types, Workers, Distinct
    <3>2. (StartingFirst /\ CompleteLast)'
      BY <1>0, <2>1, <2>2, <3>1, CounterSent DEF SendIncrease, Inv, InOrder
    <3> QED BY <2>1, <3>2 DEF CountsComplete, ListenerStates, Inv, InOrder
  <2>3. CASE UNCHANGED updates
    BY <2>1, <2>3 DEF StartingFirst, CompleteLast, CountsComplete, ListenerStates, Inv, InOrder
  <2> QED BY <1>2, <2>2, <2>3 DEF Work, Increase, WorkerEnds
<1>3. CASE Listen
  BY <1>3 DEF Listen, StartingFirst, CompleteLast, CountsComplete, ListenerStates, Inv, InOrder
<1>4. CASE Receive \/ ReceiveQuit
  <2>1. ListenerStates'
    BY <1>4 DEF Receive, ReceiveQuit, ListenerStates, Inv, InOrder
  <2> QED BY <1>4, <2>1, ReceiveOrder
<1>5. CASE UNCHANGED vars
  BY <1>5 DEF vars, StartingFirst, CompleteLast, CountsComplete, ListenerStates, Inv, InOrder
<1> QED BY <1>1, <1>2, <1>3, <1>4, <1>5 DEF Next, Listening, Over
-----------------------------------------------------------------------------
(* Appending a message keeps what is on its way apart if the message is    *)
(* not of a counter, or carries a value that is new for it.                *)
LEMMA DistinctAppend ==
  ASSUME Types, Distinct, NEW msg \in Message \cup {Quit}, updates' = Append(updates, msg),
         msg.key \in Counter =>
           \A i \in 1..Len(updates) : updates[i].key = msg.key =>
             updates[i].value # msg.value /\ msg.value # 0
  PROVE  \A i, j \in 1..Len(updates') :
           i < j /\ updates'[i].key = updates'[j].key /\ updates'[j].key \in Counter =>
             updates'[i].value # updates'[j].value /\ updates'[j].value # 0
<1> SUFFICES ASSUME NEW i \in 1..Len(updates'), NEW j \in 1..Len(updates'), i < j,
                    updates'[i].key = updates'[j].key, updates'[j].key \in Counter
             PROVE  updates'[i].value # updates'[j].value /\ updates'[j].value # 0
  OBVIOUS
<1>1. i \in 1..Len(updates) /\ updates'[i] = updates[i] BY Appended
<1>2. CASE j \in 1..Len(updates)
  <2>1. updates'[j] = updates[j] BY <1>2, Appended
  <2> QED BY <1>1, <1>2, <2>1 DEF Distinct
<1>3. CASE j = Len(updates) + 1
  <2>1. updates'[j] = msg BY <1>3, Appended
  <2> QED BY <1>1, <2>1
<1> QED BY <1>2, <1>3, Appended

LEMMA DistinctMain == ASSUME Inv, Main PROVE Distinct'
<1>0. Types /\ Distinct BY DEF Inv, InOrder
<1>1. \A w \in Worker : worker'[w] # "send"
  BY <1>0 DEF Main, Launch, InitCounter, StartWorkers, ReportComplete, StopListen, AfterAbort,
              WorkersDone, Types, TypeOK, Workers
<1>2. UNCHANGED counters
  BY DEF Main, Launch, InitCounter, StartWorkers, ReportComplete, StopListen
<1>3. ASSUME NEW msg \in Message \cup {Quit}, updates' = Append(updates, msg),
             msg.key \notin Counter, Launch \/ ReportComplete \/ StopListen
      PROVE  Distinct'
  <2>1. \A i, j \in 1..Len(updates') :
          i < j /\ updates'[i].key = updates'[j].key /\ updates'[j].key \in Counter =>
            updates'[i].value # updates'[j].value /\ updates'[j].value # 0
    BY <1>0, <1>3, DistinctAppend
  <2>2. main' \in {"launch", "init"} => main = "launch" /\ UNCHANGED uninit
    BY <1>3 DEF Launch, ReportComplete, StopListen
  <2>3. main' \in {"launch", "init"} => \A i \in 1..Len(updates') : updates'[i].key \notin uninit'
    BY <1>0, <1>3, <2>2, Appended DEF Distinct, Types, TypeOK
  <2> QED BY <1>0, <1>1, <1>2, <2>1, <2>2, <2>3 DEF Distinct
<1>4. CASE Launch \/ ReportComplete \/ StopListen
  <2>1. \/ updates' = Append(updates, StartingMsg)
        \/ updates' = Append(updates, CompleteMsg)
        \/ updates' = Append(updates, Quit)
    BY <1>4 DEF Launch, ReportComplete, StopListen, SendState, Send, StartingMsg, CompleteMsg
  <2>2. StartingMsg.key \notin Counter /\ CompleteMsg.key \notin Counter /\ Quit.key \notin Counter
    BY Keys DEF StartingMsg, CompleteMsg, Key
  <2> QED BY <1>3, <1>4, <2>1, <2>2, Keys
<1>5. ASSUME NEW k \in Counter, InitCounter(k) PROVE Distinct'
  <2> DEFINE msg == [key |-> k, value |-> 0]
  <2>1. msg \in Message /\ msg.key = k BY DEF Message, Key
  <2>2. updates' = Append(updates, msg) /\ main = "init" /\ k \in uninit /\ uninit' = uninit \ {k}
    BY <1>5 DEF InitCounter, Send
  <2>3. \A i \in 1..Len(updates) : updates[i].key # k
    BY <1>0, <2>2 DEF Distinct
  <2> HIDE DEF msg
  <2>4. \A i, j \in 1..Len(updates') :
          i < j /\ updates'[i].key = updates'[j].key /\ updates'[j].key \in Counter =>
            updates'[i].value # updates'[j].value /\ updates'[j].value # 0
    BY <1>0, <2>1, <2>2, <2>3, DistinctAppend
  <2>5. \A i \in 1..Len(updates') : updates'[i].key \notin uninit'
    BY <1>0, <2>1, <2>2, Appended DEF Distinct
  <2> QED BY <1>0, <1>1, <1>2, <2>2, <2>4, <2>5 DEF Distinct
<1>6. CASE StartWorkers
  BY <1>0, <1>1, <1>6 DEF StartWorkers, Distinct
<1> QED BY <1>4, <1>5, <1>6 DEF Main

LEMMA DistinctWork == ASSUME Inv, NEW w \in Worker, Work(w) PROVE Distinct'
<1>0. Types /\ Distinct /\ main = "wait" /\ main' = "wait"
  <2>1. Types BY DEF Inv
  <2> QED BY <2>1, MainStays DEF Inv, InOrder, Work, Increase, SendIncrease, WorkerEnds
<1>1. ASSUME NEW k \in Counter, Increase(w, k) PROVE Distinct'
  <2> DEFINE n == counters[k] + 1
  <2>1. n \in Nat \ {0} /\ counters[k] \in Nat /\ UNCHANGED updates
    BY <1>0, <1>1, GathererAssumption DEF Increase, Types, TypeOK
  <2>2. pending' = [pending EXCEPT ![w] = [key |-> k, value |-> n]]
        /\ worker' = [worker EXCEPT ![w] = "send"]
    BY <1>1 DEF Increase
  <2> HIDE DEF n
  <2>3. \A i \in 1..Len(updates) : updates[i] # [key |-> k, value |-> n]
    BY <2>1 DEF Inv, Counted, n
  <2>4. \A v \in Worker : worker[v] = "send" => pending[v] # [key |-> k, value |-> n]
    BY <2>1 DEF Inv, Counted, n
  <2>5. /\ pending'[w] = [key |-> k, value |-> n]
        /\ \A v \in Worker \ {w} : pending'[v] = pending[v] /\ worker'[v] = worker[v]
    BY <1>0, <2>2 DEF Types, TypeOK
  <2> QED BY <1>0, <2>1, <2>3, <2>4, <2>5 DEF Distinct
<1>2. CASE SendIncrease(w)
  <2>1. pending[w] \in Message /\ pending[w].key \in Counter /\ pending[w].value # 0
    BY <1>0, <1>2 DEF SendIncrease, Types, Workers, Distinct
  <2>2. updates' = Append(updates, pending[w]) /\ worker[w] = "send"
    BY <1>2 DEF SendIncrease, Send
  <2>3. ASSUME NEW i \in 1..Len(updates), updates[i].key = pending[w].key
        PROVE  updates[i].value # pending[w].value
    <3>1. updates[i] # pending[w] BY <1>0, <2>2 DEF Distinct
    <3>2. updates[i] \in Message
      BY <1>0, <2>1, <2>3, Keys DEF Types, TypeOK, Key
    <3> QED BY <2>1, <2>3, <3>1, <3>2 DEF Message
  <2>4. \A i, j \in 1..Len(updates') :
          i < j /\ updates'[i].key = updates'[j].key /\ updates'[j].key \in Counter =>
            updates'[i].value # updates'[j].value /\ updates'[j].value # 0
    BY <1>0, <2>1, <2>2, <2>3, DistinctAppend
  <2>5. /\ worker'[w] = "idle"
        /\ \A v \in Worker \ {w} : pending'[v] = pending[v] /\ worker'[v] = worker[v]
    BY <1>0, <1>2 DEF SendIncrease, Types, TypeOK
  <2>6. \A v \in Worker \ {w} : worker[v] = "send" => pending[v] # pending[w]
    BY <1>0, <2>2 DEF Distinct
  <2>7. \A v \in Worker \ {w} : worker[v] = "send" => \A i \in 1..Len(updates') : updates'[i] # pending[v]
    BY <1>0, <2>1, <2>2, <2>6, Appended DEF Distinct
  <2> QED BY <1>0, <2>4, <2>5, <2>7 DEF Distinct
<1>3. CASE WorkerEnds(w)
  <2>1. \A v \in Worker : worker'[v] = "send" => worker[v] = "send"
    BY <1>0, <1>3 DEF WorkerEnds, Types, TypeOK
  <2> QED BY <1>0, <1>3, <2>1 DEF WorkerEnds, Distinct
<1> QED BY <1>1, <1>2, <1>3 DEF Work

LEMMA DistinctNext == ASSUME Inv, [Next]_vars PROVE Distinct'
<1>0. Types /\ Distinct BY DEF Inv, InOrder
<1>1. CASE Receive \/ ReceiveQuit
  <2>1. updates # <<>> /\ updates' = Tail(updates) /\ UNCHANGED <<main, uninit, counters, worker, pending>>
    BY <1>1 DEF Receive, ReceiveQuit
  <2>2. \A i \in 1..Len(updates') : i + 1 \in 1..Len(updates) /\ updates'[i] = updates[i + 1]
    BY <1>0, <2>1, Taken
  <2>3. \A i, j \in 1..Len(updates') : i < j => i + 1 < j + 1 BY <1>0, <2>1, Taken
  <2> QED BY <1>0, <2>1, <2>2, <2>3 DEF Distinct
<1>2. CASE Listen
  BY <1>0, <1>2 DEF Listen, Distinct
<1>3. CASE UNCHANGED vars
  BY <1>0, <1>3 DEF vars, Distinct
<1> QED BY <1>1, <1>2, <1>3, DistinctMain, DistinctWork DEF Next, Listening, Over

(* The inductive invariant behind the refinement.                          *)
THEOREM InvHolds == Spec => []Inv
<1>1. Init => InOrder
  BY Keys DEF Init, InOrder, StartingFirst, CompleteLast, CountsComplete, ListenerStates, Distinct, Key
<1>2. Inv /\ [Next]_vars => InOrder'
  BY OrderNext, DistinctNext DEF InOrder
<1>3. Types /\ QuitIsLast /\ Counted /\ InOrder <=> Inv BY DEF Inv
<1> QED BY <1>1, <1>2, <1>3, TypesHold, QuitIsLastHolds, CountedHolds, PTL DEF Spec
-----------------------------------------------------------------------------
(* The refinement mapping.                                                 *)
Unshown(k) == NotInitialised(k) \cup InChannel(k) \cup AboutToSend(k)
UnshownMap == [k \in Counter |-> Unshown(k)]
ShownMap == [k \in Counter |-> status[k]]

LEMMA ChannelAppended ==
  ASSUME Types, NEW msg \in Message \cup {Quit}, updates' = Append(updates, msg), NEW k \in Counter
  PROVE  InChannel(k)' = InChannel(k) \cup (IF msg.key = k THEN {msg.value} ELSE {})
<1>1. \A i \in 1..Len(updates') : i \in 1..Len(updates) \/ i = Len(updates) + 1
  BY Appended
<1>2. 1..Len(updates) \subseteq 1..Len(updates') /\ Len(updates) + 1 \in 1..Len(updates')
  BY Appended
<1> QED BY <1>1, <1>2, Appended DEF InChannel

(* Taking the head of the channel takes its value from those on their way, *)
(* as no other message carries it.                                         *)
LEMMA ChannelTaken ==
  ASSUME Inv, updates # <<>>, updates' = Tail(updates), NEW k \in Counter
  PROVE  /\ Head(updates).key = k =>
              /\ InChannel(k)' = InChannel(k) \ {Head(updates).value}
              /\ Head(updates).value \in InChannel(k)
              /\ 0 \notin InChannel(k)'
         /\ Head(updates).key # k => InChannel(k)' = InChannel(k)
<1>0. Types /\ Distinct BY DEF Inv, InOrder
<1> DEFINE m == Head(updates)
<1>1. /\ Len(updates) \in Nat \ {0} /\ Len(updates') = Len(updates) - 1
      /\ m = updates[1]
      /\ \A i \in 1..Len(updates') : updates'[i] = updates[i + 1]
  BY <1>0, Taken
<1> HIDE DEF m
<1>2. \A i \in 1..Len(updates) : i = 1 \/ (i - 1 \in 1..Len(updates') /\ updates'[i - 1] = updates[i])
  BY <1>1
<1>3. \A i \in 1..Len(updates') : i + 1 \in 1..Len(updates) /\ 1 < i + 1 /\ 1 \in 1..Len(updates)
  BY <1>1
<1>4. InChannel(k) = InChannel(k)' \cup (IF m.key = k THEN {m.value} ELSE {})
  BY <1>1, <1>2, <1>3 DEF InChannel
<1>5. ASSUME m.key = k, NEW v \in InChannel(k)' PROVE v # m.value /\ v # 0
  <2>1. PICK i \in 1..Len(updates') : updates'[i].key = k /\ updates'[i].value = v
    BY DEF InChannel
  <2>2. updates[i + 1].key = k /\ updates[i + 1].value = v /\ i + 1 \in 1..Len(updates) /\ 1 < i + 1
        /\ updates[1].key = k /\ 1 \in 1..Len(updates)
    BY <1>1, <1>3, <1>5, <2>1
  <2> QED BY <1>0, <1>1, <2>2 DEF Distinct
<1> QED BY <1>4, <1>5 DEF m

LEMMA ViewStutter ==
  ASSUME UNCHANGED <<counters, status, finished>>, \A k \in Counter : Unshown(k)' = Unshown(k)
  PROVE  UNCHANGED View!vvars
<1>1. UnshownMap' = UnshownMap /\ ShownMap' = ShownMap
  BY DEF UnshownMap, ShownMap
<1> QED BY <1>1 DEF View!vvars, UnshownMap, ShownMap, Unshown

LEMMA ViewMain == ASSUME Inv, Main PROVE [View!Next]_(View!vvars)
<1>0. Types /\ Distinct BY DEF Inv, InOrder
<1>1. UNCHANGED <<counters, status, finished>>
  BY DEF Main, Launch, InitCounter, StartWorkers, ReportComplete, StopListen
<1>2. \A k \in Counter : AboutToSend(k) = {} /\ AboutToSend(k)' = {}
  <2>1. \A w \in Worker : worker[w] # "send" /\ worker'[w] # "send"
    BY <1>0 DEF Main, Launch, InitCounter, StartWorkers, ReportComplete, StopListen, AfterAbort,
                WorkersDone, Types, TypeOK, Workers
  <2> QED BY <2>1 DEF AboutToSend
<1>3. ASSUME NEW msg \in Message \cup {Quit}, updates' = Append(updates, msg), msg.key \notin Counter,
             NEW k \in Counter
      PROVE  InChannel(k)' = InChannel(k)
  BY <1>0, <1>3, ChannelAppended
<1>4. CASE Launch
  <2>1. updates' = Append(updates, StartingMsg) /\ main = "launch" /\ uninit' = uninit
        /\ main' \in {"init", "quit"} /\ uninit = Counter /\ updates = <<>>
    BY <1>4 DEF Launch, SendState, Send, AfterAbort, StartingMsg, Inv, InOrder, StartingFirst
  <2>2. \A k \in Counter : InChannel(k) = {} /\ InChannel(k)' = {}
    <3>1. StartingMsg \in Message /\ StartingMsg.key \notin Counter BY Keys DEF StartingMsg
    <3>2. \A k \in Counter : InChannel(k) = {} BY <1>0, <2>1 DEF InChannel
    <3> QED BY <1>3, <2>1, <3>1, <3>2
  <2>3. CASE main' = "init"
    <3>1. \A k \in Counter : Unshown(k)' = Unshown(k)
      BY <1>2, <2>1, <2>2, <2>3 DEF Unshown, NotInitialised
    <3> QED BY <1>1, <3>1, ViewStutter
  <2>4. CASE main' = "quit"
    <3>1. \A k \in Counter : Unshown(k) = {0} /\ Unshown(k)' = {}
      BY <1>2, <2>1, <2>2, <2>4 DEF Unshown, NotInitialised
    <3>2. UnshownMap' = [k \in Counter |-> {}] /\ \A k \in Counter : UnshownMap[k] = {0}
      BY <3>1 DEF UnshownMap
    <3>3. ShownMap' = ShownMap BY <1>1 DEF ShownMap
    <3>4. View!GiveUp BY <1>1, <3>2, <3>3 DEF View!GiveUp, UnshownMap, ShownMap, Unshown
    <3> QED BY <3>4 DEF View!Next
  <2> QED BY <2>1, <2>3, <2>4
<1>5. ASSUME NEW c \in Counter, InitCounter(c) PROVE [View!Next]_(View!vvars)
  <2> DEFINE msg == [key |-> c, value |-> 0]
  <2>1. msg \in Message /\ msg.key = c /\ msg.value = 0 BY DEF Message, Key
  <2>2. updates' = Append(updates, msg) /\ main = "init" /\ main' = "init"
        /\ c \in uninit /\ uninit' = uninit \ {c}
    BY <1>5 DEF InitCounter, Send
  <2> HIDE DEF msg
  <2>3. \A k \in Counter : InChannel(k)' = InChannel(k) \cup (IF c = k THEN {0} ELSE {})
    BY <1>0, <2>1, <2>2, ChannelAppended
  <2>4. \A k \in Counter : Unshown(k)' = Unshown(k)
    BY <1>2, <2>2, <2>3 DEF Unshown, NotInitialised
  <2> QED BY <1>1, <2>4, ViewStutter
<1>6. CASE StartWorkers
  <2>1. \A k \in Counter : InChannel(k)' = InChannel(k)
    BY <1>6 DEF StartWorkers, InChannel
  <2>2. \A k \in Counter : Unshown(k)' = Unshown(k)
    BY <1>2, <1>6, <2>1 DEF StartWorkers, Unshown, NotInitialised
  <2> QED BY <1>1, <2>2, ViewStutter
<1>7. CASE ReportComplete \/ StopListen
  <2>1. \/ updates' = Append(updates, CompleteMsg)
        \/ updates' = Append(updates, Quit)
    BY <1>7 DEF ReportComplete, StopListen, SendState, Send, CompleteMsg
  <2>2. CompleteMsg.key \notin Counter /\ Quit.key \notin Counter
    BY Keys DEF CompleteMsg, Key
  <2>3. \A k \in Counter : InChannel(k)' = InChannel(k)
    BY <1>3, <2>1, <2>2, Keys
  <2>4. \A k \in Counter : Unshown(k)' = Unshown(k)
    BY <1>2, <1>7, <2>3 DEF ReportComplete, StopListen, Unshown, NotInitialised
  <2> QED BY <1>1, <2>4, ViewStutter
<1> QED BY <1>4, <1>5, <1>6, <1>7 DEF Main

LEMMA ViewWork == ASSUME Inv, NEW w \in Worker, Work(w) PROVE [View!Next]_(View!vvars)
<1>0. Types /\ Distinct /\ main = "wait" /\ main' = "wait"
  <2>1. Types BY DEF Inv
  <2> QED BY <2>1, MainStays DEF Inv, InOrder, Work, Increase, SendIncrease, WorkerEnds
<1>1. \A k \in Counter : NotInitialised(k) = {} /\ NotInitialised(k)' = {}
  BY <1>0 DEF NotInitialised
<1>2. ASSUME NEW c \in Counter, Increase(w, c) PROVE View!Next
  <2> DEFINE n == counters[c] + 1
  <2>1. /\ pending' = [pending EXCEPT ![w] = [key |-> c, value |-> n]]
        /\ worker' = [worker EXCEPT ![w] = "send"] /\ worker[w] = "idle"
        /\ UNCHANGED <<updates, status, finished>>
        /\ counters[c] < MaxCount /\ counters' = [counters EXCEPT ![c] = n]
    BY <1>2 DEF Increase, Stored
  <2> HIDE DEF n
  <2>2. /\ pending'[w] = [key |-> c, value |-> n] /\ worker'[w] = "send"
        /\ \A v \in Worker \ {w} : pending'[v] = pending[v] /\ worker'[v] = worker[v]
    BY <1>0, <2>1 DEF Types, TypeOK
  <2>3. \A k \in Counter : AboutToSend(k)' = AboutToSend(k) \cup (IF k = c THEN {n} ELSE {})
    BY <2>1, <2>2 DEF AboutToSend
  <2>4. \A k \in Counter : Unshown(k)' = Unshown(k) \cup (IF k = c THEN {n} ELSE {})
    BY <1>1, <2>1, <2>3 DEF Unshown, InChannel
  <2>5. UnshownMap' = [UnshownMap EXCEPT ![c] = @ \cup {n}]
    BY <2>4 DEF UnshownMap
  <2>6. status[StateKey] # Complete /\ finished # "true"
    BY <1>0 DEF Inv, InOrder, CompleteLast, QuitIsLast
  <2>7. ShownMap' = ShownMap BY <2>1 DEF ShownMap
  <2>8. View!Count(c)
    BY <2>1, <2>5, <2>6, <2>7 DEF View!Count, UnshownMap, ShownMap, Unshown, n
  <2> QED BY <2>8 DEF View!Next
<1>3. CASE SendIncrease(w)
  <2>1. pending[w] \in Message /\ updates' = Append(updates, pending[w]) /\ worker[w] = "send"
        /\ UNCHANGED <<counters, status, finished>>
    BY <1>0, <1>3 DEF SendIncrease, Send, Types, Workers
  <2>2. /\ worker'[w] = "idle"
        /\ \A v \in Worker \ {w} : pending'[v] = pending[v] /\ worker'[v] = worker[v]
    BY <1>0, <1>3 DEF SendIncrease, Types, TypeOK
  <2>3. \A k \in Counter :
          AboutToSend(k) = AboutToSend(k)' \cup (IF pending[w].key = k THEN {pending[w].value} ELSE {})
    BY <2>1, <2>2 DEF AboutToSend
  <2>4. \A k \in Counter :
          InChannel(k)' = InChannel(k) \cup (IF pending[w].key = k THEN {pending[w].value} ELSE {})
    BY <1>0, <2>1, ChannelAppended
  <2>5. \A k \in Counter : Unshown(k)' = Unshown(k)
    BY <1>1, <2>3, <2>4 DEF Unshown
  <2> QED BY <2>1, <2>5, ViewStutter
<1>4. CASE WorkerEnds(w)
  <2>1. \A v \in Worker : worker'[v] = "send" <=> worker[v] = "send"
    BY <1>0, <1>4 DEF WorkerEnds, Types, TypeOK
  <2>2. \A k \in Counter : Unshown(k)' = Unshown(k)
    BY <1>1, <1>4, <2>1 DEF WorkerEnds, Unshown, AboutToSend, InChannel
  <2> QED BY <1>4, <2>2, ViewStutter DEF WorkerEnds
<1> QED BY <1>2, <1>3, <1>4 DEF Work
LEMMA ViewReceive == ASSUME Inv, Receive PROVE View!Next
<1>0. Types BY DEF Inv
<1> DEFINE m == Head(updates)
<1>1. /\ updates # <<>> /\ updates' = Tail(updates) /\ m # Quit
      /\ status' = [status EXCEPT ![m.key] = m.value]
      /\ UNCHANGED <<main, uninit, counters, worker, pending, finished>>
      /\ finished = "false"
  BY DEF Receive, Recorded, Inv, InOrder, ListenerStates
<1>2. m = updates[1] /\ 1 \in 1..Len(updates) /\ m \in Message /\ main # "launch"
  BY <1>0, <1>1, Taken DEF Inv, InOrder, StartingFirst
<1>3. \A k \in Counter : /\ m.key = k => /\ InChannel(k)' = InChannel(k) \ {m.value}
                                         /\ m.value \in InChannel(k)
                                         /\ 0 \notin InChannel(k)'
                         /\ m.key # k => InChannel(k)' = InChannel(k)
  BY <1>1, ChannelTaken
<1> HIDE DEF m
<1>4. \A k \in Counter : NotInitialised(k)' = NotInitialised(k) /\ AboutToSend(k)' = AboutToSend(k)
  BY <1>1 DEF NotInitialised, AboutToSend
<1>5. status \in [Key -> Nat \cup {Unset}] /\ StateKey \in Key /\ Counter \subseteq Key /\ m.key \in Key
  BY <1>0, <1>2 DEF Types, TypeOK, Key, Message
<1>6. CASE m.key \in Counter
  <2>0. PICK c \in Counter, v \in Nat : m.key = c /\ m.value = v
    BY <1>2, <1>6 DEF Message
  <2>1. NotInitialised(c) = {}
    BY <1>2, <2>0 DEF NotInitialised, Inv, InOrder, Distinct
  <2>2. v \notin AboutToSend(c) /\ 0 \notin AboutToSend(c)
    <3>1. ASSUME NEW w \in Worker, worker[w] = "send", pending[w].key = c
          PROVE  pending[w].value # v /\ pending[w].value # 0
      <4>1. updates[1] # pending[w] /\ pending[w].value # 0
        BY <1>2, <3>1 DEF Inv, InOrder, Distinct
      <4>2. pending[w] \in Message BY <1>0, <3>1 DEF Types, Workers
      <4> QED BY <1>2, <2>0, <3>1, <4>1, <4>2 DEF Message
    <3> QED BY <3>1 DEF AboutToSend
  <2>3. /\ Unshown(c)' = Unshown(c) \ {v} /\ v \in Unshown(c)
        /\ 0 \in Unshown(c) => v = 0
    BY <1>3, <1>4, <2>0, <2>1, <2>2 DEF Unshown
  <2>4. \A k \in Counter : k # c => Unshown(k)' = Unshown(k)
    BY <1>3, <1>4, <2>0 DEF Unshown
  <2>5. UnshownMap' = [UnshownMap EXCEPT ![c] = @ \ {v}]
    BY <2>3, <2>4 DEF UnshownMap
  <2>6. ShownMap' = [ShownMap EXCEPT ![c] = v] /\ status'[StateKey] = status[StateKey]
    BY <1>1, <1>5, <2>0, Keys DEF ShownMap
  <2>7. status[StateKey] = Starting
    <3>1. m # StartingMsg BY <1>6, Keys DEF StartingMsg
    <3> QED BY <1>1, <1>2, <3>1 DEF Inv, InOrder, StartingFirst, CompleteLast
  <2>8. v \in 0..MaxCount
    <3>1. v \in Nat OBVIOUS
    <3>2. v <= counters[c] BY <1>2, <2>0 DEF Inv, Counted
    <3>3. counters[c] \in 0..MaxCount BY <1>0 DEF Types, TypeOK
    <3> QED BY <3>1, <3>2, <3>3, GathererAssumption
  <2>9. View!Show(c, v)
    BY <1>1, <2>3, <2>5, <2>6, <2>7 DEF View!Show, UnshownMap, ShownMap, Unshown
  <2> QED BY <2>8, <2>9 DEF View!Next
<1>7. CASE m.key = StateKey
  <2>1. \A k \in Counter : Unshown(k)' = Unshown(k)
    BY <1>3, <1>4, <1>7, Keys DEF Unshown
  <2>2. UnshownMap' = UnshownMap /\ ShownMap' = ShownMap
    BY <1>1, <1>5, <1>7, <2>1, Keys DEF UnshownMap, ShownMap
  <2>3. status'[StateKey] = m.value
    BY <1>1, <1>5, <1>7
  <2>4. CASE m = StartingMsg
    <3>1. status[StateKey] = Unset /\ status'[StateKey] = Starting
      BY <1>1, <1>2, <2>3, <2>4 DEF Inv, InOrder, StartingFirst, StartingMsg
    <3>2. View!ShowStarting
      BY <1>1, <2>2, <3>1 DEF View!ShowStarting, UnshownMap, ShownMap, Unshown
    <3> QED BY <3>2 DEF View!Next
  <2>5. CASE m = CompleteMsg
    <3>1. main \in {"quit", "ended"} /\ \A j \in 1..Len(updates) : 1 < j => updates[j] = Quit
      BY <1>2, <1>7, <2>5, Keys DEF Inv, InOrder, CompleteLast
    <3>2. \A k \in Counter : InChannel(k) = {}
      <4>1. \A k \in Counter, i \in 1..Len(updates) : updates[i].key # k
        <5>1. CompleteMsg.key \notin Counter /\ Quit.key \notin Counter
          BY Keys DEF CompleteMsg, Key
        <5>2. \A i \in 1..Len(updates) : i = 1 \/ 1 < i
          OBVIOUS
        <5>3. \A i \in 1..Len(updates) : updates[i] = CompleteMsg \/ updates[i] = Quit
          BY <1>2, <2>5, <3>1, <5>2
        <5> QED BY <5>1, <5>3
      <4> QED BY <4>1 DEF InChannel
    <3>3. \A k \in Counter : AboutToSend(k) = {} /\ NotInitialised(k) = {}
      BY <1>0, <3>1 DEF AboutToSend, NotInitialised, Types, Workers
    <3>4. \A k \in Counter : UnshownMap[k] = {}
      BY <3>2, <3>3 DEF UnshownMap, Unshown
    <3>5. status[StateKey] = Starting /\ status'[StateKey] = Complete
      <4>1. status'[StateKey] = Complete BY <2>3, <2>5 DEF CompleteMsg
      <4>2. status[StateKey] # Unset
        BY <1>2, <2>5, Keys DEF Inv, InOrder, StartingFirst
      <4>3. status[StateKey] # Complete
        BY <1>1, <1>2 DEF Inv, InOrder, CompleteLast
      <4> QED BY <4>1, <4>2, <4>3 DEF Inv, InOrder, StartingFirst
    <3>6. View!ShowComplete
      BY <1>1, <2>2, <3>4, <3>5 DEF View!ShowComplete, View!AllShown, UnshownMap, ShownMap, Unshown
    <3> QED BY <3>6 DEF View!Next
  <2> QED BY <1>2, <1>7, <2>4, <2>5 DEF Inv, InOrder, CompleteLast
<1> QED BY <1>5, <1>6, <1>7 DEF Key

LEMMA ViewQuit == ASSUME Inv, ReceiveQuit PROVE View!Next
<1>0. Types BY DEF Inv
<1>1. /\ updates # <<>> /\ updates' = Tail(updates) /\ Head(updates) = Quit
      /\ UNCHANGED <<main, uninit, counters, worker, pending, status>>
      /\ finished = "false" /\ finished' = "true"
  BY DEF ReceiveQuit, Inv, InOrder, ListenerStates
<1>2. updates[1] = Quit /\ Len(updates) = 1 /\ main = "ended"
  <2>1. updates[1] = Quit /\ 1 \in 1..Len(updates) BY <1>0, <1>1, Taken
  <2> QED BY <2>1 DEF Inv, QuitIsLast
<1>3. Quit.key \notin Counter BY Keys DEF Key
<1>4. \A k \in Counter : InChannel(k) = {} /\ InChannel(k)' = {}
  <2>1. \A k \in Counter : InChannel(k) = {} BY <1>2, <1>3 DEF InChannel
  <2> QED BY <1>1, <1>3, <2>1, ChannelTaken
<1>5. \A k \in Counter : AboutToSend(k) = {} /\ NotInitialised(k) = {}
                         /\ AboutToSend(k)' = {} /\ NotInitialised(k)' = {}
  BY <1>0, <1>1, <1>2 DEF AboutToSend, NotInitialised, Types, Workers
<1>6. UnshownMap' = UnshownMap /\ ShownMap' = ShownMap /\ \A k \in Counter : UnshownMap[k] = {}
  BY <1>1, <1>4, <1>5 DEF UnshownMap, ShownMap, Unshown
<1>7. status[StateKey] = Complete \/ (status[StateKey] = Starting /\ \A k \in Counter : counters[k] = 0)
  <2>1. status[StateKey] \in {Starting, Complete}
    BY <1>1, <1>2, Keys DEF Inv, InOrder, StartingFirst
  <2>2. \A i \in 1..Len(updates) : updates[i] # CompleteMsg
    BY <1>2, Keys
  <2> QED BY <1>2, <2>1, <2>2 DEF Inv, InOrder, CountsComplete
<1>8. View!Finish
  BY <1>1, <1>6, <1>7 DEF View!Finish, View!AllShown, UnshownMap, ShownMap, Unshown
<1> QED BY <1>8 DEF View!Next

(* Readers of a status cannot tell the gatherer from a StatusView: every   *)
(* value counted is shown exactly once, the initial one first, Complete    *)
(* after all of them, and the status is finished after that; for any       *)
(* number of workers, however full the channel gets.                       *)
THEOREM GathererImplementsView == Spec => ImplementsView
<1>1. Init => View!Init
  <2> SUFFICES ASSUME Init PROVE View!Init
    OBVIOUS
  <2>1. \A k \in Counter : Unshown(k) = {0}
    BY DEF Init, Unshown, NotInitialised, InChannel, AboutToSend
  <2>2. UnshownMap = [k \in Counter |-> {0}] BY <2>1 DEF UnshownMap
  <2>3. ShownMap = [k \in Counter |-> Unset] /\ status[StateKey] = Unset
    BY DEF Init, ShownMap, Key
  <2> QED BY <2>2, <2>3 DEF View!Init, Init, UnshownMap, ShownMap, Unshown
<1>2. Inv /\ [Next]_vars => [View!Next]_(View!vvars)
  <2> SUFFICES ASSUME Inv, [Next]_vars PROVE [View!Next]_(View!vvars)
    OBVIOUS
  <2>1. CASE Listen
    <3>1. \A k \in Counter : Unshown(k)' = Unshown(k)
      BY <2>1 DEF Listen, Unshown, NotInitialised, InChannel, AboutToSend
    <3>2. UnshownMap' = UnshownMap /\ ShownMap' = ShownMap
      BY <2>1, <3>1 DEF Listen, UnshownMap, ShownMap
    <3>3. View!Listen
      BY <2>1, <3>2 DEF View!Listen, UnshownMap, ShownMap, Unshown, Listen, Inv, InOrder, ListenerStates
    <3> QED BY <3>3 DEF View!Next
  <2>2. CASE UNCHANGED vars
    BY <2>2, ViewStutter DEF vars, Unshown, NotInitialised, InChannel, AboutToSend
  <2> QED BY <2>1, <2>2, ViewMain, ViewWork, ViewReceive, ViewQuit DEF Next, Listening, Over
<1> QED BY <1>1, <1>2, InvHolds, PTL DEF ImplementsView, View!Spec, Spec
=============================================================================
