------------------------- MODULE StatusGathererProofs -------------------------
(***************************************************************************)
(* Proofs about StatusGatherer, for any workers, counters and capacity of  *)
(* the channel.                                                            *)
(***************************************************************************)
EXTENDS StatusGatherer, TLAPS

LEMMA QuitIsNoMessage == Quit \notin Message /\ Quit.key \notin Key
  BY GathererAssumption DEF Quit, Message, Key, StateKey

(* Workers exist between StartWorkers and the end of runWrapper's Wait.    *)
Workers ==
  /\ main \in {"launch", "init"} => \A w \in Worker : worker[w] = "off"
  /\ main \in {"quit", "ended"} => \A w \in Worker : worker[w] \in {"off", "done"}
  /\ \A w \in Worker : worker[w] = "send" => pending[w] \in Message

Types == TypeOK /\ Workers

LEMMA InitTypes == Init => Types
<1> SUFFICES ASSUME Init PROVE Types
  OBVIOUS
<1>1. updates \in Seq(Message \cup {Quit}) /\ Len(updates) <= Capacity
  BY GathererAssumption DEF Init
<1>2. /\ counters \in [Counter -> 0..MaxCount]
      /\ status \in [Key -> Nat \cup {Unset}] /\ lastSent \in [Key -> Nat \cup {Unset}]
  BY GathererAssumption DEF Init
<1>3. closed \in BOOLEAN BY DEF Init
<1> QED BY <1>1, <1>2, <1>3 DEF Init, Types, TypeOK, Workers

LEMMA SendTypes ==
  ASSUME Types, NEW msg \in Message, Send(msg)
  PROVE  /\ updates' \in Seq(Message \cup {Quit}) /\ Len(updates') <= Capacity
         /\ lastSent' \in [Key -> Nat \cup {Unset}]
  BY GathererAssumption DEF Send, HasRoom, Types, TypeOK, Message

LEMMA MainTypes == ASSUME Types, Main PROVE Types'
<1>1. ASSUME NEW n \in Nat PROVE [key |-> StateKey, value |-> n] \in Message
  BY DEF Message, Key
<1>2. CASE Launch
  <2>1. SendState(Starting) /\ Starting \in Nat BY <1>2 DEF Launch, Starting
  <2>2. main' \in {"init", "quit"} BY <1>2 DEF Launch, AfterAbort
  <2> QED BY <1>1, <1>2, <2>1, <2>2, SendTypes DEF Launch, SendState, Types, TypeOK, Workers
<1>3. ASSUME NEW k \in Counter, InitCounter(k) PROVE Types'
  <2>1. [key |-> k, value |-> 0] \in Message BY DEF Message, Key
  <2> QED BY <1>3, <2>1, SendTypes DEF InitCounter, Types, TypeOK, Workers
<1>4. CASE StartWorkers
  BY <1>4 DEF StartWorkers, Types, TypeOK, Workers
<1>5. CASE ReportComplete
  <2>1. SendState(Complete) /\ Complete \in Nat BY <1>5 DEF ReportComplete, Complete
  <2> QED BY <1>1, <1>5, <2>1, SendTypes
          DEF ReportComplete, SendState, WorkersDone, Types, TypeOK, Workers
<1>6. CASE StopListen
  <2>1. updates' \in Seq(Message \cup {Quit}) /\ Len(updates') <= Capacity
    BY <1>6, GathererAssumption DEF StopListen, HasRoom, Types, TypeOK
  <2> QED BY <1>6, <2>1 DEF StopListen, Types, TypeOK, Workers
<1> QED BY <1>2, <1>3, <1>4, <1>5, <1>6 DEF Main

LEMMA WorkTypes == ASSUME Types, NEW w \in Worker, Work(w) PROVE Types'
<1>1. ASSUME NEW k \in Counter, Increase(w, k) PROVE Types'
  <2>1. counters[k] \in 0..MaxCount /\ counters[k] + 1 \in 0..MaxCount /\ counters[k] + 1 \in Nat
    BY <1>1, GathererAssumption DEF Increase, Types, TypeOK
  <2>2. counters' \in [Counter -> 0..MaxCount]
    BY <1>1, <2>1 DEF Increase, Stored, Types, TypeOK
  <2>3. [key |-> k, value |-> counters[k] + 1] \in Message
    BY <2>1 DEF Message, Key
  <2> QED BY <1>1, <2>2, <2>3 DEF Increase, Types, TypeOK, Workers
<1>2. CASE SendIncrease(w)
  <2>1. pending[w] \in Message BY <1>2 DEF SendIncrease, Types, Workers
  <2> QED BY <1>2, <2>1, SendTypes DEF SendIncrease, Types, TypeOK, Workers
<1>3. CASE WorkerEnds(w)
  BY <1>3 DEF WorkerEnds, Types, TypeOK, Workers
<1> QED BY <1>1, <1>2, <1>3 DEF Work

LEMMA ListeningTypes == ASSUME Types, Listening PROVE Types'
<1>1. CASE Listen
  BY <1>1 DEF Listen, Types, TypeOK, Workers
<1>2. ASSUME updates # <<>>
      PROVE  /\ Tail(updates) \in Seq(Message \cup {Quit}) /\ Len(Tail(updates)) <= Capacity
             /\ Head(updates) \in Message \cup {Quit}
  BY <1>2, GathererAssumption DEF Types, TypeOK
<1>3. CASE Receive
  <2>1. status' \in [Key -> Nat \cup {Unset}]
    BY <1>2, <1>3 DEF Receive, Recorded, Types, TypeOK, Message
  <2> QED BY <1>2, <1>3, <2>1 DEF Receive, Types, TypeOK, Workers
<1>4. CASE ReceiveQuit
  BY <1>2, <1>4 DEF ReceiveQuit, Types, TypeOK, Workers
<1> QED BY <1>1, <1>3, <1>4 DEF Listening

LEMMA NextTypes == Types /\ [Next]_vars => Types'
<1>1. ASSUME Types, UNCHANGED vars PROVE Types'
  BY <1>1 DEF vars, Types, TypeOK, Workers
<1> QED BY <1>1, MainTypes, WorkTypes, ListeningTypes DEF Next, Over

(* The types, with who may still send, hold always.                        *)
THEOREM TypesHold == Spec => []Types
  BY InitTypes, NextTypes, PTL DEF Spec

(* Types are right for all parameters; the channel never holds more than   *)
(* its capacity.                                                           *)
THEOREM TypeCorrect == Spec => []TypeOK
<1>1. Types => TypeOK BY DEF Types
<1> QED BY <1>1, TypesHold, PTL

-----------------------------------------------------------------------------
(* The quit message is the last one, sent when nobody else has anything    *)
(* left to send.                                                           *)
QuitIsLast ==
  /\ \A i \in 1..Len(updates) : updates[i] = Quit => i = Len(updates) /\ main = "ended"
  /\ closed <=> listener = "ended"
  /\ finished = "true" <=> listener = "ended"
  /\ listener = "ended" => main = "ended" /\ updates = <<>>

LEMMA SendKeepsQuitLast ==
  ASSUME Types, QuitIsLast, NEW msg \in Message, Send(msg), main # "ended",
         UNCHANGED <<closed, listener, finished>>
  PROVE  QuitIsLast'
<1>1. updates' = Append(updates, msg) /\ updates \in Seq(Message \cup {Quit})
  BY DEF Send, Types, TypeOK
<1>2. /\ Len(updates') = Len(updates) + 1
      /\ \A i \in 1..Len(updates) : updates'[i] = updates[i]
      /\ updates'[Len(updates) + 1] = msg
  BY <1>1
<1>3. \A i \in 1..Len(updates') : updates'[i] # Quit
  BY <1>1, <1>2, QuitIsNoMessage DEF QuitIsLast
<1> QED BY <1>3 DEF QuitIsLast

LEMMA QuitLastNext == Types /\ QuitIsLast /\ [Next]_vars => QuitIsLast'
<1> SUFFICES ASSUME Types, QuitIsLast, [Next]_vars PROVE QuitIsLast'
  OBVIOUS
<1>0. ASSUME NEW n \in Nat PROVE [key |-> StateKey, value |-> n] \in Message
  BY DEF Message, Key
<1>1. CASE Launch \/ ReportComplete
  <2>1. SendState(Starting) \/ SendState(Complete)
    BY <1>1 DEF Launch, ReportComplete
  <2>2. main # "ended" /\ UNCHANGED <<closed, listener, finished>>
    BY <1>1 DEF Launch, ReportComplete
  <2> QED BY <1>0, <2>1, <2>2, SendKeepsQuitLast DEF SendState, Starting, Complete
<1>2. ASSUME NEW k \in Counter, InitCounter(k) PROVE QuitIsLast'
  <2>1. [key |-> k, value |-> 0] \in Message BY DEF Message, Key
  <2> QED BY <1>2, <2>1, SendKeepsQuitLast DEF InitCounter
<1>3. CASE StartWorkers
  BY <1>3 DEF StartWorkers, QuitIsLast
<1>4. CASE StopListen
  <2>1. updates' = Append(updates, Quit) /\ updates \in Seq(Message \cup {Quit})
    BY <1>4 DEF StopListen, Types, TypeOK
  <2>2. /\ Len(updates') = Len(updates) + 1
        /\ \A i \in 1..Len(updates) : updates'[i] = updates[i]
    BY <2>1
  <2>3. main = "quit" /\ main' = "ended" /\ UNCHANGED <<closed, listener, finished>>
    BY <1>4 DEF StopListen
  <2>4. \A i \in 1..Len(updates) : updates'[i] # Quit
    BY <2>2, <2>3 DEF QuitIsLast
  <2> QED BY <2>1, <2>2, <2>3, <2>4 DEF QuitIsLast
<1>5. ASSUME NEW w \in Worker, Work(w) PROVE QuitIsLast'
  <2>1. CASE SendIncrease(w)
    <3>1. pending[w] \in Message /\ main # "ended"
      BY <2>1 DEF SendIncrease, Types, Workers
    <3> QED BY <2>1, <3>1, SendKeepsQuitLast DEF SendIncrease
  <2>2. CASE WorkerEnds(w) \/ \E k \in Counter : Increase(w, k)
    BY <2>2 DEF WorkerEnds, Increase, QuitIsLast
  <2> QED BY <1>5, <2>1, <2>2 DEF Work
<1>6. CASE Listen
  BY <1>6 DEF Listen, QuitIsLast
<1>7. ASSUME updates # <<>>, updates' = Tail(updates)
      PROVE  /\ Len(updates') = Len(updates) - 1 /\ Len(updates) \in Nat
             /\ \A i \in 1..Len(updates') : updates'[i] = updates[i + 1]
  BY <1>7 DEF Types, TypeOK
<1>8. CASE Receive
  <2>1. \A i \in 1..Len(updates') : updates'[i] = Quit => i = Len(updates') /\ main = "ended"
    BY <1>7, <1>8 DEF Receive, QuitIsLast
  <2> QED BY <1>8, <2>1 DEF Receive, QuitIsLast
<1>9. CASE ReceiveQuit
  <2>1. updates[1] = Quit /\ 1 \in 1..Len(updates)
    BY <1>9 DEF ReceiveQuit, Types, TypeOK
  <2>2. Len(updates) = 1 /\ main = "ended"
    BY <2>1 DEF QuitIsLast
  <2>3. Len(updates') = 0 /\ updates' = <<>>
    BY <1>7, <1>9, <2>2 DEF ReceiveQuit, Types, TypeOK
  <2>4. \A i \in 1..Len(updates') : FALSE BY <2>3
  <2>5. closed' /\ listener' = "ended" /\ finished' = "true" /\ main' = "ended"
    BY <1>9, <2>2 DEF ReceiveQuit
  <2> QED BY <2>3, <2>4, <2>5, Zenon DEF QuitIsLast
<1>10. CASE UNCHANGED vars
  BY <1>10 DEF vars, QuitIsLast
<1> QED
  BY <1>1, <1>2, <1>3, <1>4, <1>5, <1>6, <1>8, <1>9, <1>10 DEF Next, Main, Listening, Over

(* The quit message stays the last one in the channel.                     *)
THEOREM QuitIsLastHolds == Spec => []QuitIsLast
<1>1. Init => QuitIsLast BY DEF Init, QuitIsLast
<1> QED BY <1>1, QuitLastNext, TypesHold, PTL DEF Spec

(* Nobody sends on the closed channel, and it is closed with nothing left  *)
(* in it, for any number of workers and any capacity.                      *)
THEOREM ClosedForGood == Spec => []NoSendAfterClose
<1>1. Types /\ QuitIsLast => NoSendAfterClose
  BY DEF Types, Workers, QuitIsLast, NoSendAfterClose
<1> QED BY <1>1, TypesHold, QuitIsLastHolds, PTL

-----------------------------------------------------------------------------
(* The value last sent for a key is in the status, or on its way with      *)
(* nothing for that key behind it.                                         *)
OnItsWay(k, i) ==
  /\ updates[i] = [key |-> k, value |-> lastSent[k]]
  /\ \A j \in 1..Len(updates) : i < j => updates[j].key # k

Latest(k) ==
  \/ status[k] = lastSent[k] /\ \A i \in 1..Len(updates) : updates[i].key # k
  \/ \E i \in 1..Len(updates) : OnItsWay(k, i)

LEMMA AppendLatest ==
  ASSUME Types, NEW k \in Key, Latest(k), NEW msg \in Message \cup {Quit},
         updates' = Append(updates, msg), UNCHANGED status,
         lastSent'[k] = IF msg.key = k THEN msg.value ELSE lastSent[k]
  PROVE  Latest(k)'
<1>1. /\ Len(updates') = Len(updates) + 1 /\ Len(updates) \in Nat
      /\ \A i \in 1..Len(updates) : updates'[i] = updates[i]
      /\ updates'[Len(updates) + 1] = msg
  BY DEF Types, TypeOK
<1>2. CASE msg.key = k
  <2>1. msg = [key |-> k, value |-> lastSent'[k]]
    BY <1>2, QuitIsNoMessage DEF Message
  <2>2. PICK n \in Nat : n = Len(updates) + 1 BY <1>1
  <2>3. OnItsWay(k, n)' BY <1>1, <2>1, <2>2 DEF OnItsWay
  <2>4. n \in 1..Len(updates') BY <1>1, <2>2
  <2> QED BY <2>3, <2>4 DEF Latest
<1>3. CASE msg.key # k /\ \E i \in 1..Len(updates) : OnItsWay(k, i)
  <2>1. PICK i \in 1..Len(updates) : OnItsWay(k, i) BY <1>3
  <2>2. OnItsWay(k, i)' BY <1>1, <1>3, <2>1 DEF OnItsWay
  <2> QED BY <1>1, <2>2 DEF Latest
<1>4. CASE msg.key # k /\ status[k] = lastSent[k] /\ \A i \in 1..Len(updates) : updates[i].key # k
  BY <1>1, <1>4 DEF Latest
<1> QED BY <1>2, <1>3, <1>4 DEF Latest

LEMMA TailLatest ==
  ASSUME Types, NEW k \in Key, Latest(k), updates # <<>>, updates' = Tail(updates),
         UNCHANGED lastSent,
         status'[k] = IF Head(updates).key = k THEN Head(updates).value ELSE status[k]
  PROVE  Latest(k)'
<1>1. /\ Len(updates') = Len(updates) - 1 /\ Len(updates) \in Nat \ {0}
      /\ \A i \in 1..Len(updates') : updates'[i] = updates[i + 1]
      /\ Head(updates) = updates[1]
  BY DEF Types, TypeOK
<1>2. CASE status[k] = lastSent[k] /\ \A i \in 1..Len(updates) : updates[i].key # k
  BY <1>1, <1>2 DEF Latest
<1>3. ASSUME NEW i \in 1..Len(updates), OnItsWay(k, i) PROVE Latest(k)'
  <2>1. CASE i = 1
    <3>1. status'[k] = lastSent'[k] BY <1>1, <1>3, <2>1 DEF OnItsWay
    <3>2. \A j \in 1..Len(updates') : updates'[j].key # k
      BY <1>1, <1>3, <2>1 DEF OnItsWay
    <3> QED BY <3>1, <3>2 DEF Latest
  <2>2. CASE i # 1
    <3>1. i - 1 \in 1..Len(updates') /\ updates'[i - 1] = updates[i]
      BY <1>1, <2>2
    <3>2. \A j \in 1..Len(updates') : i - 1 < j => updates'[j].key # k
      BY <1>1, <1>3 DEF OnItsWay
    <3>3. OnItsWay(k, i - 1)' BY <1>3, <3>1, <3>2 DEF OnItsWay
    <3> QED BY <3>1, <3>3 DEF Latest
  <2> QED BY <2>1, <2>2
<1> QED BY <1>2, <1>3 DEF Latest

LEMMA LatestNext ==
  ASSUME Types, [Next]_vars, NEW k \in Key, Latest(k)
  PROVE  Latest(k)'
<1>0. ASSUME NEW n \in Nat PROVE [key |-> StateKey, value |-> n] \in Message
  BY DEF Message, Key
<1>1. ASSUME NEW msg \in Message, Send(msg), UNCHANGED status PROVE Latest(k)'
  <2>1. lastSent'[k] = IF msg.key = k THEN msg.value ELSE lastSent[k]
    BY <1>1 DEF Send, Types, TypeOK
  <2>2. updates' = Append(updates, msg) BY <1>1 DEF Send
  <2> QED BY <1>1, <2>1, <2>2, AppendLatest
<1>2. CASE Launch \/ ReportComplete
  <2>1. SendState(Starting) \/ SendState(Complete)
    BY <1>2 DEF Launch, ReportComplete
  <2>2. UNCHANGED status BY <1>2 DEF Launch, ReportComplete
  <2> QED BY <1>0, <1>1, <2>1, <2>2 DEF SendState, Starting, Complete
<1>3. ASSUME NEW c \in Counter, InitCounter(c) PROVE Latest(k)'
  <2>1. [key |-> c, value |-> 0] \in Message BY DEF Message, Key
  <2> QED BY <1>1, <1>3, <2>1 DEF InitCounter
<1>4. ASSUME NEW w \in Worker, SendIncrease(w) PROVE Latest(k)'
  <2>1. pending[w] \in Message BY <1>4 DEF SendIncrease, Types, Workers
  <2> QED BY <1>1, <1>4, <2>1 DEF SendIncrease
<1>5. CASE StopListen
  BY <1>5, AppendLatest, QuitIsNoMessage DEF StopListen
<1>6. CASE Receive
  <2>1. Head(updates) \in Message
    BY <1>6 DEF Receive, Types, TypeOK
  <2>2. status'[k] = IF Head(updates).key = k THEN Head(updates).value ELSE status[k]
    BY <1>6, <2>1 DEF Receive, Recorded, Types, TypeOK, Message
  <2> QED BY <1>6, <2>2, TailLatest DEF Receive
<1>7. CASE ReceiveQuit
  <2>1. Head(updates).key # k
    BY <1>7, QuitIsNoMessage DEF ReceiveQuit
  <2> QED BY <1>7, <2>1, TailLatest DEF ReceiveQuit
<1>8. CASE UNCHANGED <<updates, status, lastSent>>
  BY <1>8 DEF Latest, OnItsWay
<1> QED
  BY <1>2, <1>3, <1>4, <1>5, <1>6, <1>7, <1>8
  DEF Next, Main, Work, Listening, StartWorkers, Increase, WorkerEnds, Listen, Over, vars

(* When a status is marked finished it holds the value last sent for every *)
(* key, whichever worker overtook which on the way.                        *)
THEOREM FinalWord == Spec => []FinishedIsFinal
<1> DEFINE Inv == \A k \in Key : Latest(k)
<1>1. Init => Inv
  BY DEF Init, Latest
<1>2. Types /\ Inv /\ [Next]_vars => Inv'
  <2> SUFFICES ASSUME Types, Inv, [Next]_vars, NEW k \in Key' PROVE Latest(k)'
    OBVIOUS
  <2>1. k \in Key BY DEF Key, StateKey
  <2> QED BY <2>1, LatestNext
<1>3. Types /\ QuitIsLast /\ Inv => FinishedIsFinal
  <2> SUFFICES ASSUME Types, QuitIsLast, Inv, finished = "true" PROVE status = lastSent
    BY DEF FinishedIsFinal
  <2>1. updates = <<>> BY DEF QuitIsLast
  <2>2. \A k \in Key : status[k] = lastSent[k]
    BY <2>1 DEF Latest
  <2> QED BY <2>2 DEF Types, TypeOK
<1> QED BY <1>1, <1>2, <1>3, TypesHold, QuitIsLastHolds, PTL DEF Spec

-----------------------------------------------------------------------------
(* Whatever is stored, on its way or about to be sent for a counter has    *)
(* been counted.                                                           *)
Counted ==
  /\ \A k \in Counter : status[k] <= counters[k]
  /\ \A i \in 1..Len(updates) :
       updates[i].key \in Counter => updates[i].value <= counters[updates[i].key]
  /\ \A w \in Worker :
       worker[w] = "send" /\ pending[w].key \in Counter => pending[w].value <= counters[pending[w].key]

LEMMA SendCounted ==
  ASSUME Types, Counted, NEW msg \in Message, Send(msg), UNCHANGED <<counters, status>>,
         msg.key \in Counter => msg.value <= counters[msg.key]
  PROVE  /\ \A k \in Counter : status'[k] <= counters'[k]
         /\ \A i \in 1..Len(updates') :
              updates'[i].key \in Counter => updates'[i].value <= counters'[updates'[i].key]
<1>1. updates' = Append(updates, msg) /\ updates \in Seq(Message \cup {Quit})
  BY DEF Send, Types, TypeOK
<1>2. /\ Len(updates') = Len(updates) + 1
      /\ \A i \in 1..Len(updates) : updates'[i] = updates[i]
      /\ updates'[Len(updates) + 1] = msg
  BY <1>1
<1>3. \A i \in 1..Len(updates') : i \in 1..Len(updates) \/ i = Len(updates) + 1
  BY <1>1, <1>2
<1> QED BY <1>2, <1>3 DEF Counted

LEMMA CountedNext == Types /\ Counted /\ [Next]_vars => Counted'
<1> SUFFICES ASSUME Types, Counted, [Next]_vars PROVE Counted'
  OBVIOUS
<1>0. ASSUME NEW n \in Nat
      PROVE  /\ [key |-> StateKey, value |-> n] \in Message /\ StateKey \notin Counter
  BY GathererAssumption DEF Message, Key
<1>1. CASE Launch \/ ReportComplete
  <2>1. SendState(Starting) \/ SendState(Complete)
    BY <1>1 DEF Launch, ReportComplete
  <2>2. UNCHANGED <<counters, status, worker, pending>> BY <1>1 DEF Launch, ReportComplete
  <2> QED BY <1>0, <2>1, <2>2, SendCounted DEF SendState, Starting, Complete, Counted
<1>2. ASSUME NEW c \in Counter, InitCounter(c) PROVE Counted'
  <2>1. [key |-> c, value |-> 0] \in Message BY DEF Message, Key
  <2>2. 0 <= counters[c] BY GathererAssumption DEF Types, TypeOK
  <2> QED BY <1>2, <2>1, <2>2, SendCounted DEF InitCounter, Counted
<1>3. CASE StartWorkers
  BY <1>3 DEF StartWorkers, Counted
<1>4. CASE StopListen
  <2>1. updates' = Append(updates, Quit) /\ updates \in Seq(Message \cup {Quit})
    BY <1>4 DEF StopListen, Types, TypeOK
  <2>2. /\ Len(updates') = Len(updates) + 1
        /\ \A i \in 1..Len(updates) : updates'[i] = updates[i]
        /\ updates'[Len(updates) + 1] = Quit
    BY <2>1
  <2>3. Quit.key \notin Counter BY QuitIsNoMessage DEF Key
  <2>4. \A i \in 1..Len(updates') : i \in 1..Len(updates) \/ i = Len(updates) + 1
    BY <2>1, <2>2
  <2> QED BY <1>4, <2>2, <2>3, <2>4 DEF StopListen, Counted
<1>5. ASSUME NEW w \in Worker, SendIncrease(w) PROVE Counted'
  <2>1. pending[w] \in Message BY <1>5 DEF SendIncrease, Types, Workers
  <2>2. /\ \A k \in Counter : status'[k] <= counters'[k]
        /\ \A i \in 1..Len(updates') :
             updates'[i].key \in Counter => updates'[i].value <= counters'[updates'[i].key]
    BY <1>5, <2>1, SendCounted DEF SendIncrease, Counted
  <2>3. \A v \in Worker : worker'[v] = "send" => worker[v] = "send" /\ pending'[v] = pending[v]
    BY <1>5 DEF SendIncrease, Types, TypeOK
  <2> QED BY <1>5, <2>2, <2>3 DEF SendIncrease, Counted
<1>6. ASSUME NEW w \in Worker, NEW c \in Counter, Increase(w, c) PROVE Counted'
  <2>1. \A k \in Counter : counters[k] \in Nat /\ counters'[k] \in Nat /\ counters[k] <= counters'[k]
    BY <1>6, GathererAssumption DEF Increase, Stored, Types, TypeOK
  <2>2. counters'[c] = counters[c] + 1
    BY <1>6 DEF Increase, Stored, Types, TypeOK
  <2>3. \A k \in Counter : status'[k] <= counters'[k]
    <3>1. \A k \in Counter : status[k] \in Int
      BY DEF Types, TypeOK, Unset, Key
    <3> QED BY <1>6, <2>1, <3>1 DEF Increase, Counted
  <2>4. ASSUME NEW m \in Message, m.key \in Counter, m.value <= counters[m.key]
        PROVE  m.value <= counters'[m.key]
    BY <2>1, <2>4 DEF Message
  <2>5. \A i \in 1..Len(updates') :
          updates'[i].key \in Counter => updates'[i].value <= counters'[updates'[i].key]
    <3>1. \A i \in 1..Len(updates) : updates[i].key \in Counter => updates[i] \in Message
      BY QuitIsNoMessage DEF Types, TypeOK, Key
    <3> QED BY <1>6, <2>4, <3>1 DEF Increase, Counted
  <2>6. ASSUME NEW v \in Worker, worker'[v] = "send", pending'[v].key \in Counter
        PROVE  pending'[v].value <= counters'[pending'[v].key]
    <3>1. CASE v = w
      <4>1. pending'[w] = [key |-> c, value |-> counters[c] + 1]
        BY <1>6 DEF Increase, Types, TypeOK
      <4> QED BY <2>1, <2>2, <3>1, <4>1
    <3>2. CASE v # w
      <4>1. pending'[v] = pending[v] /\ worker[v] = "send"
        BY <1>6, <2>6, <3>2 DEF Increase, Types, TypeOK
      <4>2. pending[v] \in Message BY <4>1 DEF Types, Workers
      <4> QED BY <2>4, <2>6, <4>1, <4>2 DEF Counted
    <3> QED BY <3>1, <3>2
  <2> QED BY <2>3, <2>5, <2>6 DEF Counted
<1>7. ASSUME NEW w \in Worker, WorkerEnds(w) PROVE Counted'
  <2>1. \A v \in Worker : worker'[v] = "send" => worker[v] = "send"
    BY <1>7 DEF WorkerEnds, Types, TypeOK
  <2> QED BY <1>7, <2>1 DEF WorkerEnds, Counted
<1>8. CASE Listen
  BY <1>8 DEF Listen, Counted
<1>9. ASSUME updates # <<>>, updates' = Tail(updates)
      PROVE  /\ Len(updates') = Len(updates) - 1 /\ Len(updates) \in Nat \ {0}
             /\ \A i \in 1..Len(updates') : updates'[i] = updates[i + 1]
             /\ Head(updates) = updates[1]
  BY <1>9 DEF Types, TypeOK
<1>10. CASE Receive \/ ReceiveQuit
  <2>1. \A i \in 1..Len(updates') :
          updates'[i].key \in Counter => updates'[i].value <= counters[updates'[i].key]
    BY <1>9, <1>10 DEF Receive, ReceiveQuit, Counted
  <2>2. \A k \in Counter : status'[k] <= counters[k]
    <3>1. CASE ReceiveQuit BY <3>1 DEF ReceiveQuit, Counted
    <3>2. CASE Receive
      <4>1. Head(updates) = updates[1] /\ 1 \in 1..Len(updates) BY <1>9, <3>2 DEF Receive
      <4>2. \A k \in Counter :
              status'[k] = IF Head(updates).key = k THEN Head(updates).value ELSE status[k]
        BY <3>2 DEF Receive, Recorded, Types, TypeOK, Key
      <4> QED BY <4>1, <4>2 DEF Counted
    <3> QED BY <1>10, <3>1, <3>2
  <2> QED BY <1>10, <2>1, <2>2 DEF Receive, ReceiveQuit, Counted
<1>11. CASE UNCHANGED vars
  BY <1>11 DEF vars, Counted
<1> QED
  BY <1>1, <1>2, <1>3, <1>4, <1>5, <1>6, <1>7, <1>8, <1>10, <1>11
  DEF Next, Main, Work, Listening, Over

(* No value shown, in the channel or about to be sent exceeds the count.   *)
THEOREM CountedHolds == Spec => []Counted
<1>1. Init => Counted
  BY GathererAssumption DEF Init, Counted, Key, Unset
<1> QED BY <1>1, CountedNext, TypesHold, PTL DEF Spec

(* For all parameters, the status never shows more than was counted.       *)
THEOREM NoOvercount == Spec => []NeverOvercounts
<1>1. Counted => NeverOvercounts BY DEF Counted, NeverOvercounts
<1> QED BY <1>1, CountedHolds, PTL
=============================================================================
