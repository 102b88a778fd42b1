------------------------ MODULE SafeTaskManager_proofs -----------------------
(***************************************************************************)
(* For any pools, workers, symbols and capacities: a worker has one reader *)
(* at most, and delivers trades in order; the workers of a started pool    *)
(* share its symbols out; and a pool's counter, that its Stop waits for,   *)
(* is that of the workers in their loops.                                  *)
(***************************************************************************)
EXTENDS SafeTaskManager, FiniteSetTheorems, TLAPS

\* Between the dial and the end of the attempt the connection stands for as long
\* as it has a reader; a timer that is armed is received by the select, and by
\* nothing else of the loop.
ReaderHasConnection ==
  \A w \in Workers :
    /\ loop[w] \in {"none", "spawned"} => Receiving(w) = 0
    /\ timer[w] => loop[w] \in {"select", "leaving"}
    /\ loop[w] = "dialed" => isConnected(w)
    /\ loop[w] = "attempted" /\ Receiving(w) > 0 => isConnected(w)

WorkerInv == WorkerTypeOK /\ OneReceiver /\ ReaderHasConnection

RunningOf(p) == {w \in WorkersOf(p) : Running(w)}

\* The counters count the loops that were entered and not left.
ActiveIsRight ==
  /\ active \in [Pools -> Nat]
  /\ \A p \in Pools : active[p] = Cardinality(RunningOf(p))

StopperSteps ==
  [at : {"idle", "between", "polling", "returned"}, pools : SUBSET Pools, pool : Pools \union {"none"}]

StopperIsRight ==
  /\ running \in [Pools -> BOOLEAN]
  /\ stopper \in StopperSteps
  /\ stopper.at = "polling" => stopper.pool \in Pools

Inv == WorkerInv /\ ActiveIsRight /\ StopperIsRight

\* How many readers of w are at step a becomes n.
CountBecomes(w, a, n) == receivers' = [receivers EXCEPT ![w][a] = n]

-----------------------------------------------------------------------------
(* Sequences *)

\* A queue of capacity c that holds s, when n more trades of time m have come.
Filled(s, n, m, c) ==
  LET all == s \o [k \in 1..n |-> m]
  IN SubSeq(all, 1, IF Len(all) < c THEN Len(all) ELSE c)

LEMMA TruncatedSeq ==
  ASSUME NEW s \in Seq(Nat), NEW c \in Nat, NEW n \in Nat, NEW m \in Nat
  PROVE  Filled(s, n, m, c) \in Seq(Nat)
<1> DEFINE more == [k \in 1..n |-> m]
           all == s \o more
           end == IF Len(all) < c THEN Len(all) ELSE c
<1>1. more \in Seq(Nat)
  OBVIOUS
<1>2. all \in Seq(Nat) /\ Len(all) \in Nat
  BY <1>1
<1>3. end \in 0..Len(all)
  BY <1>2
<1>4. \A i \in 1..end : all[i] \in Nat
  BY <1>2, <1>3
<1>5. SubSeq(all, 1, end) \in Seq(Nat)
  <2> HIDE DEF all, end
  <2> QED
    BY <1>2, <1>3, <1>4
<1> QED
  BY <1>5 DEF Filled

-----------------------------------------------------------------------------
(* The steps of a worker *)

\* A reader goes from one step to another: there are as many as before.
LEMMA MoveKeepsCount ==
  ASSUME WorkerTypeOK, NEW w \in Workers, NEW a \in ReceiverSteps, NEW b \in ReceiverSteps,
         a # b, Move(w, a, b)
  PROVE  /\ receivers' \in [Workers -> [ReceiverSteps -> Nat]]
         /\ \A v \in Workers : Receiving(v)' = Receiving(v)
<1>1. /\ receivers \in [Workers -> [ReceiverSteps -> Nat]]
      /\ receivers[w][a] > 0
      /\ receivers' = [[receivers EXCEPT ![w][a] = @ - 1] EXCEPT ![w][b] = @ + 1]
  BY DEF WorkerTypeOK, Move
<1>2. /\ receivers' \in [Workers -> [ReceiverSteps -> Nat]]
      /\ \A v \in Workers \ {w} : receivers'[v] = receivers[v]
      /\ receivers'[w][a] = receivers[w][a] - 1
      /\ receivers'[w][b] = receivers[w][b] + 1
      /\ \A s \in ReceiverSteps \ {a, b} : receivers'[w][s] = receivers[w][s]
  BY <1>1
<1>3. \A s \in ReceiverSteps : receivers[w][s] \in Nat /\ receivers'[w][s] \in Nat
  BY <1>1, <1>2
<1>4. Receiving(w)' = Receiving(w)
  BY <1>2, <1>3 DEF Receiving, ReceiverSteps
<1> QED
  BY <1>2, <1>4 DEF Receiving

\* A reader begins or ends.
LEMMA OneCountChanges ==
  ASSUME WorkerTypeOK, NEW w \in Workers, NEW a \in ReceiverSteps, NEW n \in Nat,
         CountBecomes(w, a, n)
  PROVE  /\ receivers' \in [Workers -> [ReceiverSteps -> Nat]]
         /\ \A v \in Workers \ {w} : Receiving(v)' = Receiving(v)
         /\ Receiving(w)' = Receiving(w) + n - receivers[w][a]
<1>1. /\ receivers \in [Workers -> [ReceiverSteps -> Nat]]
      /\ receivers' \in [Workers -> [ReceiverSteps -> Nat]]
      /\ \A v \in Workers \ {w} : receivers'[v] = receivers[v]
      /\ receivers'[w][a] = n
      /\ \A s \in ReceiverSteps \ {a} : receivers'[w][s] = receivers[w][s]
  BY DEF WorkerTypeOK, CountBecomes
<1>2. \A s \in ReceiverSteps : receivers[w][s] \in Nat /\ receivers'[w][s] \in Nat
  BY <1>1
<1>3. Receiving(w)' = Receiving(w) + n - receivers[w][a]
  <2>1. CASE a = "top"
    BY <1>1, <1>2, <2>1 DEF Receiving, ReceiverSteps
  <2>2. CASE a = "reading"
    BY <1>1, <1>2, <2>2 DEF Receiving, ReceiverSteps
  <2>3. CASE a = "returning"
    BY <1>1, <1>2, <2>3 DEF Receiving, ReceiverSteps
  <2> QED
    BY <2>1, <2>2, <2>3 DEF ReceiverSteps
<1>4. \A v \in Workers \ {w} : Receiving(v)' = Receiving(v)
  BY <1>1 DEF Receiving
<1> QED
  BY <1>1, <1>3, <1>4

\* Steps that leave the readers and what they depend on alone.
LEMMA ReadersKept ==
  ASSUME OneReceiver, ReaderHasConnection, UNCHANGED <<loop, timer, connected, conn>>,
         \A v \in Workers : Receiving(v)' = Receiving(v)
  PROVE  OneReceiver' /\ ReaderHasConnection'
  BY DEF OneReceiver, ReaderHasConnection, isConnected

LEMMA CountIsNat ==
  ASSUME WorkerTypeOK, NEW w \in Workers
  PROVE  /\ Receiving(w) \in Nat
         /\ \A s \in ReceiverSteps : receivers[w][s] \in Nat /\ receivers[w][s] <= Receiving(w)
  BY DEF WorkerTypeOK, Receiving, ReceiverSteps

LEMMA GoReceiveKeeps ==
  ASSUME WorkerInv, NEW w \in Workers, GoReceive(w)
  PROVE  WorkerInv'
<1> USE DEF WorkerInv
<1> DEFINE n == receivers[w]["top"] + 1
<1>1. /\ loop[w] = "dialed" /\ loop' = [loop EXCEPT ![w] = "attempted"]
      /\ CountBecomes(w, "top", n)
      /\ UNCHANGED <<done, timer, connected, conn, messageChan, tradeChan, received, delivered>>
  BY DEF GoReceive, Goto, CountBecomes
<1>2. /\ n \in Nat /\ "top" \in ReceiverSteps
      /\ receivers[w]["top"] \in Nat /\ Receiving(w) \in Nat
  BY CountIsNat DEF ReceiverSteps
<1>3. /\ receivers' \in [Workers -> [ReceiverSteps -> Nat]]
      /\ \A v \in Workers \ {w} : Receiving(v)' = Receiving(v)
      /\ Receiving(w)' = Receiving(w) + n - receivers[w]["top"]
  <2> HIDE DEF n
  <2> QED
    BY <1>1, <1>2, OneCountChanges
<1>4. Receiving(w) = 0 /\ ~timer[w] /\ isConnected(w)
  BY <1>1 DEF OneReceiver, ReaderHasConnection
<1>5. Receiving(w)' = 1
  BY <1>2, <1>3, <1>4
<1>6. loop' \in [Workers -> LoopSteps]
  BY <1>1 DEF WorkerTypeOK, LoopSteps
<1>7. OneReceiver' /\ ReaderHasConnection'
  BY <1>1, <1>3, <1>4, <1>5 DEF OneReceiver, ReaderHasConnection, isConnected, WorkerTypeOK
<1> QED
  BY <1>1, <1>3, <1>6, <1>7 DEF WorkerTypeOK

LEMMA HeadAndTail ==
  ASSUME NEW M \in Seq(Nat), M # <<>>
  PROVE  Head(M) \in Nat /\ Tail(M) \in Seq(Nat)
<1>1. Head(M) \in Nat
  OBVIOUS
<1>2. Tail(M) \in Seq(Nat)
  OBVIOUS
<1> QED
  BY <1>1, <1>2

LEMMA HeadIsNat ==
  ASSUME NEW w \in Workers, WorkerTypeOK, messageChan[w] # <<>>
  PROVE  Head(messageChan[w]) \in Nat
<1>1. PICK M \in Seq(Nat) : M = messageChan[w]
  BY DEF WorkerTypeOK
<1> QED
  BY <1>1, HeadAndTail

LEMMA LoopKeeps ==
  ASSUME WorkerInv, NEW w \in Workers,
         Start(w) \/ LoopStep(w) \/ cleanup(w) \/ Stop(w)
  PROVE  WorkerInv'
<1> USE WorkerAssumption DEF WorkerInv, WorkerTypeOK, OneReceiver, ReaderHasConnection,
       Receiving, isConnected, Goto, LoopSteps, ReceiverSteps
<1>1. CASE Start(w)
  BY <1>1 DEF Start
<1>2. CASE ContextDone(w)
  BY <1>2 DEF ContextDone
<1>3. CASE TimerFires(w)
  BY <1>3 DEF TimerFires
<1>4. CASE DialFails(w)
  <2>1. /\ loop[w] = "dialing" /\ loop' = [loop EXCEPT ![w] = "attempted"]
        /\ UNCHANGED <<done, timer, connected, conn, receivers>>
        /\ UNCHANGED <<messageChan, tradeChan, received, delivered>>
    BY <1>4 DEF DialFails
  <2>2. Receiving(w) = 0
    BY <2>1
  <2>3. /\ \A v \in Workers : Receiving(v)' = Receiving(v) /\ timer'[v] = timer[v]
        /\ \A v \in Workers \ {w} : loop'[v] = loop[v]
        /\ loop'[w] = "attempted"
    BY <2>1
  <2>4. WorkerTypeOK'
    BY <2>1
  <2>5. OneReceiver'
    BY <2>2, <2>3
  <2>6. ReaderHasConnection'
    <3>1. timer[w] = FALSE
      BY <2>1
    <3>2. \A v \in Workers : connected'[v] = connected[v] /\ conn'[v] = conn[v]
      BY <2>1
    <3>3. ASSUME NEW v \in Workers, v # w
          PROVE  /\ loop'[v] \in {"none", "spawned"} => Receiving(v)' = 0
                 /\ timer'[v] => loop'[v] \in {"select", "leaving"}
                 /\ loop'[v] = "dialed" => isConnected(v)'
                 /\ loop'[v] = "attempted" /\ Receiving(v)' > 0 => isConnected(v)'
      <4>1. loop'[v] = loop[v] /\ timer'[v] = timer[v] /\ Receiving(v)' = Receiving(v)
        BY <2>3, <3>3
      <4>2. isConnected(v)' = isConnected(v)
        BY <3>2
      <4> HIDE DEF Receiving, isConnected
      <4> QED
        BY <4>1, <4>2
    <3>4. /\ loop'[w] \in {"none", "spawned"} => Receiving(w)' = 0
          /\ timer'[w] => loop'[w] \in {"select", "leaving"}
          /\ loop'[w] = "dialed" => isConnected(w)'
          /\ loop'[w] = "attempted" /\ Receiving(w)' > 0 => isConnected(w)'
      <4> HIDE DEF Receiving, isConnected
      <4> QED
        BY <2>2, <2>3, <3>1
    <3> HIDE DEF Receiving, isConnected
    <3> QED
      BY <3>3, <3>4
  <2> QED
    BY <2>4, <2>5, <2>6
<1>5. CASE DialSucceeds(w)
  BY <1>5 DEF DialSucceeds
<1>6. CASE GoReceive(w)
  BY <1>6, GoReceiveKeeps
<1>7. CASE ArmTimer(w)
  <2>1. /\ loop[w] = "attempted" /\ loop' = [loop EXCEPT ![w] = "select"]
        /\ timer' = [timer EXCEPT ![w] = ~isConnected(w)]
        /\ UNCHANGED <<done, connected, conn, receivers>>
        /\ UNCHANGED <<messageChan, tradeChan, received, delivered>>
    BY <1>7 DEF ArmTimer
  <2>2. WorkerTypeOK'
    BY <2>1
  <2>3. ~isConnected(w) => Receiving(w) = 0
    <3>1. Receiving(w) \in Nat
      BY CountIsNat
    <3> HIDE DEF Receiving, isConnected
    <3> QED
      BY <2>1, <3>1
  <2>4. OneReceiver'
    BY <2>1, <2>3
  <2>5. ReaderHasConnection'
    BY <2>1
  <2> QED
    BY <2>2, <2>4, <2>5
<1>8. CASE PingFails(w)
  BY <1>8 DEF PingFails
<1>9. CASE processRawMessage(w)
  <2>1. /\ messageChan[w] # <<>> /\ messageChan' = [messageChan EXCEPT ![w] = Tail(@)]
        /\ UNCHANGED <<loop, done, timer, connected, conn, receivers, received, delivered>>
    BY <1>9 DEF processRawMessage
  <2>2. tradeChan' \in [Workers -> Seq(Nat)]
    <3>1. PICK n \in 0..TradesPerMessage :
            tradeChan' = [tradeChan EXCEPT ![w] =
              LET all == @ \o [k \in 1..n |-> Head(messageChan[w])]
              IN SubSeq(all, 1, IF Len(all) < TradeCap THEN Len(all) ELSE TradeCap)]
      BY <1>9 DEF processRawMessage
    <3>2. Head(messageChan[w]) \in Nat
      BY <2>1, HeadIsNat
    <3> DEFINE next == Filled(tradeChan[w], n, Head(messageChan[w]), TradeCap)
    <3>3. next \in Seq(Nat)
      <4>1. tradeChan[w] \in Seq(Nat) /\ TradeCap \in Nat /\ n \in Nat
        OBVIOUS
      <4> QED
        BY <3>2, <4>1, TruncatedSeq
    <3>4. tradeChan' = [tradeChan EXCEPT ![w] = next]
      BY <3>1 DEF Filled
    <3> HIDE DEF next
    <3> QED
      BY <3>3, <3>4
  <2>3. messageChan' \in [Workers -> Seq(Nat)]
    BY <2>1
  <2> QED
    BY <2>1, <2>2, <2>3
<1>10. CASE DeliverTrade(w)
  <2>1. /\ loop[w] = "select" /\ loop' \in {loop, [loop EXCEPT ![w] = "leaving"]}
        /\ tradeChan[w] # <<>> /\ tradeChan' = [tradeChan EXCEPT ![w] = Tail(@)]
        /\ delivered' = [delivered EXCEPT ![w] = Head(tradeChan[w])]
        /\ UNCHANGED <<done, timer, connected, conn, receivers, messageChan, received>>
    BY <1>10 DEF DeliverTrade
  <2>2. delivered' \in [Workers -> Nat] /\ tradeChan' \in [Workers -> Seq(Nat)]
    <3>1. Head(tradeChan[w]) \in Nat /\ Tail(tradeChan[w]) \in Seq(Nat)
      <4>1. PICK T \in Seq(Nat) : T = tradeChan[w]
        OBVIOUS
      <4>2. T # <<>>
        BY <2>1, <4>1
      <4> QED
        BY <4>1, <4>2, HeadAndTail
    <3> QED
      BY <2>1, <3>1
  <2>3. loop' \in [Workers -> LoopSteps]
    <3>1. [loop EXCEPT ![w] = "leaving"] \in [Workers -> LoopSteps]
      OBVIOUS
    <3> QED
      BY <2>1, <3>1
  <2>4. OneReceiver' /\ ReaderHasConnection'
    <3>1. CASE loop' = loop
      BY <2>1, <3>1
    <3>2. CASE loop' = [loop EXCEPT ![w] = "leaving"]
      BY <2>1, <3>2
    <3> QED
      BY <2>1, <3>1, <3>2
  <2> HIDE DEF OneReceiver, ReaderHasConnection
  <2> QED
    BY <2>1, <2>2, <2>3, <2>4
<1>11. CASE cleanup(w)
  BY <1>11 DEF cleanup
<1>12. CASE Stop(w)
  BY <1>12 DEF Stop, Running
<1> QED
  BY <1>1, <1>2, <1>3, <1>4, <1>5, <1>6, <1>7, <1>8, <1>9, <1>10, <1>11, <1>12 DEF LoopStep

LEMMA ReceiverKeeps ==
  ASSUME WorkerInv, NEW w \in Workers, ReceiverStep(w)
  PROVE  WorkerInv'
<1> USE DEF WorkerInv
<1>1. CASE ReceiverChecks(w)
  <2>1. UNCHANGED <<loop, done, timer, connected, conn, messageChan, tradeChan, received, delivered>>
    BY <1>1 DEF ReceiverChecks
  <2>2. Move(w, "top", "returning") \/ Move(w, "top", "reading")
    BY <1>1 DEF ReceiverChecks
  <2>3. /\ receivers' \in [Workers -> [ReceiverSteps -> Nat]]
        /\ \A v \in Workers : Receiving(v)' = Receiving(v)
    BY <2>2, MoveKeepsCount DEF ReceiverSteps
  <2> QED
    BY <2>1, <2>3, ReadersKept DEF WorkerTypeOK
<1>2. CASE ReadMessage(w)
  <2>1. UNCHANGED <<loop, done, timer, connected, conn, tradeChan, delivered>>
    BY <1>2 DEF ReadMessage
  <2>2. /\ receivers' \in [Workers -> [ReceiverSteps -> Nat]]
        /\ \A v \in Workers : Receiving(v)' = Receiving(v)
    BY <1>2, MoveKeepsCount DEF ReadMessage, ReceiverSteps
  <2>3. received' \in [Workers -> Nat] /\ messageChan' \in [Workers -> Seq(Nat)]
    BY <1>2 DEF ReadMessage, WorkerTypeOK
  <2> QED
    BY <2>1, <2>2, <2>3, ReadersKept DEF WorkerTypeOK
<1>3. CASE ReadFails(w)
  <2>1. UNCHANGED <<loop, done, timer, connected, conn, messageChan, tradeChan, received, delivered>>
    BY <1>3 DEF ReadFails
  <2>2. /\ receivers' \in [Workers -> [ReceiverSteps -> Nat]]
        /\ \A v \in Workers : Receiving(v)' = Receiving(v)
    BY <1>3, MoveKeepsCount DEF ReadFails, ReceiverSteps
  <2> QED
    BY <2>1, <2>2, ReadersKept DEF WorkerTypeOK
<1>4. CASE ReceiverReturns(w)
  <2>1. /\ UNCHANGED <<loop, done, timer, conn, messageChan, tradeChan, received, delivered>>
        /\ connected' = [connected EXCEPT ![w] = FALSE]
        /\ receivers[w]["returning"] > 0
        /\ CountBecomes(w, "returning", receivers[w]["returning"] - 1)
    BY <1>4 DEF ReceiverReturns, CountBecomes
  <2>2. receivers[w]["returning"] - 1 \in Nat
    BY <2>1, CountIsNat DEF ReceiverSteps
  <2>3. /\ receivers' \in [Workers -> [ReceiverSteps -> Nat]]
        /\ \A v \in Workers \ {w} : Receiving(v)' = Receiving(v)
        /\ Receiving(w)' = Receiving(w) + (receivers[w]["returning"] - 1) - receivers[w]["returning"]
    <3> DEFINE n == receivers[w]["returning"] - 1
    <3>1. n \in Nat /\ "returning" \in ReceiverSteps /\ CountBecomes(w, "returning", n)
      BY <2>1, <2>2 DEF ReceiverSteps
    <3> HIDE DEF n
    <3>2. /\ receivers' \in [Workers -> [ReceiverSteps -> Nat]]
          /\ \A v \in Workers \ {w} : Receiving(v)' = Receiving(v)
          /\ Receiving(w)' = Receiving(w) + n - receivers[w]["returning"]
      BY <3>1, OneCountChanges
    <3> QED
      BY <3>2 DEF n
  <2>4. Receiving(w)' = 0 /\ Receiving(w) = 1
    <3>1. /\ Receiving(w) \in Nat /\ receivers[w]["returning"] \in Nat
          /\ receivers[w]["returning"] <= Receiving(w) /\ Receiving(w) <= 1
      BY CountIsNat DEF OneReceiver, ReceiverSteps
    <3>2. PICK a \in Nat, n \in Nat : a = Receiving(w) /\ n = receivers[w]["returning"]
      BY <3>1
    <3>3. a <= 1 /\ n <= a /\ n > 0
      BY <2>1, <3>1, <3>2
    <3>4. a = 1 /\ n = 1
      BY <3>3
    <3> QED
      BY <2>3, <3>2, <3>4
  <2>5. OneReceiver'
    BY <2>1, <2>3, <2>4 DEF OneReceiver
  <2>6. ReaderHasConnection'
    <3> SUFFICES ASSUME NEW v \in Workers
                 PROVE  /\ loop[v] \in {"none", "spawned"} => Receiving(v)' = 0
                        /\ timer[v] => loop[v] \in {"select", "leaving"}
                        /\ loop[v] = "dialed" => connected'[v] /\ conn[v] # "nil"
                        /\ loop[v] = "attempted" /\ Receiving(v)' > 0
                             => connected'[v] /\ conn[v] # "nil"
      BY <2>1 DEF ReaderHasConnection, isConnected
    <3>1. CASE v = w
      BY <2>4, <3>1 DEF OneReceiver, ReaderHasConnection
    <3>2. CASE v # w
      <4>1. Receiving(v)' = Receiving(v) /\ connected'[v] = connected[v]
        BY <2>1, <2>3, <3>2 DEF WorkerTypeOK
      <4> QED
        BY <4>1 DEF ReaderHasConnection, isConnected
    <3> QED
      BY <3>1, <3>2
  <2> QED
    BY <2>1, <2>3, <2>5, <2>6 DEF WorkerTypeOK
<1> QED
  BY <1>1, <1>2, <1>3, <1>4 DEF ReceiverStep

\* A goroutine that is spawned is no worker at work yet.
LEMMA SpawnKeeps ==
  ASSUME WorkerInv, NEW w, Goto(w, "none", "spawned"),
         UNCHANGED <<done, timer, connected, conn, receivers, messageChan, tradeChan, received, delivered>>
  PROVE  /\ WorkerInv'
         /\ \A v \in Workers : Running(v)' <=> Running(v)
<1>1. /\ loop \in [Workers -> LoopSteps] /\ loop' \in [Workers -> LoopSteps]
      /\ \A v \in Workers : loop'[v] = loop[v] \/ (loop[v] = "none" /\ loop'[v] = "spawned")
  BY DEF WorkerInv, WorkerTypeOK, Goto, LoopSteps
<1>2. \A v \in Workers : Receiving(v)' = Receiving(v)
  BY DEF Receiving
<1>3. OneReceiver' /\ ReaderHasConnection'
  BY <1>1, <1>2 DEF WorkerInv, OneReceiver, ReaderHasConnection, isConnected
<1> QED
  BY <1>1, <1>3 DEF WorkerInv, WorkerTypeOK, Running

\* A worker at work stays in its loop.
LEMMA WorkKeepsRunning ==
  ASSUME WorkerTypeOK, NEW w \in Workers, LoopStep(w) \/ ReceiverStep(w) \/ Stop(w)
  PROVE  \A v \in Workers : Running(v)' <=> Running(v)
<1>1. /\ \A v \in Workers \ {w} : loop'[v] = loop[v]
      /\ \/ loop'[w] = loop[w]
         \/ loop[w] \notin {"none", "spawned", "ended"} /\ loop'[w] \notin {"none", "spawned", "ended"}
  <2> USE DEF WorkerTypeOK, Goto
  <2>1. CASE ReceiverStep(w) \/ Stop(w) \/ PingFails(w) \/ processRawMessage(w)
    BY <2>1 DEF ReceiverStep, ReceiverChecks, ReadMessage, ReadFails, ReceiverReturns, Stop,
       PingFails, processRawMessage
  <2>2. CASE ContextDone(w) \/ TimerFires(w)
    BY <2>2 DEF ContextDone, TimerFires
  <2>3. CASE DialFails(w) \/ DialSucceeds(w) \/ GoReceive(w) \/ ArmTimer(w)
    BY <2>3 DEF DialFails, DialSucceeds, GoReceive, ArmTimer
  <2>4. CASE DeliverTrade(w)
    BY <2>4 DEF DeliverTrade
  <2> QED
    BY <2>1, <2>2, <2>3, <2>4 DEF LoopStep
<1> QED
  BY <1>1 DEF Running

-----------------------------------------------------------------------------
(* The counters *)

LEMMA RunningIsFinite ==
  ASSUME NEW p
  PROVE  IsFiniteSet(RunningOf(p)) /\ Cardinality(RunningOf(p)) \in Nat
<1>1. RunningOf(p) \subseteq Workers
  BY DEF RunningOf, WorkersOf
<1> QED
  BY <1>1, WorkerAssumption, FS_Subset, FS_CardinalityType

LEMMA CountsKept ==
  ASSUME ActiveIsRight, UNCHANGED active, \A v \in Workers : Running(v)' <=> Running(v)
  PROVE  ActiveIsRight'
<1>1. ASSUME NEW p \in Pools
      PROVE  RunningOf(p)' = RunningOf(p)
  BY DEF RunningOf, WorkersOf
<1> QED
  BY <1>1 DEF ActiveIsRight

LEMMA BeginCounts ==
  ASSUME WorkerTypeOK, ActiveIsRight, NEW w \in Workers, WorkerBegins(w)
  PROVE  ActiveIsRight'
<1> DEFINE q == w[1]
<1>1. q \in Pools
  BY PoolAssumption
<1>2. /\ active' = [active EXCEPT ![q] = @ + 1]
      /\ loop[w] = "spawned" /\ loop' = [loop EXCEPT ![w] = "select"]
  BY DEF WorkerBegins, Start, Goto
<1>3. RunningOf(q)' = RunningOf(q) \union {w} /\ w \notin RunningOf(q)
  BY <1>2 DEF RunningOf, WorkersOf, Running, WorkerTypeOK
<1>4. \A p \in Pools \ {q} : RunningOf(p)' = RunningOf(p)
  BY <1>2 DEF RunningOf, WorkersOf, Running, WorkerTypeOK
<1>5. Cardinality(RunningOf(q)') = Cardinality(RunningOf(q)) + 1
  BY <1>3, RunningIsFinite, FS_AddElement
<1> QED
  BY <1>1, <1>2, <1>4, <1>5 DEF ActiveIsRight

LEMMA EndCounts ==
  ASSUME WorkerTypeOK, ActiveIsRight, NEW w \in Workers, WorkerEnds(w)
  PROVE  ActiveIsRight'
<1> DEFINE q == w[1]
<1>1. q \in Pools
  BY PoolAssumption
<1>2. /\ active' = [active EXCEPT ![q] = @ - 1]
      /\ loop[w] = "leaving" /\ loop' = [loop EXCEPT ![w] = "ended"]
  BY DEF WorkerEnds, cleanup, Goto
<1>3. RunningOf(q)' = RunningOf(q) \ {w} /\ w \in RunningOf(q)
  BY <1>2 DEF RunningOf, WorkersOf, Running, WorkerTypeOK
<1>4. \A p \in Pools \ {q} : RunningOf(p)' = RunningOf(p)
  BY <1>2 DEF RunningOf, WorkersOf, Running, WorkerTypeOK
<1>5. /\ Cardinality(RunningOf(q)') = Cardinality(RunningOf(q)) - 1
      /\ Cardinality(RunningOf(q)') \in Nat
  BY <1>3, RunningIsFinite, FS_RemoveElement, FS_CardinalityType
<1> QED
  BY <1>1, <1>2, <1>4, <1>5 DEF ActiveIsRight

-----------------------------------------------------------------------------
(* The invariant *)

LEMMA InvInit == Init => Inv
<1> SUFFICES ASSUME Init PROVE Inv
  OBVIOUS
<1> USE DEF Init, WorkerInit
<1>1. WorkerTypeOK
  BY DEF WorkerTypeOK, LoopSteps, ReceiverSteps
<1>2. OneReceiver /\ ReaderHasConnection
  BY DEF OneReceiver, ReaderHasConnection, Receiving, ReceiverSteps
<1>3. \A p \in Pools : RunningOf(p) = {}
  BY DEF RunningOf, WorkersOf, Running
<1>4. ActiveIsRight
  BY <1>3, FS_EmptySet DEF ActiveIsRight
<1>5. StopperIsRight
  BY DEF StopperIsRight, StopperSteps
<1> QED
  BY <1>1, <1>2, <1>4, <1>5 DEF Inv, WorkerInv

LEMMA WorkersKept ==
  ASSUME WorkerInv, UNCHANGED workerVars
  PROVE  WorkerInv' /\ \A v \in Workers : Running(v)' <=> Running(v)
<1>1. \A v \in Workers : Receiving(v)' = Receiving(v)
  BY DEF workerVars, Receiving
<1>2. OneReceiver' /\ ReaderHasConnection'
  BY <1>1, ReadersKept DEF WorkerInv, workerVars
<1> QED
  BY <1>2 DEF WorkerInv, WorkerTypeOK, workerVars, Running

LEMMA StopperMoves ==
  ASSUME NEW s \in StopperSteps, NEW pools \in SUBSET Pools
  PROVE  /\ [s EXCEPT !.at = "returned"] \in StopperSteps
         /\ [s EXCEPT !.at = "returned"].at = "returned"
         /\ [s EXCEPT !.at = "between", !.pools = pools] \in StopperSteps
         /\ [s EXCEPT !.at = "between", !.pools = pools].at = "between"
         /\ [s EXCEPT !.at = "between", !.pool = "none"] \in StopperSteps
         /\ [s EXCEPT !.at = "between", !.pool = "none"].at = "between"
  BY DEF StopperSteps

\* The goroutines in the manager's Start and Stop, and its monitor, leave the
\* workers alone but for those they spawn.
LEMMA ManagerKeeps ==
  ASSUME Inv,
         \/ TaskManagerStart \/ StarterStep \/ TaskManagerStop \/ StopperStep
         \/ updatePoolStats \/ MonitorEnds
  PROVE  Inv'
<1> USE DEF Inv
<1>1. CASE SpawnWorker
  <2>1. UNCHANGED <<active, running, stopper>>
    BY <1>1 DEF SpawnWorker
  <2>2. WorkerInv' /\ \A v \in Workers : Running(v)' <=> Running(v)
    BY <1>1, SpawnKeeps DEF SpawnWorker
  <2> QED
    BY <2>1, <2>2, CountsKept DEF StopperIsRight
<1>2. CASE TaskManagerStart \/ (\E p \in Pools : PoolStart(p)) \/ ConnectorFails
           \/ TaskManagerStarted \/ updatePoolStats \/ MonitorEnds
  <2>1. UNCHANGED <<workerVars, active, running, stopper>>
    BY <1>2 DEF TaskManagerStart, PoolStart, ConnectorFails, TaskManagerStarted, updatePoolStats, MonitorEnds, poolVars
  <2> QED
    BY <2>1, WorkersKept, CountsKept DEF StopperIsRight
<1>3. CASE PoolStarted \/ TaskManagerStop \/ StopperStep
  <2>1. UNCHANGED <<workerVars, active>>
    BY <1>3 DEF PoolStarted, TaskManagerStop, StopperStep, PoolStop, PoolStopped,
       TaskManagerStopped, poolVars
  <2>2. ASSUME PoolStarted PROVE StopperIsRight'
    <3>1. running' \in [Pools -> BOOLEAN]
      BY <2>2, Zenon DEF PoolStarted, StopperIsRight
    <3>2. UNCHANGED stopper
      BY <2>2 DEF PoolStarted
    <3> QED
      BY <3>1, <3>2, Zenon DEF StopperIsRight, StopperSteps
  <2>3. ASSUME TaskManagerStop PROVE StopperIsRight'
    <3> DEFINE pools == {p \in Pools : symbols[p] > 0}
    <3>1. UNCHANGED running /\ stopper' = [stopper EXCEPT !.at = "between", !.pools = pools]
      BY <2>3 DEF TaskManagerStop, poolVars
    <3>2. pools \in SUBSET Pools
      OBVIOUS
    <3> HIDE DEF pools
    <3>3. stopper' \in StopperSteps /\ stopper'.at = "between"
      BY <3>1, <3>2, StopperMoves, Zenon DEF StopperIsRight
    <3> QED
      BY <3>1, <3>3 DEF StopperIsRight, StopperSteps
  <2>4. ASSUME NEW p \in Pools, PoolStop(p)
        PROVE  StopperIsRight'
    <3>1. CASE running[p]
      <4>1. UNCHANGED running
            /\ stopper' = [at |-> "polling", pools |-> stopper.pools \ {p}, pool |-> p]
        BY <2>4, <3>1 DEF PoolStop
      <4> QED
        BY <4>1 DEF StopperIsRight, StopperSteps
    <3>2. CASE ~running[p]
      <4>1. /\ UNCHANGED running /\ stopper.at = "between"
            /\ stopper' = [stopper EXCEPT !.pools = @ \ {p}]
        BY <2>4, <3>2 DEF PoolStop
      <4> QED
        BY <4>1 DEF StopperIsRight, StopperSteps
    <3> QED
      BY <3>1, <3>2
  <2>5. ASSUME PoolStopped PROVE StopperIsRight'
    <3>1. running' \in [Pools -> BOOLEAN]
      BY <2>5, Zenon DEF PoolStopped, StopperIsRight
    <3>2. stopper' = [stopper EXCEPT !.at = "between", !.pool = "none"]
      BY <2>5 DEF PoolStopped
    <3>3. stopper' \in StopperSteps /\ stopper'.at = "between"
      BY <3>2, StopperMoves, Zenon DEF StopperIsRight
    <3> QED
      BY <3>1, <3>3 DEF StopperIsRight, StopperSteps
  <2>6. ASSUME TaskManagerStopped PROVE StopperIsRight'
    <3>1. UNCHANGED running /\ stopper' = [stopper EXCEPT !.at = "returned"]
      BY <2>6 DEF TaskManagerStopped, poolVars
    <3>2. stopper' \in StopperSteps /\ stopper'.at = "returned"
      BY <3>1, StopperMoves, Zenon DEF StopperIsRight
    <3> QED
      BY <3>1, <3>2 DEF StopperIsRight, StopperSteps
  <2>7. StopperIsRight'
    BY <1>3, <2>2, <2>3, <2>4, <2>5, <2>6 DEF StopperStep
  <2> QED
    BY <2>1, <2>7, WorkersKept, CountsKept
<1> QED
  BY <1>1, <1>2, <1>3 DEF StarterStep

LEMMA InvNext == Inv /\ [Next]_vars => Inv'
<1> SUFFICES ASSUME Inv, [Next]_vars PROVE Inv'
  OBVIOUS
<1> USE DEF Inv
<1>1. ASSUME NEW w \in Workers, WorkerBegins(w)
      PROVE  Inv'
  <2>1. WorkerInv'
    BY <1>1, LoopKeeps DEF WorkerBegins
  <2>2. ActiveIsRight'
    BY <1>1, BeginCounts DEF WorkerInv
  <2> QED
    BY <1>1, <2>1, <2>2 DEF WorkerBegins, managerVars, StopperIsRight
<1>2. ASSUME NEW w \in Workers, WorkerEnds(w)
      PROVE  Inv'
  <2>1. WorkerInv'
    BY <1>2, LoopKeeps DEF WorkerEnds
  <2>2. ActiveIsRight'
    BY <1>2, EndCounts DEF WorkerInv
  <2> QED
    BY <1>2, <2>1, <2>2 DEF WorkerEnds, managerVars, StopperIsRight
<1>3. ASSUME NEW w \in Workers, WorkerWorks(w)
      PROVE  Inv'
  <2>1. WorkerInv'
    BY <1>3, LoopKeeps, ReceiverKeeps DEF WorkerWorks
  <2>2. \A v \in Workers : Running(v)' <=> Running(v)
    BY <1>3, WorkKeepsRunning DEF WorkerWorks, WorkerInv
  <2>3. UNCHANGED <<active, running, stopper>>
    BY <1>3 DEF WorkerWorks, poolVars, managerVars
  <2> QED
    BY <2>1, <2>2, <2>3, CountsKept DEF StopperIsRight
<1>4. CASE UNCHANGED vars
  <2>1. UNCHANGED workerVars /\ UNCHANGED <<active, running, stopper>>
    BY <1>4 DEF vars, poolVars, managerVars
  <2> QED
    BY <2>1, WorkersKept, CountsKept DEF StopperIsRight
<1> QED
  BY <1>1, <1>2, <1>3, <1>4, ManagerKeeps DEF Next

\* The invariant of the workers: each has one reader at most, a reader has the
\* connection it reads from, and a pool's counter counts the loops entered and
\* not left.
THEOREM InvTheorem == Spec => []Inv
  BY InvInit, InvNext, PTL DEF Spec

-----------------------------------------------------------------------------
(* The order of the trades *)

\* Numbers that do not fall, and numbers none of which exceeds one of another
\* sequence.
Ordered(s) == \A i, j \in 1..Len(s) : i <= j => s[i] <= s[j]
Before(s, t) == \A i \in 1..Len(s), j \in 1..Len(t) : s[i] <= t[j]

QueueIsOrdered(d, trades, messages, r) ==
  /\ Ordered(trades) /\ Ordered(messages) /\ Before(trades, messages)
  /\ d <= r
  /\ Before(<<d>>, trades) /\ Before(<<d>>, messages)
  /\ Before(trades, <<r>>) /\ Before(messages, <<r>>)

OrderIsRight ==
  \A w \in Workers : QueueIsOrdered(delivered[w], tradeChan[w], messageChan[w], received[w])

\* t holds s, or the beginning of it, and m after that.
TakenAfter(t, s, m) ==
  \A i \in 1..Len(t) : (i <= Len(s) /\ t[i] = s[i]) \/ (i > Len(s) /\ t[i] = m)

\* Ordered sequences, one before the other, make an ordered sequence.
LEMMA OrderedConcat ==
  ASSUME NEW s \in Seq(Nat), NEW t \in Seq(Nat), Ordered(s), Ordered(t), Before(s, t)
  PROVE  Ordered(s \o t)
<1> SUFFICES ASSUME NEW i \in 1..Len(s \o t), NEW j \in 1..Len(s \o t), i <= j
             PROVE  (s \o t)[i] <= (s \o t)[j]
  BY DEF Ordered
<1>1. Len(s \o t) = Len(s) + Len(t) /\ Len(s) \in Nat /\ Len(t) \in Nat
  OBVIOUS
<1>2. \A k \in 1..Len(s) : (s \o t)[k] = s[k]
  OBVIOUS
<1>3. \A k \in (Len(s) + 1)..(Len(s) + Len(t)) : (s \o t)[k] = t[k - Len(s)]
  OBVIOUS
<1>4. CASE j <= Len(s)
  BY <1>1, <1>2, <1>4 DEF Ordered
<1>5. CASE i <= Len(s) /\ j > Len(s)
  <2>1. (s \o t)[i] = s[i] /\ (s \o t)[j] = t[j - Len(s)] /\ j - Len(s) \in 1..Len(t)
    BY <1>1, <1>2, <1>3, <1>5
  <2> QED
    BY <1>5, <2>1 DEF Before
<1>6. CASE i > Len(s)
  <2>1. /\ (s \o t)[i] = t[i - Len(s)] /\ (s \o t)[j] = t[j - Len(s)]
        /\ i - Len(s) \in 1..Len(t) /\ j - Len(s) \in 1..Len(t) /\ i - Len(s) <= j - Len(s)
    BY <1>1, <1>3, <1>6
  <2> QED
    BY <2>1 DEF Ordered
<1>7. j <= Len(s) \/ (i <= Len(s) /\ j > Len(s)) \/ i > Len(s)
  <2>1. PICK n \in Nat, x \in Nat, y \in Nat : n = Len(s) /\ x = i /\ y = j
    BY <1>1
  <2>2. y <= n \/ (x <= n /\ y > n) \/ x > n
    OBVIOUS
  <2> QED
    BY <2>1, <2>2
<1> QED
  BY <1>4, <1>5, <1>6, <1>7

LEMMA BeforeConcat ==
  ASSUME NEW s \in Seq(Nat), NEW t \in Seq(Nat), NEW u \in Seq(Nat), Before(s, u), Before(t, u)
  PROVE  Before(s \o t, u)
<1> SUFFICES ASSUME NEW i \in 1..Len(s \o t), NEW j \in 1..Len(u)
             PROVE  (s \o t)[i] <= u[j]
  BY DEF Before
<1>1. Len(s \o t) = Len(s) + Len(t) /\ Len(s) \in Nat /\ Len(t) \in Nat
  OBVIOUS
<1>2. CASE i <= Len(s)
  <2>1. (s \o t)[i] = s[i] /\ i \in 1..Len(s)
    BY <1>1, <1>2
  <2> QED
    BY <2>1 DEF Before
<1>3. CASE i > Len(s)
  <2>1. (s \o t)[i] = t[i - Len(s)] /\ i - Len(s) \in 1..Len(t)
    BY <1>1, <1>3
  <2> QED
    BY <2>1 DEF Before
<1> QED
  BY <1>1, <1>2, <1>3

\* What the truncated queue holds.
LEMMA TruncatedElements ==
  ASSUME NEW s \in Seq(Nat), NEW c \in Nat, NEW n \in Nat, NEW m \in Nat
  PROVE  TakenAfter(Filled(s, n, m, c), s, m)
<1> DEFINE more == [k \in 1..n |-> m]
           all == s \o more
           end == IF Len(all) < c THEN Len(all) ELSE c
           cut == SubSeq(all, 1, end)
<1>1. more \in Seq(Nat) /\ Len(more) = n /\ \A k \in 1..n : more[k] = m
  OBVIOUS
<1>2. all \in Seq(Nat) /\ Len(all) = Len(s) + n /\ Len(s) \in Nat
  BY <1>1
<1>3. \A i \in 1..Len(s) : all[i] = s[i]
  BY <1>1
<1>4. ASSUME NEW i \in (Len(s) + 1)..(Len(s) + n)
      PROVE  all[i] = m
  <2>1. all[i] = more[i - Len(s)] /\ i - Len(s) \in 1..n
    <3> HIDE DEF more
    <3> QED
      BY <1>1, <1>2
  <2> HIDE DEF more, all
  <2> QED
    BY <1>1, <2>1
<1> HIDE DEF more, all
<1>5. end \in Nat /\ end <= Len(all)
  BY <1>2
<1> HIDE DEF end
<1>6. Len(cut) = end /\ \A i \in 1..end : cut[i] = all[i]
  BY <1>2, <1>5
<1> HIDE DEF cut
<1>7. ASSUME NEW i \in 1..Len(cut)
      PROVE  (i <= Len(s) /\ cut[i] = s[i]) \/ (i > Len(s) /\ cut[i] = m)
  <2>1. cut[i] = all[i] /\ i \in 1..Len(all)
    BY <1>2, <1>5, <1>6
  <2>2. i \in 1..Len(s) \/ i \in (Len(s) + 1)..(Len(s) + n)
    BY <1>2, <2>1
  <2>3. CASE i \in 1..Len(s)
    BY <1>3, <2>1, <2>3
  <2>4. CASE i \in (Len(s) + 1)..(Len(s) + n)
    <3>1. i > Len(s)
      BY <1>2, <2>4
    <3> QED
      BY <1>4, <2>1, <2>4, <3>1
  <2> QED
    BY <2>2, <2>3, <2>4
<1> QED
  BY <1>7 DEF TakenAfter, Filled, cut, end, all, more

\* The trades of the first message, as many as are taken, follow those queued.
LEMMA ProcessKeepsOrder ==
  ASSUME NEW d \in Nat, NEW T \in Seq(Nat), NEW M \in Seq(Nat), NEW r \in Nat, NEW U \in Seq(Nat),
         QueueIsOrdered(d, T, M, r), M # <<>>, TakenAfter(U, T, Head(M))
  PROVE  QueueIsOrdered(d, U, Tail(M), r)
<1>1. /\ Head(M) = M[1] /\ M[1] \in Nat /\ Len(M) \in Nat /\ Len(M) >= 1
      /\ Len(Tail(M)) = Len(M) - 1 /\ \A i \in 1..(Len(M) - 1) : Tail(M)[i] = M[i + 1]
      /\ Len(T) \in Nat /\ Len(U) \in Nat
  OBVIOUS
<1>2. \A i \in 1..Len(T) : T[i] \in Nat /\ T[i] <= M[1] /\ T[i] <= r /\ d <= T[i]
  BY <1>1 DEF QueueIsOrdered, Before
<1>3. ASSUME NEW i \in 1..Len(U)
      PROVE  /\ U[i] \in Nat /\ U[i] <= M[1]
             /\ (i \in 1..Len(T) /\ U[i] = T[i]) \/ (i > Len(T) /\ U[i] = M[1])
  <2>1. (i <= Len(T) /\ U[i] = T[i]) \/ (i > Len(T) /\ U[i] = M[1])
    BY <1>1 DEF TakenAfter
  <2>2. CASE i \in 1..Len(T)
    <3>1. U[i] = T[i]
      BY <1>1, <2>1, <2>2
    <3> QED
      BY <1>2, <2>2, <3>1
  <2>3. CASE i > Len(T)
    <3>1. U[i] = M[1] /\ U[i] <= M[1]
      BY <1>1, <2>1, <2>3
    <3> QED
      BY <1>1, <2>3, <3>1
  <2> QED
    BY <1>1, <2>2, <2>3
<1>4. Ordered(U)
  <2> SUFFICES ASSUME NEW i \in 1..Len(U), NEW j \in 1..Len(U), i <= j
               PROVE  U[i] <= U[j]
    BY DEF Ordered
  <2>1. CASE j <= Len(T)
    <3>1. i \in 1..Len(T) /\ j \in 1..Len(T)
      BY <1>1, <2>1
    <3>2. ~ (i > Len(T)) /\ ~ (j > Len(T))
      <4>1. PICK n \in Nat : n = Len(T)
        BY <1>1
      <4>2. i \in 1..n /\ j \in 1..n
        BY <3>1, <4>1
      <4>3. ~ (i > n) /\ ~ (j > n)
        BY <4>2
      <4> QED
        BY <4>1, <4>3
    <3>3. U[i] = T[i] /\ U[j] = T[j]
      BY <1>3, <3>2
    <3> QED
      BY <3>1, <3>3 DEF QueueIsOrdered, Ordered
  <2>2. CASE j > Len(T)
    <3>1. U[j] = M[1]
      <4>1. j \notin 1..Len(T)
        BY <2>2
      <4> QED
        BY <1>3, <4>1
    <3> QED
      BY <1>3, <3>1
  <2> QED
    BY <1>1, <2>1, <2>2
<1>5. \A j \in 1..Len(M) : M[j] \in Nat /\ M[1] <= M[j] /\ M[j] <= r /\ d <= M[j]
  BY <1>1 DEF QueueIsOrdered, Ordered, Before
<1>6. \A j \in 1..Len(Tail(M)) : \E k \in 1..Len(M) : Tail(M)[j] = M[k]
  BY <1>1
<1>7. Ordered(Tail(M))
  BY <1>1 DEF QueueIsOrdered, Ordered
<1>8. Before(U, Tail(M))
  <2> SUFFICES ASSUME NEW i \in 1..Len(U), NEW j \in 1..Len(Tail(M))
               PROVE  U[i] <= Tail(M)[j]
    BY DEF Before
  <2>1. PICK k \in 1..Len(M) : Tail(M)[j] = M[k]
    BY <1>6
  <2>2. U[i] \in Nat /\ U[i] <= M[1]
    BY <1>3
  <2>3. M[k] \in Nat /\ M[1] <= M[k]
    BY <1>5
  <2>4. PICK x \in Nat, y \in Nat, z \in Nat : x = U[i] /\ y = M[1] /\ z = M[k]
    BY <1>1, <2>2, <2>3
  <2>5. x <= y /\ y <= z
    BY <2>2, <2>3, <2>4
  <2>6. x <= z
    BY <2>5
  <2> QED
    BY <2>1, <2>4, <2>6
<1>9. Before(<<d>>, U)
  <2>1. d <= M[1]
    BY <1>1, <1>5
  <2>2. \A i \in 1..Len(U) : d <= U[i]
    BY <1>2, <1>3, <2>1
  <2> QED
    BY <2>2 DEF Before
<1>10. Before(<<d>>, Tail(M)) /\ Before(Tail(M), <<r>>)
  BY <1>5, <1>6 DEF Before
<1>11. Before(U, <<r>>)
  <2>1. M[1] <= r
    BY <1>1, <1>5
  <2>2. \A i \in 1..Len(U) : U[i] <= r
    BY <1>1, <1>3, <2>1
  <2> QED
    BY <2>2 DEF Before
<1> QED
  BY <1>4, <1>7, <1>8, <1>9, <1>10, <1>11 DEF QueueIsOrdered

\* A trade that is delivered is before those still queued.
LEMMA DeliverKeepsOrder ==
  ASSUME NEW d \in Nat, NEW T \in Seq(Nat), NEW M \in Seq(Nat), NEW r \in Nat,
         QueueIsOrdered(d, T, M, r), T # <<>>
  PROVE  QueueIsOrdered(Head(T), Tail(T), M, r)
<1>1. /\ Head(T) = T[1] /\ T[1] \in Nat /\ Len(T) \in Nat /\ Len(T) >= 1
      /\ Len(Tail(T)) = Len(T) - 1 /\ \A i \in 1..(Len(T) - 1) : Tail(T)[i] = T[i + 1]
  OBVIOUS
<1>2. Ordered(Tail(T)) /\ Before(Tail(T), M)
  <2>1. \A i \in 1..(Len(T) - 1) : i + 1 \in 1..Len(T)
    BY <1>1
  <2>2. Ordered(Tail(T))
    BY <1>1, <2>1 DEF QueueIsOrdered, Ordered
  <2>3. Before(Tail(T), M)
    BY <1>1, <2>1 DEF QueueIsOrdered, Before
  <2> QED
    BY <2>2, <2>3
<1>3. T[1] <= r /\ Before(<<T[1]>>, M)
  BY <1>1 DEF QueueIsOrdered, Before
<1>4. Before(<<T[1]>>, Tail(T))
  BY <1>1 DEF QueueIsOrdered, Ordered, Before
<1>5. Before(Tail(T), <<r>>)
  BY <1>1 DEF QueueIsOrdered, Before
<1> QED
  BY <1>1, <1>2, <1>3, <1>4, <1>5 DEF QueueIsOrdered

\* What is received bears a higher number than all that came before.
LEMMA ReadKeepsOrder ==
  ASSUME NEW d \in Nat, NEW T \in Seq(Nat), NEW M \in Seq(Nat), NEW r \in Nat,
         QueueIsOrdered(d, T, M, r)
  PROVE  QueueIsOrdered(d, T, M, r + 1) /\ QueueIsOrdered(d, T, Append(M, r + 1), r + 1)
<1> DEFINE A == Append(M, r + 1)
<1>1. /\ Len(A) = Len(M) + 1 /\ Len(M) \in Nat
      /\ \A i \in 1..Len(M) : A[i] = M[i] /\ M[i] \in Nat
      /\ A[Len(M) + 1] = r + 1
  OBVIOUS
<1>2. /\ \A i \in 1..Len(T) : T[i] \in Nat /\ T[i] <= r
      /\ \A i \in 1..Len(M) : M[i] <= r
  BY DEF QueueIsOrdered, Before
<1> HIDE DEF A
<1>3. \A i \in 1..Len(A) : (i <= Len(M) /\ A[i] = M[i]) \/ (i = Len(M) + 1 /\ A[i] = r + 1)
  BY <1>1
<1>4. d <= r + 1 /\ Before(T, <<r + 1>>) /\ Before(M, <<r + 1>>)
  BY <1>1, <1>2 DEF QueueIsOrdered, Before
<1>5. Ordered(A)
  <2> SUFFICES ASSUME NEW i \in 1..Len(A), NEW j \in 1..Len(A), i <= j
               PROVE  A[i] <= A[j]
    BY DEF Ordered
  <2>1. CASE j <= Len(M)
    <3>1. i \in 1..Len(M) /\ j \in 1..Len(M)
      BY <1>1, <2>1
    <3>2. A[i] = M[i] /\ A[j] = M[j]
      BY <1>1, <3>1
    <3> QED
      BY <3>1, <3>2 DEF QueueIsOrdered, Ordered
  <2>2. CASE j = Len(M) + 1
    <3>1. A[j] = r + 1
      BY <1>1, <2>2
    <3>2. CASE i = Len(M) + 1
      BY <1>1, <3>1, <3>2
    <3>3. CASE i <= Len(M)
      <4>1. i \in 1..Len(M)
        BY <1>1, <3>3
      <4>2. A[i] = M[i] /\ M[i] \in Nat /\ M[i] <= r
        BY <1>1, <1>2, <4>1
      <4> QED
        BY <3>1, <4>2
    <3> QED
      BY <1>1, <3>2, <3>3
  <2> QED
    BY <1>1, <2>1, <2>2
<1>6. Before(T, A)
  <2> SUFFICES ASSUME NEW i \in 1..Len(T), NEW j \in 1..Len(A)
               PROVE  T[i] <= A[j]
    BY DEF Before
  <2>1. CASE j <= Len(M)
    BY <1>1, <1>3, <2>1 DEF QueueIsOrdered, Before
  <2>2. CASE j = Len(M) + 1
    BY <1>1, <1>2, <2>2
  <2> QED
    BY <1>1, <2>1, <2>2
<1>7. Before(<<d>>, A)
  <2>1. \A j \in 1..Len(M) : d <= M[j]
    BY DEF QueueIsOrdered, Before
  <2>2. ASSUME NEW j \in 1..Len(A)
        PROVE  d <= A[j]
    <3>1. CASE j <= Len(M) /\ A[j] = M[j]
      <4>1. j \in 1..Len(M)
        BY <1>1, <3>1
      <4> QED
        BY <2>1, <3>1, <4>1
    <3>2. CASE A[j] = r + 1
      BY <1>4, <3>2
    <3> QED
      BY <1>3, <3>1, <3>2
  <2> QED
    BY <2>2 DEF Before
<1>8. Before(A, <<r + 1>>)
  <2>1. ASSUME NEW j \in 1..Len(A)
        PROVE  A[j] <= r + 1
    <3>1. CASE j <= Len(M)
      <4>1. j \in 1..Len(M)
        BY <1>1, <3>1
      <4>2. A[j] = M[j] /\ M[j] \in Nat /\ M[j] <= r
        BY <1>1, <1>2, <4>1
      <4> QED
        BY <4>2
    <3>2. CASE j = Len(M) + 1
      BY <1>1, <3>2
    <3> QED
      BY <1>1, <3>1, <3>2
  <2> QED
    BY <2>1 DEF Before
<1> QED
  BY <1>4, <1>5, <1>6, <1>7, <1>8 DEF QueueIsOrdered, A

\* The parts make the queue that the property speaks of.
LEMMA QueueIsQueue ==
  ASSUME NEW d \in Nat, NEW T \in Seq(Nat), NEW M \in Seq(Nat), NEW r \in Nat,
         QueueIsOrdered(d, T, M, r)
  PROVE  LET queue == <<d>> \o T \o M \o <<r>>
         IN \A i \in 1..(Len(queue) - 1) : queue[i] <= queue[i + 1]
<1> DEFINE D == <<d>>
           R == <<r>>
<1>1. /\ D \in Seq(Nat) /\ R \in Seq(Nat) /\ Ordered(D) /\ Ordered(R) /\ Before(D, R)
      /\ D \o T \in Seq(Nat) /\ D \o T \o M \in Seq(Nat) /\ D \o T \o M \o R \in Seq(Nat)
  BY DEF QueueIsOrdered, Ordered, Before
<1>2. /\ Before(D, T) /\ Before(D, M) /\ Before(T, M) /\ Before(T, R) /\ Before(M, R)
      /\ Ordered(T) /\ Ordered(M)
  BY DEF QueueIsOrdered
<1> HIDE DEF D, R
<1>3. Ordered(D \o T) /\ Before(D \o T, M) /\ Before(D \o T, R)
  BY <1>1, <1>2, OrderedConcat, BeforeConcat
<1>4. Ordered(D \o T \o M) /\ Before(D \o T \o M, R)
  BY <1>1, <1>2, <1>3, OrderedConcat, BeforeConcat
<1>5. Ordered(D \o T \o M \o R)
  BY <1>1, <1>4, OrderedConcat
<1> DEFINE queue == D \o T \o M \o R
<1>6. Len(queue) \in Nat /\ Ordered(queue)
  BY <1>1, <1>5
<1> HIDE DEF queue
<1>7. \A i \in 1..(Len(queue) - 1) : queue[i] <= queue[i + 1]
  BY <1>6 DEF Ordered
<1> QED
  BY <1>7 DEF queue, D, R

LEMMA OrderInit == Init => OrderIsRight
<1> SUFFICES ASSUME Init, NEW w \in Workers
             PROVE  QueueIsOrdered(delivered[w], tradeChan[w], messageChan[w], received[w])
  BY DEF OrderIsRight
<1>1. delivered[w] = 0 /\ received[w] = 0 /\ tradeChan[w] = <<>> /\ messageChan[w] = <<>>
  BY DEF Init, WorkerInit
<1>2. QueueIsOrdered(0, <<>>, <<>>, 0)
  BY DEF QueueIsOrdered, Ordered, Before
<1> QED
  BY <1>1, <1>2

\* Steps that take nothing from the channels and put nothing in.
LEMMA OrderKept ==
  ASSUME OrderIsRight, UNCHANGED <<messageChan, tradeChan, received, delivered>>
  PROVE  OrderIsRight'
  BY DEF OrderIsRight

\* The step changes the channels of one worker.
LEMMA OrderOfOne ==
  ASSUME OrderIsRight, NEW w \in Workers,
         \A v \in Workers \ {w} : /\ delivered'[v] = delivered[v] /\ tradeChan'[v] = tradeChan[v]
                                  /\ messageChan'[v] = messageChan[v] /\ received'[v] = received[v],
         QueueIsOrdered(delivered'[w], tradeChan'[w], messageChan'[w], received'[w])
  PROVE  OrderIsRight'
<1> SUFFICES ASSUME NEW v \in Workers
             PROVE  QueueIsOrdered(delivered'[v], tradeChan'[v], messageChan'[v], received'[v])
  BY DEF OrderIsRight
<1>1. CASE v = w
  BY <1>1
<1>2. CASE v # w
  BY <1>2 DEF OrderIsRight
<1> QED
  BY <1>1, <1>2

LEMMA OrderNext == WorkerTypeOK /\ OrderIsRight /\ [Next]_vars => OrderIsRight'
<1> SUFFICES ASSUME WorkerTypeOK, OrderIsRight, [Next]_vars
             PROVE  OrderIsRight'
  OBVIOUS
<1>1. ASSUME NEW w \in Workers
      PROVE  /\ delivered[w] \in Nat /\ received[w] \in Nat
             /\ tradeChan[w] \in Seq(Nat) /\ messageChan[w] \in Seq(Nat)
             /\ QueueIsOrdered(delivered[w], tradeChan[w], messageChan[w], received[w])
  BY DEF WorkerTypeOK, OrderIsRight
<1>2. ASSUME NEW w \in Workers, processRawMessage(w)
      PROVE  OrderIsRight'
  <2>1. /\ messageChan[w] # <<>> /\ messageChan' = [messageChan EXCEPT ![w] = Tail(@)]
        /\ UNCHANGED <<received, delivered>>
    BY <1>2 DEF processRawMessage
  <2>2. PICK n \in 0..TradesPerMessage :
          tradeChan' = [tradeChan EXCEPT ![w] =
            LET all == @ \o [k \in 1..n |-> Head(messageChan[w])]
            IN SubSeq(all, 1, IF Len(all) < TradeCap THEN Len(all) ELSE TradeCap)]
    BY <1>2 DEF processRawMessage
  <2> DEFINE next == Filled(tradeChan[w], n, Head(messageChan[w]), TradeCap)
  <2>3. next \in Seq(Nat) /\ TakenAfter(next, tradeChan[w], Head(messageChan[w]))
    <3>1. /\ tradeChan[w] \in Seq(Nat) /\ TradeCap \in Nat /\ n \in Nat
          /\ Head(messageChan[w]) \in Nat
      BY <1>1, <2>1, WorkerAssumption
    <3> QED
      BY <3>1, TruncatedSeq, TruncatedElements
  <2>4. tradeChan' = [tradeChan EXCEPT ![w] = next]
    BY <2>2 DEF Filled
  <2> HIDE DEF next
  <2>5. QueueIsOrdered(delivered[w], next, Tail(messageChan[w]), received[w])
    BY <1>1, <2>1, <2>3, ProcessKeepsOrder
  <2>6. tradeChan'[w] = next /\ messageChan'[w] = Tail(messageChan[w])
    BY <2>1, <2>4 DEF WorkerTypeOK
  <2>7. \A v \in Workers \ {w} : tradeChan'[v] = tradeChan[v] /\ messageChan'[v] = messageChan[v]
    BY <2>1, <2>4 DEF WorkerTypeOK
  <2> QED
    BY <2>1, <2>5, <2>6, <2>7, OrderOfOne
<1>3. ASSUME NEW w \in Workers, DeliverTrade(w)
      PROVE  OrderIsRight'
  <2>1. /\ tradeChan[w] # <<>> /\ tradeChan' = [tradeChan EXCEPT ![w] = Tail(@)]
        /\ delivered' = [delivered EXCEPT ![w] = Head(tradeChan[w])]
        /\ UNCHANGED <<messageChan, received>>
    BY <1>3 DEF DeliverTrade
  <2>2. QueueIsOrdered(Head(tradeChan[w]), Tail(tradeChan[w]), messageChan[w], received[w])
    BY <1>1, <2>1, DeliverKeepsOrder
  <2>3. /\ tradeChan'[w] = Tail(tradeChan[w]) /\ delivered'[w] = Head(tradeChan[w])
        /\ \A v \in Workers \ {w} : tradeChan'[v] = tradeChan[v] /\ delivered'[v] = delivered[v]
    BY <2>1 DEF WorkerTypeOK
  <2> QED
    BY <2>1, <2>2, <2>3, OrderOfOne
<1>4. ASSUME NEW w \in Workers, ReadMessage(w)
      PROVE  OrderIsRight'
  <2>1. /\ received' = [received EXCEPT ![w] = @ + 1]
        /\ messageChan' = [messageChan EXCEPT ![w] =
             IF Len(@) < MessageCap THEN Append(@, received[w] + 1) ELSE @]
        /\ UNCHANGED <<tradeChan, delivered>>
    BY <1>4 DEF ReadMessage
  <2>2. /\ QueueIsOrdered(delivered[w], tradeChan[w], messageChan[w], received[w] + 1)
        /\ QueueIsOrdered(delivered[w], tradeChan[w], Append(messageChan[w], received[w] + 1),
                          received[w] + 1)
    BY <1>1, ReadKeepsOrder
  <2>3. /\ received'[w] = received[w] + 1
        /\ messageChan'[w] \in {messageChan[w], Append(messageChan[w], received[w] + 1)}
        /\ \A v \in Workers \ {w} : received'[v] = received[v] /\ messageChan'[v] = messageChan[v]
    BY <2>1 DEF WorkerTypeOK
  <2> QED
    BY <2>1, <2>2, <2>3, OrderOfOne
<1>5. CASE UNCHANGED vars
  BY <1>5, OrderKept DEF vars, workerVars
<1>6. ASSUME NEW w \in Workers, WorkerBegins(w) \/ WorkerEnds(w) \/ WorkerWorks(w)
      PROVE  OrderIsRight'
  <2>1. CASE WorkerBegins(w) \/ WorkerEnds(w)
    BY <2>1, OrderKept DEF WorkerBegins, WorkerEnds, Start, cleanup
  <2>2. CASE ReceiverStep(w)
    BY <2>2, <1>4, OrderKept DEF ReceiverStep, ReceiverChecks, ReadFails, ReceiverReturns
  <2>3. CASE LoopStep(w)
    BY <2>3, <1>2, <1>3, OrderKept DEF LoopStep, ContextDone, TimerFires, DialFails, DialSucceeds,
       GoReceive, ArmTimer, PingFails
  <2>4. CASE Stop(w)
    BY <2>4, OrderKept DEF Stop
  <2> QED
    BY <1>6, <2>1, <2>2, <2>3, <2>4 DEF WorkerWorks
<1>7. CASE \/ TaskManagerStart \/ StarterStep \/ TaskManagerStop \/ StopperStep
           \/ updatePoolStats \/ MonitorEnds
  BY <1>7, OrderKept DEF TaskManagerStart, StarterStep, PoolStart, ConnectorFails, SpawnWorker,
     PoolStarted, TaskManagerStarted, TaskManagerStop, StopperStep, PoolStop, PoolStopped, TaskManagerStopped,
     updatePoolStats, MonitorEnds, workerVars
<1> QED
  BY <1>5, <1>6, <1>7 DEF Next

-----------------------------------------------------------------------------
(* The shares of the symbols *)

\* What the solver is told of division by a variable, and of products.
LEMMA Division ==
  ASSUME NEW a \in Nat, NEW d \in Nat \ {0}
  PROVE  /\ a \div d \in Nat /\ a % d \in 0..(d - 1)
         /\ a = d * (a \div d) + (a % d)
<1>1. a % d \in 0..(d - 1) /\ a \div d \in Int /\ a \div d >= 0
  OBVIOUS
<1>2. a = d * (a \div d) + (a % d)
  OBVIOUS
<1> QED
  BY <1>1, <1>2

LEMMA Product ==
  ASSUME NEW a \in Int, NEW b \in Int, NEW c \in Nat
  PROVE  /\ c * a \in Int /\ a * c = c * a /\ (a + 1) * c = a * c + c
         /\ a <= b => a * c <= b * c
         /\ a * c < b * c => a < b
<1>1. c * a \in Int /\ a * c = c * a /\ (a + 1) * c = a * c + c
  OBVIOUS
<1>2. a <= b => a * c <= b * c
  OBVIOUS
<1>3. b <= a => b * c <= a * c
  OBVIOUS
<1> QED
  BY <1>1, <1>2, <1>3

\* There are workers enough for the symbols, and not more than symbols.
LEMMA WorkerCountIsRight ==
  ASSUME NEW n \in Nat \ {0}
  PROVE  /\ workerCount(n) \in 1..n
         /\ n <= workerCount(n) * MaxSymbols
<1> DEFINE q == n \div MaxSymbols
           m == n % MaxSymbols
<1>1. MaxSymbols \in Nat \ {0}
  BY PoolAssumption
<1>2. q \in Nat /\ m \in Nat /\ m < MaxSymbols /\ n = MaxSymbols * q + m
  BY <1>1, Division
<1>3. workerCount(n) = q + (IF m # 0 THEN 1 ELSE 0)
  BY DEF workerCount
<1> HIDE DEF q, m
<1>4. /\ MaxSymbols * q = q * MaxSymbols /\ (q + 1) * MaxSymbols = q * MaxSymbols + MaxSymbols
      /\ q <= q * MaxSymbols /\ q * MaxSymbols \in Nat
  <2>1. 1 * q <= MaxSymbols * q
    BY <1>1, <1>2, Product
  <2> QED
    BY <1>1, <1>2, <2>1, Product
<1>5. CASE m = 0
  <2>1. workerCount(n) = q /\ n = q * MaxSymbols
    BY <1>2, <1>3, <1>4, <1>5
  <2>2. q # 0
    <3>1. q = 0 => MaxSymbols * q = 0
      BY <1>1
    <3> QED
      BY <1>2, <1>5, <3>1
  <2> QED
    BY <1>2, <1>4, <2>1, <2>2
<1>6. CASE m # 0
  <2>1. workerCount(n) = q + 1 /\ n = q * MaxSymbols + m
    BY <1>2, <1>3, <1>4, <1>6
  <2>2. q + 1 \in 1..n /\ n <= (q + 1) * MaxSymbols
    BY <1>1, <1>2, <1>4, <1>6, <2>1
  <2> QED
    BY <2>1, <2>2
<1> QED
  BY <1>5, <1>6

\* With shares of s symbols and a remainder of r: the symbols before the i-th
\* worker's, and those up to its last.
BeforeShare(i, s, r) == (i - 1) * s + (IF i - 1 <= r THEN i - 1 ELSE r)
EndOfShare(i, s, r) == BeforeShare(i, s, r) + s + (IF i <= r THEN 1 ELSE 0)

\* A share ends within the symbols, and before the next one begins.
LEMMA ShareBounds ==
  ASSUME NEW s \in Nat, NEW r \in Nat, NEW c \in Nat, r < c,
         NEW i \in 1..c
  PROVE  /\ BeforeShare(i, s, r) \in Nat /\ EndOfShare(i, s, r) \in Nat
         /\ EndOfShare(i, s, r) = i * s + (IF i <= r THEN i ELSE r)
         /\ EndOfShare(i, s, r) <= c * s + r
         /\ \A j \in (i + 1)..c : EndOfShare(i, s, r) <= BeforeShare(j, s, r)
<1>1. (i - 1) * s \in Nat /\ i * s = (i - 1) * s + s /\ i * s <= c * s /\ c * s \in Nat
  <2> DEFINE k == i - 1
  <2>1. k \in Nat /\ i = k + 1 /\ i \in Int /\ c \in Int /\ i <= c
    OBVIOUS
  <2> HIDE DEF k
  <2>2. k * s \in Nat /\ (k + 1) * s = k * s + s
    BY <2>1, Product
  <2>3. i * s <= c * s /\ c * s \in Nat
    BY <2>1, Product
  <2> QED
    BY <2>1, <2>2, <2>3 DEF k
<1>2. BeforeShare(i, s, r) \in Nat /\ EndOfShare(i, s, r) \in Nat
  BY <1>1 DEF BeforeShare, EndOfShare
<1>3. EndOfShare(i, s, r) = i * s + (IF i <= r THEN i ELSE r)
  BY <1>1 DEF BeforeShare, EndOfShare
<1>4. EndOfShare(i, s, r) <= c * s + r
  BY <1>1, <1>3
<1>5. ASSUME NEW j \in (i + 1)..c
      PROVE  EndOfShare(i, s, r) <= BeforeShare(j, s, r)
  <2>1. i * s <= (j - 1) * s /\ (j - 1) * s \in Int /\ i * s \in Int
    <3> DEFINE k == j - 1
    <3>1. k \in Int /\ i <= k /\ i \in Int
      OBVIOUS
    <3> HIDE DEF k
    <3>2. i * s <= k * s /\ k * s \in Int /\ i * s \in Int
      BY <3>1, Product
    <3> QED
      BY <3>2 DEF k
  <2>2. (IF i <= r THEN i ELSE r) <= (IF j - 1 <= r THEN j - 1 ELSE r)
    OBVIOUS
  <2> DEFINE a == IF i <= r THEN i ELSE r
             b == IF j - 1 <= r THEN j - 1 ELSE r
  <2>3. a \in Int /\ b \in Int
    OBVIOUS
  <2>4. EndOfShare(i, s, r) = i * s + a /\ BeforeShare(j, s, r) = (j - 1) * s + b /\ a <= b
    BY <1>3, <2>2 DEF BeforeShare
  <2> HIDE DEF a, b
  <2> QED
    BY <2>1, <2>3, <2>4
<1> QED
  BY <1>2, <1>3, <1>4, <1>5

\* The worker of symbol x is found by division: by the longer shares among the
\* first r * (s + 1) symbols, by the shorter ones after them.
LEMMA SharesCover ==
  ASSUME NEW s \in Nat \ {0}, NEW r \in Nat, NEW c \in Nat, r < c,
         NEW x \in 1..(c * s + r)
  PROVE  \E i \in 1..c : x \in (BeforeShare(i, s, r) + 1)..EndOfShare(i, s, r)
<1>1. c * s \in Nat /\ r * (s + 1) \in Nat /\ r * (s + 1) = r * s + r /\ r * s \in Nat
  BY Product
<1>2. CASE x <= r * (s + 1)
  <2> DEFINE q == (x - 1) \div (s + 1)
             m == (x - 1) % (s + 1)
  <2>1. q \in Nat /\ m \in 0..s /\ x - 1 = (s + 1) * q + m
    <3> DEFINE a == x - 1
               d == s + 1
    <3>1. a \in Nat /\ d \in Nat \ {0} /\ s = d - 1
      BY <1>1
    <3> HIDE DEF a, d
    <3>2. /\ a \div d \in Nat /\ a % d \in 0..(d - 1)
          /\ a = d * (a \div d) + (a % d)
      BY <3>1, Division
    <3>3. q = a \div d /\ m = a % d
      BY DEF a, d
    <3> QED
      BY <3>1, <3>2, <3>3 DEF a, d
  <2> HIDE DEF q, m
  <2>2. (s + 1) * q = q * (s + 1) /\ q * (s + 1) = q * s + q /\ q * s \in Nat
    BY <2>1
  <2>3. q < r
    <3>1. q * (s + 1) < r * (s + 1)
      BY <1>1, <1>2, <2>1, <2>2
    <3> QED
      BY <2>1, <3>1, Product
  <2>4. q + 1 \in 1..c
    BY <2>1, <2>3
  <2>5. BeforeShare(q + 1, s, r) = q * s + q /\ EndOfShare(q + 1, s, r) = q * s + q + s + 1
    BY <2>1, <2>2, <2>3 DEF BeforeShare, EndOfShare
  <2>6. x \in (BeforeShare(q + 1, s, r) + 1)..EndOfShare(q + 1, s, r)
    BY <1>1, <2>1, <2>2, <2>5
  <2> QED
    BY <2>4, <2>6
<1>3. CASE x > r * (s + 1)
  <2> DEFINE y == x - 1 - r * (s + 1)
             q == y \div s
             m == y % s
  <2>1. y \in Nat /\ x = y + 1 + r * s + r
    BY <1>1, <1>3
  <2>2. q \in Nat /\ m \in 0..(s - 1) /\ y = s * q + m
    <3> HIDE DEF y
    <3> QED
      BY <2>1, Division
  <2> HIDE DEF q, m, y
  <2>3. s * q = q * s /\ q * s \in Nat /\ (r + q) * s = r * s + q * s
    BY <2>2
  <2>4. r + q < c
    <3>1. (r + q) * s < c * s
      BY <1>1, <2>1, <2>2, <2>3
    <3> QED
      BY <2>2, <3>1, Product
  <2>5. r + q + 1 \in 1..c
    BY <2>2, <2>4
  <2>6. /\ BeforeShare(r + q + 1, s, r) = r * s + q * s + r
        /\ EndOfShare(r + q + 1, s, r) = r * s + q * s + r + s
    BY <1>1, <2>2, <2>3 DEF BeforeShare, EndOfShare
  <2>7. x \in (BeforeShare(r + q + 1, s, r) + 1)..EndOfShare(r + q + 1, s, r)
    BY <1>1, <2>1, <2>2, <2>3, <2>6
  <2> QED
    BY <2>5, <2>7
<1> QED
  BY <1>1, <1>2, <1>3

LEMMA MinOfTwo ==
  ASSUME NEW a \in Int, NEW b \in Int
  PROVE  Min({a, b}) = IF a <= b THEN a ELSE b
  BY DEF Min

\* What distributeSymbols promises: for every number of symbols and every limit,
\* each symbol is in one chunk, and no chunk exceeds the limit.
LEMMA SharesAreRight ==
  ASSUME NEW n \in Nat \ {0}
  PROVE  /\ \A i \in 1..workerCount(n) :
              /\ distributeSymbols(n, i) \subseteq 1..n
              /\ IsFiniteSet(distributeSymbols(n, i))
              /\ Cardinality(distributeSymbols(n, i)) <= MaxSymbols
              /\ \A j \in 1..workerCount(n) \ {i} :
                   distributeSymbols(n, i) \intersect distributeSymbols(n, j) = {}
         /\ \A x \in 1..n : \E i \in 1..workerCount(n) : x \in distributeSymbols(n, i)
<1> DEFINE c == workerCount(n)
           s == n \div c
           r == n % c
<1>1. c \in Nat \ {0} /\ c <= n /\ n <= c * MaxSymbols /\ MaxSymbols \in Nat \ {0}
  BY WorkerCountIsRight, PoolAssumption
<1>2. s \in Nat /\ r \in Nat /\ r < c /\ n = c * s + r
  <2> HIDE DEF c
  <2> QED
    BY <1>1, Division
<1>3. ASSUME NEW i \in 1..c
      PROVE  distributeSymbols(n, i) = (BeforeShare(i, s, r) + 1)..EndOfShare(i, s, r)
  <2>1. Min({i - 1, r}) = IF i - 1 <= r THEN i - 1 ELSE r
    <3> HIDE DEF r, c
    <3> QED
      BY <1>1, <1>2, MinOfTwo
  <2> QED
    BY <2>1 DEF distributeSymbols, BeforeShare, EndOfShare
<1> HIDE DEF c, s, r
<1>4. s \in Nat \ {0}
  <2>1. s # 0
    <3>1. s = 0 => c * s = 0
      BY <1>1
    <3> QED
      BY <1>1, <1>2, <3>1
  <2> QED
    BY <1>2, <2>1
<1>5. s + (IF r = 0 THEN 0 ELSE 1) <= MaxSymbols
  <2>1. s * c = c * s /\ MaxSymbols * c = c * MaxSymbols /\ s * c \in Nat /\ MaxSymbols * c \in Nat
    BY <1>1, <1>2
  <2>2. CASE r = 0
    <3>1. ~(MaxSymbols * c < s * c)
      BY <1>1, <1>2, <2>1, <2>2
    <3>2. MaxSymbols + 1 <= s => (MaxSymbols + 1) * c <= s * c
      BY <1>1, <1>2, Product
    <3>3. (MaxSymbols + 1) * c = MaxSymbols * c + c
      BY <1>1, Product
    <3> QED
      BY <1>1, <1>2, <2>1, <2>2, <3>1, <3>2, <3>3
  <2>3. CASE r # 0
    <3>1. s * c < MaxSymbols * c
      BY <1>1, <1>2, <2>1, <2>3
    <3>2. s < MaxSymbols
      BY <1>1, <1>2, <3>1, Product
    <3> QED
      BY <1>1, <1>2, <2>3, <3>2
  <2> QED
    BY <2>2, <2>3
<1>6. ASSUME NEW i \in 1..c
      PROVE  /\ distributeSymbols(n, i) \subseteq 1..n
             /\ IsFiniteSet(distributeSymbols(n, i))
             /\ Cardinality(distributeSymbols(n, i)) <= MaxSymbols
  <2>1. /\ BeforeShare(i, s, r) \in Nat /\ EndOfShare(i, s, r) \in Nat
        /\ EndOfShare(i, s, r) <= n
    BY <1>1, <1>2, ShareBounds
  <2>2. EndOfShare(i, s, r) = BeforeShare(i, s, r) + s + (IF i <= r THEN 1 ELSE 0)
    BY DEF EndOfShare
  <2> DEFINE a == BeforeShare(i, s, r) + 1
             b == EndOfShare(i, s, r)
  <2>3. a \in Nat /\ a >= 1 /\ b \in Nat /\ b <= n /\ a <= b + 1 /\ b - a + 1 <= MaxSymbols
    BY <1>1, <1>2, <1>5, <2>1, <2>2
  <2> HIDE DEF a, b
  <2>4. IsFiniteSet(a..b) /\ Cardinality(a..b) = IF a > b THEN 0 ELSE b - a + 1
    BY <2>3, FS_Interval
  <2>5. a..b \subseteq 1..n /\ Cardinality(a..b) <= MaxSymbols
    BY <1>1, <2>3, <2>4
  <2>6. distributeSymbols(n, i) = a..b
    BY <1>3 DEF a, b
  <2> QED
    BY <2>4, <2>5, <2>6
<1>7. ASSUME NEW i \in 1..c, NEW j \in 1..c, i < j
      PROVE  distributeSymbols(n, i) \intersect distributeSymbols(n, j) = {}
  <2>1. /\ BeforeShare(i, s, r) \in Nat /\ EndOfShare(i, s, r) \in Nat
        /\ BeforeShare(j, s, r) \in Nat /\ EndOfShare(j, s, r) \in Nat
        /\ EndOfShare(i, s, r) <= BeforeShare(j, s, r)
    <3>1. j \in (i + 1)..c
      BY <1>1, <1>7
    <3> QED
      BY <1>1, <1>2, <3>1, ShareBounds
  <2> QED
    BY <1>3, <2>1
<1>8. ASSUME NEW x \in 1..n
      PROVE  \E i \in 1..c : x \in distributeSymbols(n, i)
  <2>1. PICK i \in 1..c : x \in (BeforeShare(i, s, r) + 1)..EndOfShare(i, s, r)
    BY <1>1, <1>2, <1>4, SharesCover
  <2> QED
    BY <1>3, <2>1
<1>9. ASSUME NEW i \in 1..c, NEW j \in 1..c \ {i}
      PROVE  distributeSymbols(n, i) \intersect distributeSymbols(n, j) = {}
  <2>1. i < j \/ j < i
    BY <1>1
  <2> QED
    BY <1>7, <2>1
<1> QED
  BY <1>6, <1>8, <1>9 DEF c

\* The first k workers of the pool were made, each with its share - if there is a
\* connector for them.
MadeUpTo(p, k) ==
  p \in Registered => \A i \in 1..k : <<p, i>> \in Workers /\ chunk[<<p, i>>] = distributeSymbols(symbols[p], i)

StarterStates ==
  [at : {"idle", "between", "spawning", "returned"}, pools : SUBSET Pools,
   pool : Pools \union {"none"}, next : Nat]

\* A worker has no symbols yet or its share of them; a running pool has all its
\* workers.
ChunksAreRight ==
  /\ symbols \in [Pools -> Nat]
  /\ chunk \in [Workers -> SUBSET Nat]
  /\ \A p \in Pools : symbols[p] > 0 => \A i \in 1..workerCount(symbols[p]) : <<p, i>> \in Workers
  /\ \A w \in Workers :
       \/ chunk[w] = {}
       \/ /\ w[1] \in Registered /\ w[2] \in 1..workerCount(symbols[w[1]])
          /\ chunk[w] = distributeSymbols(symbols[w[1]], w[2])
  /\ \A p \in Pools : running[p] => symbols[p] > 0 /\ MadeUpTo(p, workerCount(symbols[p]))

\* Until Start has read the lists nothing has been made; while it spawns the
\* workers of a pool, it has made those before the next.
StarterIsRight ==
  /\ starter \in StarterStates
  /\ \A p \in starter.pools : symbols[p] > 0
  /\ starter.at = "idle" => /\ \A w \in Workers : chunk[w] = {}
                            /\ \A p \in Pools : ~running[p]
  /\ starter.at = "spawning" =>
       /\ starter.pool \in Pools /\ symbols[starter.pool] > 0
       /\ starter.next \in 1..(workerCount(symbols[starter.pool]) + 1)
       /\ MadeUpTo(starter.pool, starter.next - 1)

ShareInv == ChunksAreRight /\ StarterIsRight

LEMMA CountIsPositive ==
  ASSUME NEW n \in Nat, n > 0
  PROVE  workerCount(n) \in Nat \ {0}
  BY WorkerCountIsRight

LEMMA ShareInit == Init => ShareInv
<1> SUFFICES ASSUME Init PROVE ShareInv
  OBVIOUS
<1> USE DEF Init
<1>1. ChunksAreRight
  BY DEF ChunksAreRight
<1>2. StarterIsRight
  BY DEF StarterIsRight, StarterStates
<1> QED
  BY <1>1, <1>2 DEF ShareInv

\* The lists fix the symbols before any worker is made.
LEMMA ListsKeepShares ==
  ASSUME ShareInv, TaskManagerStart
  PROVE  ShareInv'
<1>1. PICK list \in Lists :
        symbols' = [p \in Pools |-> IF p \notin Enabled THEN 0
                                    ELSE IF list[p] > 0 THEN list[p] ELSE Fallback[p]]
  BY DEF TaskManagerStart
<1> DEFINE left == {p \in Pools : symbols'[p] > 0}
<1>2. /\ starter.at = "idle" /\ UNCHANGED <<chunk, running>>
      /\ starter' = [starter EXCEPT !.at = "between", !.pools = left]
  BY DEF TaskManagerStart
<1>3. list \in [Pools -> Nat] /\ Fallback \in [Pools -> Nat]
  BY PoolAssumption
<1>4. symbols' \in [Pools -> Nat]
  BY <1>1, <1>3
<1>5. ASSUME NEW p \in Pools, symbols'[p] > 0, NEW i \in 1..workerCount(symbols'[p])
      PROVE  <<p, i>> \in Workers
  <2>1. p \in Enabled /\ (symbols'[p] = list[p] \/ symbols'[p] = Fallback[p])
    BY <1>1, <1>5
  <2>2. symbols'[p] \in {l[p] : l \in Lists} \union {Fallback[p]}
    BY <2>1
  <2> QED
    BY <1>5, <2>1, <2>2, WorkersOfPools
<1>6. (\A w \in Workers : chunk'[w] = {}) /\ (\A p \in Pools : ~running'[p])
  BY <1>2 DEF ShareInv, StarterIsRight
<1>7. ChunksAreRight'
  BY <1>2, <1>4, <1>5, <1>6 DEF ShareInv, ChunksAreRight
<1>8. StarterIsRight'
  <2>1. left \in SUBSET Pools /\ \A p \in left : symbols'[p] > 0
    OBVIOUS
  <2> HIDE DEF left
  <2>2. starter' \in StarterStates /\ starter'.at = "between" /\ starter'.pools = left
    BY <1>2, <2>1 DEF ShareInv, StarterIsRight, StarterStates
  <2> QED
    BY <2>1, <2>2 DEF StarterIsRight
<1> QED
  BY <1>7, <1>8 DEF ShareInv

\* The next worker is made with its share; those made before keep theirs.
LEMMA SpawnKeepsShares ==
  ASSUME ShareInv, SpawnWorker
  PROVE  ShareInv'
<1>1. PICK p, k : p = starter.pool /\ k = starter.next
  OBVIOUS
<1> DEFINE n == symbols[p]
           w == <<p, k>>
<1> USE DEF ShareInv
<1>2. /\ starter.at = "spawning" /\ k <= workerCount(n) /\ p \in Registered
      /\ chunk' = [chunk EXCEPT ![w] = distributeSymbols(symbols[w[1]], w[2])]
      /\ starter' = [starter EXCEPT !.next = @ + 1]
      /\ UNCHANGED <<symbols, running>>
  BY <1>1 DEF SpawnWorker
<1>3. /\ p \in Pools /\ n \in Nat /\ n > 0 /\ k \in 1..(workerCount(n) + 1)
      /\ MadeUpTo(p, k - 1) /\ starter \in StarterStates
  BY <1>1, <1>2 DEF StarterIsRight, ChunksAreRight
<1>4. workerCount(n) \in Nat \ {0}
  BY <1>3, CountIsPositive
<1>5. k \in 1..workerCount(n) /\ w \in Workers
  BY <1>2, <1>3, <1>4 DEF ChunksAreRight
<1>6. w[1] = p /\ w[2] = k
  OBVIOUS
<1>7. distributeSymbols(n, k) \subseteq Nat
  BY <1>3, <1>5, SharesAreRight
<1>8. /\ chunk' \in [Workers -> SUBSET Nat]
      /\ chunk'[w] = distributeSymbols(n, k)
      /\ \A v \in Workers \ {w} : chunk'[v] = chunk[v]
  BY <1>2, <1>5, <1>6, <1>7 DEF ChunksAreRight
<1>9. ASSUME NEW q \in Pools, NEW m, MadeUpTo(q, m)
      PROVE  MadeUpTo(q, m)'
  <2> SUFFICES ASSUME q \in Registered, NEW i \in 1..m
               PROVE  <<q, i>> \in Workers /\ chunk'[<<q, i>>] = distributeSymbols(symbols[q], i)
    BY <1>2 DEF MadeUpTo
  <2>1. <<q, i>> \in Workers /\ chunk[<<q, i>>] = distributeSymbols(symbols[q], i)
    BY <1>9 DEF MadeUpTo
  <2>2. CASE <<q, i>> = w
    <3>1. q = p /\ i = k
      BY <2>2
    <3> QED
      BY <1>8, <2>1, <3>1
  <2>3. CASE <<q, i>> # w
    BY <1>8, <2>1, <2>3
  <2> QED
    BY <2>2, <2>3
<1>10. ChunksAreRight'
  <2>1. ASSUME NEW v \in Workers
        PROVE  \/ chunk'[v] = {}
               \/ /\ v[1] \in Registered /\ v[2] \in 1..workerCount(symbols[v[1]])
                  /\ chunk'[v] = distributeSymbols(symbols[v[1]], v[2])
    <3>1. CASE v = w
      BY <1>2, <1>5, <1>6, <1>8, <3>1
    <3>2. CASE v # w
      BY <1>8, <3>2 DEF ChunksAreRight
    <3> QED
      BY <3>1, <3>2
  <2>2. ASSUME NEW q \in Pools, running[q]
        PROVE  symbols[q] > 0 /\ MadeUpTo(q, workerCount(symbols[q]))'
    <3>1. MadeUpTo(q, workerCount(symbols[q])) /\ symbols[q] > 0
      BY <2>2 DEF ChunksAreRight
    <3>2. q \in Registered => \A i \in 1..workerCount(symbols[q]) :
            <<q, i>> \in Workers /\ chunk'[<<q, i>>] = distributeSymbols(symbols[q], i)
      BY <1>2, <1>9, <3>1 DEF MadeUpTo
    <3> QED
      BY <1>2, <3>1, <3>2 DEF MadeUpTo
  <2> QED
    BY <1>2, <1>8, <2>1, <2>2 DEF ChunksAreRight
<1>11. StarterIsRight'
  <2>1. /\ starter' \in StarterStates /\ starter'.at = "spawning" /\ starter'.pool = p
        /\ starter'.next = k + 1 /\ starter'.pools = starter.pools
    BY <1>1, <1>2, <1>3 DEF StarterStates
  <2>2. k + 1 \in 1..(workerCount(n) + 1)
    BY <1>4, <1>5
  <2>3. \A i \in 1..k : <<p, i>> \in Workers /\ chunk'[<<p, i>>] = distributeSymbols(n, i)
    <3>1. \A i \in 1..(k - 1) : <<p, i>> \in Workers /\ chunk'[<<p, i>>] = distributeSymbols(n, i)
      BY <1>2, <1>3, <1>9 DEF MadeUpTo
    <3>2. \A i \in 1..k : i \in 1..(k - 1) \/ i = k
      BY <1>3
    <3> QED
      BY <1>5, <1>8, <3>1, <3>2
  <2>4. MadeUpTo(p, k + 1 - 1)'
    <3>1. \A i \in 1..(k + 1 - 1) : i \in 1..k
      BY <1>3
    <3> QED
      BY <1>2, <2>3, <3>1 DEF MadeUpTo
  <2>5. \A q \in starter'.pools : symbols'[q] > 0
    BY <1>2, <2>1 DEF StarterIsRight
  <2> QED
    BY <1>2, <1>3, <2>1, <2>2, <2>4, <2>5 DEF StarterIsRight
<1> QED
  BY <1>10, <1>11

LEMMA SharesKept ==
  ASSUME ShareInv, UNCHANGED <<symbols, chunk, running, starter>>
  PROVE  ShareInv'
  BY DEF ShareInv, ChunksAreRight, StarterIsRight, MadeUpTo

LEMMA ShareNext == StopperIsRight /\ ShareInv /\ [Next]_vars => ShareInv'
<1> SUFFICES ASSUME StopperIsRight, ShareInv, [Next]_vars
             PROVE  ShareInv'
  OBVIOUS
<1>1. CASE TaskManagerStart
  BY <1>1, ListsKeepShares
<1>2. CASE SpawnWorker
  BY <1>2, SpawnKeepsShares
<1>3. ASSUME NEW p \in Pools, PoolStart(p)
      PROVE  ShareInv'
  <2>1. /\ UNCHANGED <<symbols, chunk, running>> /\ p \in starter.pools
        /\ starter' = [at |-> "spawning", pools |-> starter.pools \ {p}, pool |-> p, next |-> 1]
    BY <1>3 DEF PoolStart
  <2>2. ChunksAreRight' /\ symbols[p] \in Nat /\ symbols[p] > 0
    BY <2>1 DEF ShareInv, ChunksAreRight, StarterIsRight, MadeUpTo
  <2>3. 1 \in 1..(workerCount(symbols[p]) + 1)
    BY <2>2, CountIsPositive
  <2>4. MadeUpTo(p, 1 - 1)'
    BY DEF MadeUpTo
  <2>5. starter' \in StarterStates
    BY <2>1 DEF ShareInv, StarterIsRight, StarterStates
  <2> QED
    BY <2>1, <2>2, <2>3, <2>4, <2>5 DEF ShareInv, StarterIsRight
<1>4. CASE PoolStarted
  <2> DEFINE p == starter.pool
  <2>1. /\ UNCHANGED <<symbols, chunk>> /\ starter.at = "spawning"
        /\ starter.next > workerCount(symbols[p])
        /\ starter' = [starter EXCEPT !.at = "between", !.pool = "none", !.next = 0]
    BY <1>4 DEF PoolStarted
  <2>2. /\ p \in Pools /\ symbols[p] \in Nat /\ symbols[p] > 0
        /\ starter.next \in 1..(workerCount(symbols[p]) + 1) /\ MadeUpTo(p, starter.next - 1)
    BY <2>1 DEF ShareInv, ChunksAreRight, StarterIsRight
  <2>3. starter.next - 1 = workerCount(symbols[p])
    BY <2>1, <2>2, CountIsPositive
  <2>4. \A q \in Pools : running'[q] => q = p \/ running[q]
    BY <1>4, Zenon DEF PoolStarted, StopperIsRight
  <2>5. ChunksAreRight'
    <3>1. \A q \in Pools : running'[q] => symbols[q] > 0 /\ MadeUpTo(q, workerCount(symbols[q]))
      BY <2>2, <2>3, <2>4 DEF ShareInv, ChunksAreRight
    <3> QED
      BY <2>1, <3>1 DEF ShareInv, ChunksAreRight, MadeUpTo
  <2>6. /\ starter' \in StarterStates /\ starter'.at = "between"
        /\ starter'.pools = starter.pools
    BY <2>1 DEF ShareInv, StarterIsRight, StarterStates
  <2>7. StarterIsRight'
    BY <2>1, <2>6 DEF ShareInv, StarterIsRight
  <2> QED
    BY <2>5, <2>7 DEF ShareInv
<1>5. CASE TaskManagerStarted
  <2>1. /\ UNCHANGED <<symbols, chunk, running>>
        /\ starter' = [starter EXCEPT !.at = "returned"]
    BY <1>5 DEF TaskManagerStarted, poolVars
  <2>2. starter' \in StarterStates /\ starter'.at = "returned" /\ starter'.pools = starter.pools
    BY <2>1 DEF ShareInv, StarterIsRight, StarterStates
  <2> QED
    BY <2>1, <2>2 DEF ShareInv, ChunksAreRight, StarterIsRight, MadeUpTo
<1>6. CASE PoolStopped
  <2>1. UNCHANGED <<symbols, chunk, starter>>
    BY <1>6 DEF PoolStopped
  <2>2. \A p \in Pools : running'[p] => running[p]
    BY <1>6, Zenon DEF PoolStopped, StopperIsRight
  <2> QED
    BY <2>1, <2>2 DEF ShareInv, ChunksAreRight, StarterIsRight, MadeUpTo
<1>7. CASE \/ TaskManagerStop \/ (\E p \in Pools : PoolStop(p)) \/ TaskManagerStopped
           \/ (\E w \in Workers : WorkerBegins(w) \/ WorkerWorks(w) \/ WorkerEnds(w))
           \/ updatePoolStats \/ MonitorEnds
  BY <1>7, SharesKept DEF TaskManagerStop, PoolStop, TaskManagerStopped, WorkerBegins, WorkerWorks,
     WorkerEnds, updatePoolStats, MonitorEnds, poolVars, managerVars
<1>8. CASE UNCHANGED vars
  BY <1>8, SharesKept DEF vars, poolVars, managerVars
<1>9. CASE ConnectorFails
  <2>0. PICK p : p = starter.pool
    OBVIOUS
  <2>1. /\ UNCHANGED <<symbols, chunk, running>> /\ starter.at = "spawning" /\ p \notin Registered
        /\ starter.next <= workerCount(symbols[p]) /\ starter' = [starter EXCEPT !.next = @ + 1]
    BY <1>9, <2>0 DEF ConnectorFails, poolVars
  <2>2. /\ p \in Pools /\ symbols[p] \in Nat /\ symbols[p] > 0
        /\ starter.next \in 1..(workerCount(symbols[p]) + 1)
    BY <2>0, <2>1 DEF ShareInv, ChunksAreRight, StarterIsRight
  <2>3. starter.next + 1 \in 1..(workerCount(symbols[p]) + 1)
    BY <2>1, <2>2, CountIsPositive
  <2>4. /\ starter' \in StarterStates /\ starter'.at = "spawning" /\ starter'.pool = p
        /\ starter'.next = starter.next + 1 /\ starter'.pools = starter.pools
    BY <2>0, <2>1, <2>2 DEF ShareInv, StarterIsRight, StarterStates
  <2>5. ChunksAreRight' /\ MadeUpTo(starter.pool, starter.next - 1)'
    BY <2>0, <2>1, <2>4 DEF ShareInv, ChunksAreRight, MadeUpTo
  <2>6. \A q \in starter'.pools : symbols'[q] > 0
    BY <2>1, <2>4 DEF ShareInv, StarterIsRight
  <2> QED
    BY <2>0, <2>1, <2>2, <2>3, <2>4, <2>5, <2>6 DEF ShareInv, StarterIsRight
<1> QED
  BY <1>1, <1>2, <1>3, <1>4, <1>5, <1>6, <1>7, <1>8, <1>9 DEF Next, StarterStep, StopperStep

\* From the chunks to the property: a started pool has all of them, and they are
\* those of distributeSymbols.
LEMMA SharesAreEnough ==
  ASSUME ChunksAreRight
  PROVE  EverySymbolHasOneWorker
<1> SUFFICES ASSUME NEW p \in Pools, running[p]
             PROVE  /\ UNION {chunk[w] : w \in WorkersOf(p)}
                         = IF p \in Registered THEN 1..symbols[p] ELSE {}
                    /\ \A w \in WorkersOf(p) :
                         /\ Cardinality(chunk[w]) <= MaxSymbols
                         /\ \A v \in WorkersOf(p) \ {w} : chunk[w] \intersect chunk[v] = {}
  BY DEF EverySymbolHasOneWorker
<1> DEFINE n == symbols[p]
           c == workerCount(n)
<1>1. n \in Nat \ {0} /\ MadeUpTo(p, c)
  BY DEF ChunksAreRight
<1>2. ASSUME NEW w \in WorkersOf(p)
      PROVE  /\ w \in Workers
             /\ \/ chunk[w] = {}
                \/ p \in Registered /\ w[2] \in 1..c /\ chunk[w] = distributeSymbols(n, w[2])
  BY DEF WorkersOf, ChunksAreRight
<1> HIDE DEF n, c
<1>3. /\ \A i \in 1..c : distributeSymbols(n, i) \subseteq 1..n
      /\ \A i \in 1..c : Cardinality(distributeSymbols(n, i)) <= MaxSymbols
      /\ \A i \in 1..c, j \in 1..c : i # j => distributeSymbols(n, i) \intersect distributeSymbols(n, j) = {}
  BY <1>1, SharesAreRight DEF c
<1>4. \A w \in WorkersOf(p) : chunk[w] \subseteq 1..n
  BY <1>3, <1>2
<1>5. ASSUME p \in Registered, NEW x \in 1..n
      PROVE  \E w \in WorkersOf(p) : x \in chunk[w]
  <2>1. PICK i \in 1..c : x \in distributeSymbols(n, i)
    BY <1>1, SharesAreRight DEF c
  <2>2. <<p, i>> \in WorkersOf(p) /\ chunk[<<p, i>>] = distributeSymbols(n, i)
    BY <1>1, <1>5 DEF MadeUpTo, WorkersOf, n
  <2> QED
    BY <2>1, <2>2
<1>6. UNION {chunk[w] : w \in WorkersOf(p)} = IF p \in Registered THEN 1..n ELSE {}
  <2>1. CASE p \in Registered
    BY <1>4, <1>5, <2>1
  <2>2. CASE p \notin Registered
    BY <1>2, <2>2
  <2> QED
    BY <2>1, <2>2
<1>7. ASSUME NEW w \in WorkersOf(p)
      PROVE  Cardinality(chunk[w]) <= MaxSymbols
  <2>1. MaxSymbols \in Nat /\ Cardinality({}) = 0
    BY PoolAssumption, FS_EmptySet
  <2>2. CASE chunk[w] = {}
    BY <2>1, <2>2
  <2>3. CASE w[2] \in 1..c /\ chunk[w] = distributeSymbols(n, w[2])
    BY <1>3, <2>3
  <2> QED
    BY <1>2, <2>2, <2>3
<1>8. ASSUME NEW w \in WorkersOf(p), NEW v \in WorkersOf(p) \ {w}
      PROVE  chunk[w] \intersect chunk[v] = {}
  <2>1. w[1] = p /\ v[1] = p /\ w \in Pools \X (Nat \ {0}) /\ v \in Pools \X (Nat \ {0})
    BY PoolAssumption DEF WorkersOf
  <2>2. w[2] # v[2]
    BY <2>1
  <2>3. CASE chunk[w] = {} \/ chunk[v] = {}
    BY <2>3
  <2>4. CASE chunk[w] # {} /\ chunk[v] # {}
    <3>1. /\ w[2] \in 1..c /\ chunk[w] = distributeSymbols(n, w[2])
          /\ v[2] \in 1..c /\ chunk[v] = distributeSymbols(n, v[2])
      BY <1>2, <2>4
    <3> QED
      BY <1>3, <2>2, <3>1
  <2> QED
    BY <2>3, <2>4
<1> QED
  BY <1>6, <1>7, <1>8 DEF n

-----------------------------------------------------------------------------
(* The theorems *)

\* The variables of a worker keep their types.
THEOREM TypeCorrect == Spec => []WorkerTypeOK
<1>1. Inv => WorkerTypeOK
  BY DEF Inv, WorkerInv
<1> QED
  BY <1>1, InvTheorem, PTL

\* However dials, failing pings, reads that fail and panics alternate, at most
\* one goroutine reads a worker's connection, and none while the worker dials.
THEOREM OneReceiverTheorem == Spec => []OneReceiver
<1>1. Inv => OneReceiver
  BY DEF Inv, WorkerInv
<1> QED
  BY <1>1, InvTheorem, PTL

\* Whatever the channels are too full to take, the callback sees trades in the
\* order in which their messages were received.
THEOREM OrderTheorem == Spec => []TradesInOrder
<1>1. Inv => WorkerTypeOK
  BY DEF Inv, WorkerInv
<1>2. WorkerTypeOK /\ OrderIsRight => TradesInOrder
  BY QueueIsQueue DEF WorkerTypeOK, OrderIsRight, TradesInOrder
<1> QED
  BY <1>1, <1>2, InvTheorem, OrderInit, OrderNext, PTL DEF Spec

\* Whatever the lists answer, the workers of a running pool whose exchange has a
\* connector share its symbols out among them, none twice, and within the limit of
\* a connection.
THEOREM ShareTheorem == Spec => []EverySymbolHasOneWorker
<1>1. Inv => StopperIsRight
  BY DEF Inv
<1>2. ShareInv => EverySymbolHasOneWorker
  BY SharesAreEnough DEF ShareInv
<1> QED
  BY <1>1, <1>2, InvTheorem, ShareInit, ShareNext, PTL DEF Spec

\* The counter that the Stop of a pool waits for to reach zero is at each moment
\* the number of the pool's workers in their loops, also when some have panicked.
THEOREM ActiveTheorem == Spec => [](\A p \in Pools : active[p] = Cardinality(RunningOf(p)))
<1>1. Inv => \A p \in Pools : active[p] = Cardinality(RunningOf(p))
  BY DEF Inv, ActiveIsRight
<1> QED
  BY <1>1, InvTheorem, PTL
=============================================================================
