----------------------------- MODULE SafeWorker -----------------------------
(***************************************************************************)
(* The workers of internal/websocket/safe_worker.go: one event loop each,  *)
(* which dials, pings, parses and delivers, and the goroutine that reads   *)
(* the connection. What starts and counts the loops is SafeTaskManager.    *)
(*                                                                         *)
(* A message is the number it was received under; the trades parsed from   *)
(* it carry that number. Counters for display are left out, and with them  *)
(* the length of the back-off: the timer is armed or it is not.            *)
(***************************************************************************)
EXTENDS Naturals, Sequences, FiniteSets

CONSTANTS
  Workers,          \* the workers
  Reachable,        \* the workers whose exchange can be reached
  MessageCap,       \* cap(messageChan), 2000
  TradeCap,         \* cap(tradeChan), 500000
  Direct,           \* the workers whose Stop is called; by nobody in a pool
  TradesPerMessage, \* bound: trades in one message
  MaxMessages       \* bound, [Workers -> Nat]: messages a worker receives

ASSUME WorkerAssumption ==
  /\ IsFiniteSet(Workers) /\ Direct \subseteq Workers /\ Reachable \subseteq Workers
  /\ {MessageCap, TradeCap} \subseteq Nat \ {0}
  /\ TradesPerMessage \in Nat
  /\ MaxMessages \in [Workers -> Nat]

VARIABLES
  loop,       \* where the goroutine that runs Start is
  done,       \* w.ctx is cancelled
  timer,      \* connectTimer is armed, or has fired and not been received
  connected,  \* w.connected
  conn,       \* w.conn: "nil" or "open", whatever its peer has done to it
  receivers,  \* how many receiveMessages goroutines are at each of their steps
  messageChan, tradeChan,
  received,   \* MessageCount
  delivered   \* the number carried by the last trade handed to the callback

workerVars == <<loop, done, timer, connected, conn, receivers,
                messageChan, tradeChan, received, delivered>>

LoopSteps == {"none", "spawned", "select", "dialing", "dialed", "attempted",
              "leaving", "ended"}
ReceiverSteps == {"top", "reading", "returning"}

\* The loop was entered and has not been left: the goroutine counts as active.
Running(w) == loop[w] \notin {"none", "spawned", "ended"}

Receiving(w) == receivers[w]["top"] + receivers[w]["reading"] + receivers[w]["returning"]

isConnected(w) == connected[w] /\ conn[w] # "nil"

WorkerInit ==
  /\ loop = [w \in Workers |-> "none"]
  /\ done = [w \in Workers |-> FALSE]
  /\ timer = [w \in Workers |-> FALSE]
  /\ connected = [w \in Workers |-> FALSE]
  /\ conn = [w \in Workers |-> "nil"]
  /\ receivers = [w \in Workers |-> [s \in ReceiverSteps |-> 0]]
  /\ messageChan = [w \in Workers |-> <<>>]
  /\ tradeChan = [w \in Workers |-> <<>>]
  /\ received = [w \in Workers |-> 0]
  /\ delivered = [w \in Workers |-> 0]

-----------------------------------------------------------------------------
(* The event loop *)

Goto(w, from, to) ==
  /\ loop[w] = from
  /\ loop' = [loop EXCEPT ![w] = to]

\* Start: the timer of the event loop fires at once.
Start(w) ==
  /\ Goto(w, "spawned", "select")
  /\ timer' = [timer EXCEPT ![w] = TRUE]
  /\ UNCHANGED <<done, connected, conn, receivers, messageChan, tradeChan, received, delivered>>

ContextDone(w) ==
  /\ done[w]
  /\ Goto(w, "select", "leaving")
  /\ UNCHANGED <<done, timer, connected, conn, receivers, messageChan, tradeChan, received, delivered>>

\* case <-connectTimer.C: attemptConnection, which dials unless connected.
TimerFires(w) ==
  /\ timer[w]
  /\ Goto(w, "select", IF isConnected(w) THEN "attempted" ELSE "dialing")
  /\ timer' = [timer EXCEPT ![w] = FALSE]
  /\ UNCHANGED <<done, connected, conn, receivers, messageChan, tradeChan, received, delivered>>

DialFails(w) ==
  /\ Goto(w, "dialing", "attempted")
  /\ UNCHANGED <<done, timer, connected, conn, receivers, messageChan, tradeChan, received, delivered>>

\* The dial does not look at the context, so this may follow a cancellation.
DialSucceeds(w) ==
  /\ w \in Reachable
  /\ Goto(w, "dialing", "dialed")
  /\ connected' = [connected EXCEPT ![w] = TRUE]
  /\ conn' = [conn EXCEPT ![w] = "open"]
  /\ UNCHANGED <<done, timer, receivers, messageChan, tradeChan, received, delivered>>

\* onConnected, and go receiveMessages().
GoReceive(w) ==
  /\ Goto(w, "dialed", "attempted")
  /\ receivers' = [receivers EXCEPT ![w]["top"] = @ + 1]
  /\ UNCHANGED <<done, timer, connected, conn, messageChan, tradeChan, received, delivered>>

\* Mutant: the timer is armed again whatever the outcome.
ArmTimer_Always(w) ==
  /\ Goto(w, "attempted", "select")
  /\ timer' = [timer EXCEPT ![w] = TRUE]
  /\ UNCHANGED <<done, connected, conn, receivers, messageChan, tradeChan, received, delivered>>

\* After the attempt the timer is armed again if there is no connection, and
\* only then: nothing else arms it.
ArmTimer(w) ==
  /\ Goto(w, "attempted", "select")
  /\ timer' = [timer EXCEPT ![w] = ~isConnected(w)]
  /\ UNCHANGED <<done, connected, conn, receivers, messageChan, tradeChan, received, delivered>>

\* A ping that cannot be written marks the worker as not connected. A ping that
\* is written, or that finds no connection, changes nothing.
PingFails(w) ==
  /\ loop[w] = "select" /\ isConnected(w)
  /\ connected' = [connected EXCEPT ![w] = FALSE]
  /\ UNCHANGED <<loop, done, timer, conn, receivers, messageChan, tradeChan, received, delivered>>

\* Mutant: trades that find the channel full are delivered at once, not dropped.
processRawMessage_Bypass(w) ==
  /\ loop[w] = "select" /\ messageChan[w] # <<>>
  /\ messageChan' = [messageChan EXCEPT ![w] = Tail(@)]
  /\ IF Len(tradeChan[w]) = TradeCap
     THEN delivered' = [delivered EXCEPT ![w] = Head(messageChan[w])] /\ UNCHANGED tradeChan
     ELSE tradeChan' = [tradeChan EXCEPT ![w] = Append(@, Head(messageChan[w]))] /\ UNCHANGED delivered
  /\ UNCHANGED <<loop, done, timer, connected, conn, receivers, received>>

\* The trades of the message - none if it does not parse - go into tradeChan,
\* as many as there is room for.
processRawMessage(w) ==
  /\ loop[w] = "select" /\ messageChan[w] # <<>>
  /\ messageChan' = [messageChan EXCEPT ![w] = Tail(@)]
  /\ \E n \in 0..TradesPerMessage :
       tradeChan' = [tradeChan EXCEPT ![w] =
         LET all == @ \o [k \in 1..n |-> Head(messageChan[w])]
         IN SubSeq(all, 1, IF Len(all) < TradeCap THEN Len(all) ELSE TradeCap)]
  /\ UNCHANGED <<loop, done, timer, connected, conn, receivers, received, delivered>>

\* case tradeEvent := <-tradeChan: the callback; when it panics, the deferred
\* functions of Start and of the pool's goroutine run.
DeliverTrade(w) ==
  /\ loop[w] = "select" /\ tradeChan[w] # <<>>
  /\ tradeChan' = [tradeChan EXCEPT ![w] = Tail(@)]
  /\ delivered' = [delivered EXCEPT ![w] = Head(tradeChan[w])]
  /\ loop' \in {loop, [loop EXCEPT ![w] = "leaving"]}
  /\ UNCHANGED <<done, timer, connected, conn, receivers, messageChan, received>>

\* The deferred cleanup closes the connection under w.mu.
cleanup(w) ==
  /\ Goto(w, "leaving", "ended")
  /\ conn' = [conn EXCEPT ![w] = "nil"]
  /\ connected' = [connected EXCEPT ![w] = FALSE]
  /\ timer' = [timer EXCEPT ![w] = FALSE]
  /\ UNCHANGED <<done, receivers, messageChan, tradeChan, received, delivered>>

\* Stop cancels the worker's own context, a child of context.Background().
Stop(w) ==
  /\ w \in Direct /\ Running(w) /\ ~done[w]
  /\ done' = [done EXCEPT ![w] = TRUE]
  /\ UNCHANGED <<loop, timer, connected, conn, receivers, messageChan, tradeChan, received, delivered>>

-----------------------------------------------------------------------------
(* receiveMessages *)

Move(w, from, to) ==
  /\ receivers[w][from] > 0
  /\ receivers' = [receivers EXCEPT ![w][from] = @ - 1, ![w][to] = @ + 1]

\* The checks at the top of the loop; the read that follows blocks.
ReceiverChecks(w) ==
  /\ Move(w, "top", IF done[w] \/ ~isConnected(w) THEN "returning" ELSE "reading")
  /\ UNCHANGED <<loop, done, timer, connected, conn, messageChan, tradeChan, received, delivered>>

\* A message; the channel takes it unless it is full.
ReadMessage(w) ==
  /\ conn[w] = "open" /\ received[w] < MaxMessages[w]
  /\ Move(w, "reading", "top")
  /\ received' = [received EXCEPT ![w] = @ + 1]
  /\ messageChan' = [messageChan EXCEPT ![w] =
       IF Len(@) < MessageCap THEN Append(@, received[w] + 1) ELSE @]
  /\ UNCHANGED <<loop, done, timer, connected, conn, tradeChan, delivered>>

\* The peer or the network has ended the connection, cleanup has closed it, or
\* it has been silent for 35 seconds.
ReadFails(w) ==
  /\ Move(w, "reading", "returning")
  /\ UNCHANGED <<loop, done, timer, connected, conn, messageChan, tradeChan, received, delivered>>

\* The deferred function.
ReceiverReturns(w) ==
  /\ receivers[w]["returning"] > 0
  /\ receivers' = [receivers EXCEPT ![w]["returning"] = @ - 1]
  /\ connected' = [connected EXCEPT ![w] = FALSE]
  /\ UNCHANGED <<loop, done, timer, conn, messageChan, tradeChan, received, delivered>>

-----------------------------------------------------------------------------
ReceiverStep(w) ==
  \/ ReceiverChecks(w)
  \/ ReadMessage(w)
  \/ ReadFails(w)
  \/ ReceiverReturns(w)

LoopStep(w) ==
  \/ ContextDone(w)
  \/ TimerFires(w)
  \/ DialFails(w)
  \/ DialSucceeds(w)
  \/ GoReceive(w)
  \/ ArmTimer(w)
  \/ PingFails(w)
  \/ processRawMessage(w)
  \/ DeliverTrade(w)

-----------------------------------------------------------------------------
WorkerTypeOK ==
  /\ loop \in [Workers -> LoopSteps]
  /\ done \in [Workers -> BOOLEAN]
  /\ timer \in [Workers -> BOOLEAN]
  /\ connected \in [Workers -> BOOLEAN]
  /\ conn \in [Workers -> {"nil", "open"}]
  /\ receivers \in [Workers -> [ReceiverSteps -> Nat]]
  /\ messageChan \in [Workers -> Seq(Nat)]
  /\ tradeChan \in [Workers -> Seq(Nat)]
  /\ received \in [Workers -> Nat]
  /\ delivered \in [Workers -> Nat]

\* A worker has one reader at most, and none while it dials or is going to dial:
\* gorilla's connections allow one reader, and two would deliver every trade
\* twice. The loop looks at `connected`, which a failed ping clears while the
\* reader is still at work; what keeps the two apart is that only an attempt
\* that ends without a connection arms the timer again, and that a reader whose
\* connection was dialed clears `connected` as the last thing it does.
OneReceiver ==
  \A w \in Workers :
    /\ Receiving(w) <= 1
    /\ timer[w] \/ loop[w] \in {"dialing", "dialed"} => Receiving(w) = 0

\* Trades reach the callback in the order in which their messages came in,
\* through two channels and whatever is dropped on the way.
TradesInOrder ==
  \A w \in Workers :
    LET queue == <<delivered[w]>> \o tradeChan[w] \o messageChan[w] \o <<received[w]>>
    IN \A i \in 1..(Len(queue) - 1) : queue[i] <= queue[i + 1]
=============================================================================
