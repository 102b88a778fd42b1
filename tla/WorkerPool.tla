----------------------------- MODULE WorkerPool -----------------------------
(***************************************************************************)
(* One WorkerPool of internal/websocket/worker_pool.go: its workers, each  *)
(* with a connection loop (Worker.Start), the connector the loop drives    *)
(* (connectors/base.go), and the callers of Start and Stop: the manager,   *)
(* which starts the pool once and stops it at shutdown, and the reconnect  *)
(* callbacks the manager registers with the recovery scheduler.            *)
(*                                                                         *)
(* Every "go worker.Start()" is a loop <<w, g>>: worker w, g-th Start of   *)
(* the pool. Start and Stop hold wp.mu from their first step to their last *)
(* and OnConnected, OnDisconnected wait for it. pool.OnError is assigned   *)
(* after the workers have copied it, so the errors of a loop go nowhere.   *)
(* Counters of messages and of reconnections are left out; a rate limiter  *)
(* that says no makes the loop go round without changing anything.         *)
(***************************************************************************)
EXTENDS Naturals, FiniteSets

CONSTANTS
  NumWorkers,  \* len(wp.Workers)
  Manager,     \* the EnhancedTaskManager goroutine
  Callbacks    \* runs of the reconnect callback

ASSUME WorkersAssumption == NumWorkers \in Nat \ {0}
ASSUME ClientAssumption  ==
  IsFiniteSet(Callbacks) /\ Manager \notin Callbacks /\ "free" \notin {Manager} \union Callbacks

VARIABLES
  client,     \* where each caller is
  mu,         \* holder of wp.mu, or "free"
  pos,        \* progress of the Start or Stop that holds wp.mu
  cancelled,  \* wp.ctx, the parent of every worker context, is cancelled
  starts,     \* number of pool Starts begun
  loop,       \* where each connection loop is
  status,     \* Worker.Status
  conn,       \* BaseConnector.Connection: "nil", "open", or "dead"
  active      \* wp.ActiveWorkers

vars == <<client, mu, pos, cancelled, starts, loop, status, conn, active>>

Clients   == {Manager} \union Callbacks
Workers   == 1..NumWorkers
MaxStarts == 1 + Cardinality(Callbacks)
Loops     == Workers \X (1..MaxStarts)

Statuses == {"idle", "connecting", "connected", "reconnecting", "stopped"}
LoopSteps == {"none", "begin", "top", "dialing", "subscribing", "failing",
              "established", "reporting", "processing", "disconnecting", "backoff", "ended"}
ClientSteps == {"idle", "starting", "running", "stopping", "sleeping", "done"}

Init ==
  /\ client = [c \in Clients |-> "idle"]
  /\ mu = "free"
  /\ pos = 0
  /\ cancelled = FALSE
  /\ starts = 0
  /\ loop = [l \in Loops |-> "none"]
  /\ status = [w \in Workers |-> "idle"]
  /\ conn = [w \in Workers |-> "nil"]
  /\ active = 0

-----------------------------------------------------------------------------
(* Callers of Start and Stop *)

\* The manager starts the pool once; a callback starts it after its Stop.
StartBegin(c) ==
  /\ mu = "free"
  /\ client[c] = IF c = Manager THEN "idle" ELSE "sleeping"
  /\ client' = [client EXCEPT ![c] = "starting"]
  /\ mu' = c /\ pos' = 1 /\ starts' = starts + 1
  /\ UNCHANGED <<cancelled, loop, status, conn, active>>

\* go worker.Start(), then 100ms of sleep with wp.mu held.
StartSpawn(c) ==
  /\ mu = c /\ client[c] = "starting" /\ pos <= NumWorkers
  /\ loop' = [loop EXCEPT ![<<pos, starts>>] = "begin"]
  /\ pos' = pos + 1
  /\ UNCHANGED <<client, mu, cancelled, starts, status, conn, active>>

StartEnd(c) ==
  /\ mu = c /\ client[c] = "starting" /\ pos > NumWorkers
  /\ client' = [client EXCEPT ![c] = IF c = Manager THEN "running" ELSE "done"]
  /\ mu' = "free" /\ pos' = 0
  /\ UNCHANGED <<cancelled, starts, loop, status, conn, active>>

\* Mutant: the pool context is not cancelled.
StopBegin_NoCancel(c) ==
  /\ mu = "free"
  /\ IF c = Manager THEN client[c] = "running"
                    ELSE client[c] = "idle" /\ client[Manager] \notin {"idle", "starting"}
  /\ client' = [client EXCEPT ![c] = "stopping"]
  /\ mu' = c /\ pos' = 1
  /\ UNCHANGED <<cancelled, starts, loop, status, conn, active>>

\* A callback can run once the manager has registered it, after its Start.
StopBegin(c) ==
  /\ mu = "free"
  /\ IF c = Manager THEN client[c] = "running"
                    ELSE client[c] = "idle" /\ client[Manager] \notin {"idle", "starting"}
  /\ client' = [client EXCEPT ![c] = "stopping"]
  /\ mu' = c /\ pos' = 1
  /\ cancelled' = TRUE
  /\ UNCHANGED <<starts, loop, status, conn, active>>

\* Worker.Stop of the next worker: Disconnect, then, under w.mu, the status.
StopDisconnect(c) ==
  /\ mu = c /\ client[c] = "stopping" /\ pos <= 2 * NumWorkers /\ pos % 2 = 1
  /\ conn' = [conn EXCEPT ![(pos + 1) \div 2] = "nil"]
  /\ pos' = pos + 1
  /\ UNCHANGED <<client, mu, cancelled, starts, loop, status, active>>

StopStatus(c) ==
  /\ mu = c /\ client[c] = "stopping" /\ pos <= 2 * NumWorkers /\ pos % 2 = 0
  /\ status' = [status EXCEPT ![pos \div 2] = "stopped"]
  /\ pos' = pos + 1
  /\ UNCHANGED <<client, mu, cancelled, starts, loop, conn, active>>

StopEnd(c) ==
  /\ mu = c /\ client[c] = "stopping" /\ pos > 2 * NumWorkers
  /\ active' = 0
  /\ client' = [client EXCEPT ![c] = IF c = Manager THEN "done" ELSE "sleeping"]
  /\ mu' = "free" /\ pos' = 0
  /\ UNCHANGED <<cancelled, starts, loop, status, conn>>

-----------------------------------------------------------------------------
(* The connection loop of Worker.Start *)

Goto(l, from, to) ==
  /\ loop[l] = from
  /\ loop' = [loop EXCEPT ![l] = to]
  /\ UNCHANGED <<client, mu, pos, cancelled, starts>>

SetStatus(l, s) == status' = [status EXCEPT ![l[1]] = s]

LoopBegin(l) ==
  /\ Goto(l, "begin", "top")
  /\ SetStatus(l, "connecting")
  /\ UNCHANGED <<conn, active>>

\* Mutant: the return after the status is missing.
LoopStops_NoReturn(l) ==
  /\ cancelled
  /\ Goto(l, "top", "dialing")
  /\ SetStatus(l, "stopped")
  /\ UNCHANGED <<conn, active>>

LoopStops(l) ==
  /\ cancelled
  /\ Goto(l, "top", "ended")
  /\ SetStatus(l, "stopped")
  /\ UNCHANGED <<conn, active>>

\* connectWebSocket dials without the context: a dial outlives a cancellation.
DialBegin(l) ==
  /\ ~cancelled
  /\ Goto(l, "top", "dialing")
  /\ UNCHANGED <<status, conn, active>>

\* The new connection replaces the pointer; the old one is not closed.
DialSucceeds(l) ==
  /\ Goto(l, "dialing", "subscribing")
  /\ conn' = [conn EXCEPT ![l[1]] = "open"]
  /\ UNCHANGED <<status, active>>

\* Connect closes what it cannot subscribe with.
SubscribeFails(l) ==
  /\ Goto(l, "subscribing", "failing")
  /\ conn' = [conn EXCEPT ![l[1]] = "nil"]
  /\ UNCHANGED <<status, active>>

\* connect() has failed: handleConnectionError, whose OnError is nil, and continue.
ConnectFails(l) ==
  /\ Goto(l, "dialing", "top") \/ Goto(l, "failing", "top")
  /\ SetStatus(l, "reconnecting")
  /\ UNCHANGED <<conn, active>>

\* The limit of the connector is the number of the worker's symbols, and none is
\* subscribed when a loop comes here, so that only the connection decides.
SubscribeSucceeds(l) ==
  /\ conn[l[1]] # "nil"
  /\ Goto(l, "subscribing", "established")
  /\ UNCHANGED <<status, conn, active>>

SetConnected(l) ==
  /\ Goto(l, "established", "reporting")
  /\ SetStatus(l, "connected")
  /\ UNCHANGED <<conn, active>>

OnConnected(l) ==
  /\ mu = "free"
  /\ Goto(l, "reporting", "processing")
  /\ active' = active + 1
  /\ UNCHANGED <<status, conn>>

\* processMessages returns when the context is done, and for no other reason.
ProcessingEnds(l) ==
  /\ cancelled
  /\ Goto(l, "processing", "disconnecting")
  /\ SetStatus(l, "reconnecting")
  /\ UNCHANGED <<conn, active>>

\* Mutants: the decrement without the test for zero; no decrement at all.
OnDisconnected_NoTest(l) ==
  /\ mu = "free"
  /\ Goto(l, "disconnecting", "backoff")
  /\ active' = active - 1
  /\ UNCHANGED <<status, conn>>

OnDisconnected_Forgets(l) ==
  /\ mu = "free"
  /\ Goto(l, "disconnecting", "backoff")
  /\ UNCHANGED <<status, conn, active>>

OnDisconnected(l) ==
  /\ mu = "free"
  /\ Goto(l, "disconnecting", "backoff")
  /\ active' = IF active > 0 THEN active - 1 ELSE active
  /\ UNCHANGED <<status, conn>>

\* The select after a lost connection: ctx.Done() ends the loop and leaves the
\* status as it is; the timer takes the loop back to its top.
BackoffCancelled(l) ==
  /\ cancelled
  /\ Goto(l, "backoff", "ended")
  /\ UNCHANGED <<status, conn, active>>

BackoffElapsed(l) ==
  /\ Goto(l, "backoff", "top")
  /\ UNCHANGED <<status, conn, active>>

\* The peer or the network closes the connection. The read loop of the
\* connector logs the error, sleeps and reads again; nobody else learns of it.
ConnectionLost(w) ==
  /\ conn[w] = "open"
  /\ conn' = [conn EXCEPT ![w] = "dead"]
  /\ UNCHANGED <<client, mu, pos, cancelled, starts, loop, status, active>>

\* The pool is stopped for good: every caller is done and every loop has ended.
Terminated ==
  /\ \A c \in Clients : client[c] = "done"
  /\ \A l \in Loops : loop[l] = "ended"
  /\ UNCHANGED vars

ClientStep(c) ==
  \/ StartSpawn(c)
  \/ StartEnd(c)
  \/ StopDisconnect(c)
  \/ StopStatus(c)
  \/ StopEnd(c)

LoopStep(l) ==
  \/ LoopBegin(l)
  \/ LoopStops(l)
  \/ DialBegin(l)
  \/ DialSucceeds(l)
  \/ SubscribeFails(l)
  \/ ConnectFails(l)
  \/ SubscribeSucceeds(l)
  \/ SetConnected(l)
  \/ OnConnected(l)
  \/ ProcessingEnds(l)
  \/ OnDisconnected(l)
  \/ BackoffCancelled(l)
  \/ BackoffElapsed(l)

Next ==
  \/ \E c \in Clients : StartBegin(c) \/ StopBegin(c) \/ ClientStep(c)
  \/ \E l \in Loops : LoopStep(l)
  \/ \E w \in Workers : ConnectionLost(w)
  \/ Terminated

\* Goroutines run: a Start or Stop that holds the lock finishes, a callback
\* wakes from its sleep, a loop takes its next step, a handshake ends within
\* its timeout. Nothing obliges the network to fail or the manager to stop.
Fairness ==
  /\ \A c \in Clients : WF_vars(ClientStep(c))
  /\ \A c \in Callbacks : WF_vars(StartBegin(c))
  /\ \A l \in Loops : WF_vars(LoopStep(l))

Spec == Init /\ [][Next]_vars /\ Fairness

-----------------------------------------------------------------------------
TypeOK ==
  /\ client \in [Clients -> ClientSteps]
  /\ mu \in Clients \union {"free"}
  /\ pos \in 0..(2 * NumWorkers + 1)
  /\ cancelled \in BOOLEAN
  /\ starts \in 0..MaxStarts
  /\ loop \in [Loops -> LoopSteps]
  /\ status \in [Workers -> Statuses]
  /\ conn \in [Workers -> {"nil", "open", "dead"}]
  /\ active \in Nat

LoopsOf(w) == {l \in Loops : l[1] = w}
Past(l)    == loop[l] \notin {"none", "begin", "top", "ended"}
Quiet      == \A l \in Loops : loop[l] \in {"none", "ended"}

\* ActiveWorkers is the number the health check and the dashboards trust. Until
\* the first Stop it is exactly the number of workers that reported a
\* connection and have not reported its end; once every loop has ended after a
\* Stop it is zero, although Stop zeroes it while workers may still be about to
\* report either event, and although the decrement is skipped at zero.
ActiveWorkersIsRight ==
  /\ ~cancelled => active = Cardinality({l \in Loops : loop[l] \in {"processing", "disconnecting"}})
  /\ cancelled /\ Quiet => active = 0

\* No worker ever has two loops that dial, subscribe or process: a second Start
\* may spawn a second loop while the first one is still dialing, but only after
\* the Stop that cancels the context both of them read. Two of them would
\* subscribe twice and deliver every trade twice.
OneLivePerWorker ==
  \A w \in Workers : Cardinality({l \in LoopsOf(w) : Past(l)}) <= 1

\* Stop drains the pool: every loop ends, those blocked in a dial or waiting for
\* wp.mu in OnConnected included, and none is left waiting for a lock.
StopDrains == cancelled ~> Quiet

\* "Connection loop with automatic reconnection" (worker_pool.go:435):
\* a worker whose connection is lost gets another one, unless the pool stops.
LostConnectionIsReplaced ==
  \A w \in Workers :
    (status[w] = "connected" /\ conn[w] = "dead") ~> (conn[w] = "open" \/ cancelled)
=============================================================================
