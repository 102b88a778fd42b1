-------------------------- MODULE SafeTaskManager --------------------------
(***************************************************************************)
(* internal/websocket/safe_task_manager.go and safe_worker_pool.go: the    *)
(* manager makes a pool per exchange and market from the subscription      *)
(* lists, starts the pools one after the other, and each pool spreads its  *)
(* symbols over SafeWorkers. One Start and one Stop of one manager, by two *)
(* goroutines: the flag they exchange lets Stop overtake Start.            *)
(*                                                                         *)
(* A pool's symbols are 1..n. The counts of messages, trades and errors,   *)
(* for display, are left out; the count of active workers is not: both     *)
(* Stops wait for it.                                                      *)
(***************************************************************************)
EXTENDS SafeWorker, FiniteSetsExt

CONSTANTS
  Pools,         \* poolKeys: enabled exchanges, by market
  Lists,         \* Pools -> lengths GetSubscriptionList may answer, as functions
  Fallback,      \* [Pools -> Nat]: symbols of the built-in list, 0 for Phemex
  MaxSymbols,    \* MaxSymbolsPerConnection
  Enabled,       \* the pools whose exchange is enabled,
  Registered     \* and those whose exchange has a connector in the registry

ASSUME PoolAssumption ==
  /\ IsFiniteSet(Pools) /\ Enabled \subseteq Pools
  /\ Lists \subseteq [Pools -> Nat]
  /\ Fallback \in [Pools -> Nat]
  /\ MaxSymbols \in Nat \ {0}
  /\ \A w \in Workers : w \in Pools \X (Nat \ {0})

VARIABLES
  symbols,      \* Symbols of each pool, as their number; 0: no pool
  chunk,        \* the symbols each worker was made with
  mu,           \* holder of p.mu: "free", "start" or "stop"
  running,      \* p.running
  active,       \* p.stats.ActiveWorkers
  tmRunning,    \* tm.running
  tmCancelled,  \* tm.ctx is cancelled
  tmActive,     \* tm.stats.ActiveWorkers, as last added up
  starter,      \* the goroutine in Start: where, the pools to come, the next worker
  stopper,      \* the goroutine in Stop: where, the pools to come
  monitor       \* where monitorStats is

poolVars == <<symbols, chunk, mu, running, active>>
managerVars == <<tmRunning, tmCancelled, tmActive, starter, stopper, monitor>>
vars == <<workerVars, poolVars, managerVars>>

WorkersOf(p) == {w \in Workers : w[1] = p}

\* NewSafeWorkerPool
workerCount(n) ==
  IF n = 0 THEN 1 ELSE n \div MaxSymbols + (IF n % MaxSymbols # 0 THEN 1 ELSE 0)

\* Each worker that a pool of an enabled exchange may be made of has a name.
ASSUME WorkersOfPools ==
  \A p \in Enabled : \A n \in {list[p] : list \in Lists} \union {Fallback[p]} :
    n > 0 => \A i \in 1..workerCount(n) : <<p, i>> \in Workers

\* Mutant: the remainder is forgotten.
distributeSymbols_NoRemainder(n, i) ==
  LET size == n \div workerCount(n)
  IN ((i - 1) * size + 1)..(i * size)

\* The symbols of the i-th worker of a pool with n of them: equal shares, the
\* first workers taking one more each until the remainder is used up.
distributeSymbols(n, i) ==
  LET share == n \div workerCount(n)
      remainder == n % workerCount(n)
      before == (i - 1) * share + Min({i - 1, remainder})
  IN (before + 1)..(before + share + (IF i <= remainder THEN 1 ELSE 0))

Init ==
  /\ WorkerInit
  /\ symbols = [p \in Pools |-> 0]
  /\ chunk = [w \in Workers |-> {}]
  /\ mu = [p \in Pools |-> "free"]
  /\ running = [p \in Pools |-> FALSE]
  /\ active = [p \in Pools |-> 0]
  /\ tmRunning = FALSE /\ tmCancelled = FALSE /\ tmActive = 0
  /\ starter = [at |-> "idle", pools |-> {}, pool |-> "none", next |-> 0]
  /\ stopper = [at |-> "idle", pools |-> {}, pool |-> "none"]
  /\ monitor = "none"

-----------------------------------------------------------------------------
(* SafeTaskManager.Start *)

\* The swap of the flag; then the pools are made: from the subscription lists,
\* from the built-in list where there is none, and not at all without symbols.
TaskManagerStart ==
  /\ starter.at = "idle" /\ ~tmRunning
  /\ tmRunning' = TRUE
  /\ \E list \in Lists :
       symbols' = [p \in Pools |-> IF p \notin Enabled THEN 0
                                   ELSE IF list[p] > 0 THEN list[p] ELSE Fallback[p]]
  /\ starter' = [starter EXCEPT !.at = "between", !.pools = {p \in Pools : symbols'[p] > 0}]
  /\ UNCHANGED <<workerVars, chunk, mu, running, active, tmCancelled, tmActive, stopper, monitor>>

\* pool.Start of one of the pools left, in the order of a map.
PoolStart(p) ==
  /\ starter.at = "between" /\ p \in starter.pools
  /\ mu[p] = "free"
  /\ mu' = [mu EXCEPT ![p] = "start"]
  /\ starter' = [at |-> "spawning", pools |-> starter.pools \ {p}, pool |-> p, next |-> 1]
  /\ UNCHANGED <<workerVars, symbols, chunk, running, active, tmRunning, tmCancelled, tmActive, stopper, monitor>>

\* There is no connector for the exchange of the next worker: the worker is left
\* out, which is logged, and the pool starts without it.
ConnectorFails ==
  /\ starter.at = "spawning" /\ starter.next <= workerCount(symbols[starter.pool])
  /\ starter.pool \notin Registered
  /\ starter' = [starter EXCEPT !.next = @ + 1]
  /\ UNCHANGED <<workerVars, poolVars, tmRunning, tmCancelled, tmActive, stopper, monitor>>

\* The next worker is made with its chunk, and go func(w) spawns its goroutine.
SpawnWorker ==
  /\ starter.at = "spawning" /\ starter.next <= workerCount(symbols[starter.pool])
  /\ starter.pool \in Registered
  /\ LET w == <<starter.pool, starter.next>>
     IN /\ Goto(w, "none", "spawned")
        /\ chunk' = [chunk EXCEPT ![w] = distributeSymbols(symbols[w[1]], w[2])]
  /\ starter' = [starter EXCEPT !.next = @ + 1]
  /\ UNCHANGED <<done, timer, connected, conn, receivers, messageChan, tradeChan, received, delivered,
                 symbols, mu, running, active, tmRunning, tmCancelled, tmActive, stopper, monitor>>

PoolStarted ==
  /\ starter.at = "spawning" /\ starter.next > workerCount(symbols[starter.pool])
  /\ running' = [running EXCEPT ![starter.pool] = TRUE]
  /\ mu' = [mu EXCEPT ![starter.pool] = "free"]
  /\ starter' = [starter EXCEPT !.at = "between", !.pool = "none", !.next = 0]
  /\ UNCHANGED <<workerVars, symbols, chunk, active, tmRunning, tmCancelled, tmActive, stopper, monitor>>

\* Start returns; go tm.monitorStats().
TaskManagerStarted ==
  /\ starter.at = "between" /\ starter.pools = {}
  /\ starter' = [starter EXCEPT !.at = "returned"]
  /\ monitor' = "waiting"
  /\ UNCHANGED <<workerVars, poolVars, tmRunning, tmCancelled, tmActive, stopper>>

-----------------------------------------------------------------------------
(* The goroutine of a worker *)

\* It counts itself before the loop and after it, also if the loop panics.
WorkerBegins(w) ==
  /\ Start(w)
  /\ active' = [active EXCEPT ![w[1]] = @ + 1]
  /\ UNCHANGED <<symbols, chunk, mu, running, managerVars>>

WorkerEnds(w) ==
  /\ cleanup(w)
  /\ active' = [active EXCEPT ![w[1]] = @ - 1]
  /\ UNCHANGED <<symbols, chunk, mu, running, managerVars>>

WorkerWorks(w) ==
  /\ LoopStep(w) \/ ReceiverStep(w) \/ Stop(w)
  /\ UNCHANGED <<poolVars, managerVars>>

-----------------------------------------------------------------------------
(* SafeTaskManager.Stop *)

TaskManagerStop ==
  /\ stopper.at = "idle" /\ tmRunning
  /\ tmRunning' = FALSE /\ tmCancelled' = TRUE
  /\ stopper' = [stopper EXCEPT !.at = "between", !.pools = {p \in Pools : symbols[p] > 0}]
  /\ UNCHANGED <<workerVars, poolVars, tmActive, starter, monitor>>

\* pool.Stop of the next pool. It cancels p.ctx, which no worker has: their
\* contexts come from context.Background(), and nobody calls their Stop.
PoolStop(p) ==
  /\ stopper.at = "between" /\ p \in stopper.pools
  /\ mu[p] = "free"
  /\ IF running[p]
     THEN /\ mu' = [mu EXCEPT ![p] = "stop"]
          /\ stopper' = [at |-> "polling", pools |-> stopper.pools \ {p}, pool |-> p]
     ELSE /\ stopper' = [stopper EXCEPT !.pools = @ \ {p}]
          /\ UNCHANGED mu
  /\ UNCHANGED <<workerVars, symbols, chunk, running, active, tmRunning, tmCancelled, tmActive, starter, monitor>>

\* The loop ends when no worker is active, which need not ever be: the break of
\* the timeout of 10 seconds leaves the select only, and p.mu stays locked. A
\* goroutine that is spawned and has not begun is not active, and begins later.
PoolStopped ==
  /\ stopper.at = "polling" /\ active[stopper.pool] = 0
  /\ running' = [running EXCEPT ![stopper.pool] = FALSE]
  /\ mu' = [mu EXCEPT ![stopper.pool] = "free"]
  /\ stopper' = [stopper EXCEPT !.at = "between", !.pool = "none"]
  /\ UNCHANGED <<workerVars, symbols, chunk, active, tmRunning, tmCancelled, tmActive, starter, monitor>>

\* The manager polls its own counter, which only the monitor brings up to date.
TaskManagerStopped ==
  /\ stopper.at = "between" /\ stopper.pools = {} /\ tmActive = 0
  /\ stopper' = [stopper EXCEPT !.at = "returned"]
  /\ UNCHANGED <<workerVars, poolVars, tmRunning, tmCancelled, tmActive, starter, monitor>>

-----------------------------------------------------------------------------
(* monitorStats, every 30 seconds, with GetStats and updatePoolStats *)

\* A tick, which a select may prefer to the end of the context. IsRunning and
\* GetStats of a pool wait for p.mu, the pools being read one after the other.
updatePoolStats ==
  /\ monitor = "waiting"
  /\ \A p \in Pools : mu[p] = "free"
  /\ tmActive' = MapThenSumSet(LAMBDA p : IF running[p] THEN active[p] ELSE 0, Pools)
  /\ UNCHANGED <<workerVars, poolVars, tmRunning, tmCancelled, starter, stopper, monitor>>

MonitorEnds ==
  /\ monitor = "waiting" /\ tmCancelled
  /\ monitor' = "ended"
  /\ UNCHANGED <<workerVars, poolVars, tmRunning, tmCancelled, tmActive, starter, stopper>>

-----------------------------------------------------------------------------
StarterStep == (\E p \in Pools : PoolStart(p)) \/ ConnectorFails \/ SpawnWorker \/ PoolStarted \/ TaskManagerStarted
StopperStep == (\E p \in Pools : PoolStop(p)) \/ PoolStopped \/ TaskManagerStopped

Next ==
  \/ TaskManagerStart \/ StarterStep
  \/ TaskManagerStop \/ StopperStep
  \/ \E w \in Workers : WorkerBegins(w) \/ WorkerWorks(w) \/ WorkerEnds(w)
  \/ updatePoolStats \/ MonitorEnds

Spec == Init /\ [][Next]_vars

-----------------------------------------------------------------------------
\* The workers of a started pool subscribe to each of its symbols once - if the
\* exchange has a connector, to none without - and none to more than the exchange
\* allows on a connection: the shares are computed apart from the number of
\* workers, with two roundings.
EverySymbolHasOneWorker ==
  \A p \in Pools : running[p] =>
    /\ UNION {chunk[w] : w \in WorkersOf(p)} = IF p \in Registered THEN 1..symbols[p] ELSE {}
    /\ \A w \in WorkersOf(p) :
         /\ Cardinality(chunk[w]) <= MaxSymbols
         /\ \A v \in WorkersOf(p) \ {w} : chunk[w] \intersect chunk[v] = {}
=============================================================================
