------------------------ MODULE ReconnectionScheduler ------------------------
(***************************************************************************)
(* The error recovery scheduler of internal/recovery/error_recovery.go:    *)
(* one ExchangeManager per exchange-market, a monitor loop woken by a      *)
(* ticker, and one goroutine per reconnection attempt.                     *)
(*                                                                         *)
(* Time is counted in check intervals (30s): cooldown[e] is the number of  *)
(* ticks that still have to pass before now.After(CooldownUntil) holds.    *)
(* An attempt is "spawned" from the go statement until it takes the lock   *)
(* and writes StateRetrying, then "calling" while reconnectFn runs; the    *)
(* attempts of one exchange are interchangeable, so they are counted.      *)
(* Statistics that no branch of the code reads (TotalFailures,             *)
(* totalRecoveries, totalHardResets, timestamps) are left out.             *)
(***************************************************************************)
EXTENDS Naturals

CONSTANTS
  Exchanges,      \* keys "exchange_market"
  MaxRetries,     \* rs.maxRetries
  CooldownTicks,  \* cooldownPeriod / checkInterval
  OwnerReports,   \* exchanges whose owner also calls MarkHealthy (TaskManager)
  MaxAttempts     \* bound: attempts of one exchange in flight together

ASSUME RetryAssumption    == MaxRetries \in Nat \ {0}
ASSUME CooldownAssumption == CooldownTicks \in Nat
ASSUME AttemptsAssumption == MaxAttempts \in Nat

VARIABLES
  monitor,     \* monitorLoop: "idle" before Start, "running", "exited"
  ctxDone,     \* rs.ctx cancelled by Stop
  registered,  \* keys of rs.exchanges
  state,       \* ExchangeManager.State
  retryCount,  \* ExchangeManager.RetryCount
  cooldown,    \* ticks until CooldownUntil is in the past
  spawned,     \* attemptReconnection goroutines not yet past line 353
  calling      \* attemptReconnection goroutines inside reconnectFn

schedulerVars == <<monitor, ctxDone, registered, state, retryCount, cooldown, spawned, calling>>

States     == {"healthy", "retrying", "failed", "cooldown"}
Severities == {"recoverable", "fatal"}

SchedulerInit ==
  /\ monitor = "idle"
  /\ ctxDone = FALSE
  /\ registered = {}
  /\ state = [e \in Exchanges |-> "healthy"]
  /\ retryCount = [e \in Exchanges |-> 0]
  /\ cooldown = [e \in Exchanges |-> 0]
  /\ spawned = [e \in Exchanges |-> 0]
  /\ calling = [e \in Exchanges |-> 0]

Start ==
  /\ monitor = "idle"
  /\ monitor' = "running"
  /\ UNCHANGED <<ctxDone, registered, state, retryCount, cooldown, spawned, calling>>

Stop ==
  /\ monitor # "idle"
  /\ ctxDone' = TRUE
  /\ UNCHANGED <<monitor, registered, state, retryCount, cooldown, spawned, calling>>

\* A fresh manager. Both owners register each key once (EnhancedTaskManager
\* when it has started the pool, TaskManager when it creates the connection).
RegisterExchange(e) ==
  /\ e \notin registered
  /\ registered' = registered \union {e}
  /\ state' = [state EXCEPT ![e] = "healthy"]
  /\ retryCount' = [retryCount EXCEPT ![e] = 0]
  /\ cooldown' = [cooldown EXCEPT ![e] = 0]
  /\ UNCHANGED <<monitor, ctxDone, spawned, calling>>

\* Mutant: without the state check of line 261, and with the limit off by one.
handleRecoverableError_NoStateCheck(e) ==
  IF e \notin registered
    THEN UNCHANGED <<state, retryCount, cooldown>>
    ELSE IF retryCount[e] > MaxRetries
      THEN /\ state' = [state EXCEPT ![e] = "failed"]
           /\ UNCHANGED <<retryCount, cooldown>>
      ELSE /\ retryCount' = [retryCount EXCEPT ![e] = @ + 1]
           /\ state' = [state EXCEPT ![e] = "cooldown"]
           /\ cooldown' = [cooldown EXCEPT ![e] = CooldownTicks]

\* The effect of a recoverable error on the manager of e.
handleRecoverableError(e) ==
  IF e \notin registered \/ state[e] # "healthy"
    THEN UNCHANGED <<state, retryCount, cooldown>>
    ELSE IF retryCount[e] >= MaxRetries
      THEN /\ state' = [state EXCEPT ![e] = "failed"]
           /\ UNCHANGED <<retryCount, cooldown>>
      ELSE /\ retryCount' = [retryCount EXCEPT ![e] = @ + 1]
           /\ state' = [state EXCEPT ![e] = "cooldown"]
           /\ cooldown' = [cooldown EXCEPT ![e] = CooldownTicks]

\* A fatal error only counts and logs: triggerHardReset restarts nothing.
HandleError(e, severity) ==
  IF severity = "fatal"
    THEN UNCHANGED <<state, retryCount, cooldown>>
    ELSE handleRecoverableError(e)

MarkHealthy(e) ==
  /\ IF e \in registered
       THEN /\ state' = [state EXCEPT ![e] = "healthy"]
            /\ retryCount' = [retryCount EXCEPT ![e] = 0]
       ELSE UNCHANGED <<state, retryCount>>
  /\ UNCHANGED cooldown

\* The owner of the connection reports an error.
ReportError(e) ==
  /\ \E severity \in Severities : HandleError(e, severity)
  /\ UNCHANGED <<monitor, ctxDone, registered, spawned, calling>>

\* The owner of the connection reports that it connected (TaskManager does).
ReportConnected(e) ==
  /\ e \in OwnerReports
  /\ MarkHealthy(e)
  /\ UNCHANGED <<monitor, ctxDone, registered, spawned, calling>>

\* Mutant: looks for failed exchanges instead of those in cooldown.
ShouldReconnect_Failed(e) ==
  e \in registered /\ state[e] = "failed" /\ cooldown[e] = 0

ShouldReconnect(e) ==
  e \in registered /\ state[e] = "cooldown" /\ cooldown[e] = 0

\* One tick: a check interval has passed, and every exchange whose cooldown
\* is over gets a goroutine. Its state is not changed here. After Stop the
\* select may still take one buffered tick before it sees ctx.Done().
checkRecoveryOpportunities ==
  /\ monitor = "running"
  /\ \A e \in Exchanges : ShouldReconnect(e) => spawned[e] + calling[e] < MaxAttempts
  /\ spawned' = [e \in Exchanges |->
                   IF ShouldReconnect(e) THEN spawned[e] + 1 ELSE spawned[e]]
  /\ cooldown' = [e \in Exchanges |->
                   IF cooldown[e] > 0 THEN cooldown[e] - 1 ELSE 0]
  /\ monitor' = IF ctxDone THEN "exited" ELSE monitor
  /\ UNCHANGED <<ctxDone, registered, state, retryCount, calling>>

MonitorExit ==
  /\ monitor = "running" /\ ctxDone
  /\ monitor' = "exited"
  /\ UNCHANGED <<ctxDone, registered, state, retryCount, cooldown, spawned, calling>>

\* attemptReconnection writes StateRetrying whatever the state has become.
attemptBegins(e) ==
  /\ spawned[e] > 0
  /\ spawned' = [spawned EXCEPT ![e] = @ - 1]
  /\ calling' = [calling EXCEPT ![e] = @ + 1]
  /\ state' = IF e \in registered THEN [state EXCEPT ![e] = "retrying"] ELSE state
  /\ UNCHANGED <<monitor, ctxDone, registered, retryCount, cooldown>>

attemptSucceeds(e) ==
  /\ calling[e] > 0
  /\ calling' = [calling EXCEPT ![e] = @ - 1]
  /\ MarkHealthy(e)
  /\ UNCHANGED <<monitor, ctxDone, registered, spawned>>

attemptFails(e) ==
  /\ calling[e] > 0
  /\ calling' = [calling EXCEPT ![e] = @ - 1]
  /\ \E severity \in Severities : HandleError(e, severity)
  /\ UNCHANGED <<monitor, ctxDone, registered, spawned>>

SchedulerNext ==
  \/ Start
  \/ Stop
  \/ checkRecoveryOpportunities
  \/ MonitorExit
  \/ \E e \in Exchanges :
       \/ RegisterExchange(e)
       \/ ReportError(e)
       \/ ReportConnected(e)
       \/ attemptBegins(e)
       \/ attemptSucceeds(e)
       \/ attemptFails(e)

\* The ticker fires, spawned goroutines are scheduled, and reconnectFn (a
\* pool Stop, a sleep and a pool Start) returns. Nobody is obliged to report.
SchedulerFairness ==
  /\ WF_schedulerVars(checkRecoveryOpportunities)
  /\ WF_schedulerVars(MonitorExit)
  /\ \A e \in Exchanges :
       /\ WF_schedulerVars(attemptBegins(e))
       /\ WF_schedulerVars(attemptSucceeds(e) \/ attemptFails(e))

SchedulerSpec == SchedulerInit /\ [][SchedulerNext]_schedulerVars /\ SchedulerFairness

-----------------------------------------------------------------------------
SchedulerTypeOK ==
  /\ monitor \in {"idle", "running", "exited"}
  /\ ctxDone \in BOOLEAN
  /\ registered \subseteq Exchanges
  /\ state \in [Exchanges -> States]
  /\ retryCount \in [Exchanges -> 0..MaxRetries]
  /\ cooldown \in [Exchanges -> 0..CooldownTicks]
  /\ spawned \in [Exchanges -> Nat]
  /\ calling \in [Exchanges -> Nat]

\* RetryCount is a budget that never runs down: it is zero whenever the
\* exchange is healthy, which is the only state in which handleRecoverableError
\* increments it, so it never exceeds one whatever order errors, ticks, attempts
\* and registrations come in. Lines 27 and 93 mean it to reach the limit.
RetryCountNeverAccumulates ==
  \A e \in Exchanges :
    /\ retryCount[e] <= 1
    /\ state[e] = "healthy" => retryCount[e] = 0

\* Consequently the branch that gives up (StateFailed and the hard reset,
\* lines 270-279) is dead code: no history of failures reaches it.
RetryLimitUnreachable == \A e \in Exchanges : state[e] # "failed"

\* Once RETRYING, an exchange only ever becomes healthy: the error of a failed
\* attempt, and every other error, is dropped by the check at line 261.
OnlySuccessEndsRetrying ==
  [][\A e \in Exchanges :
       state[e] = "retrying" /\ state'[e] # "retrying" => state'[e] = "healthy"]_schedulerVars

\* What the comments say of a failed attempt ("3 attempts before hard reset",
\* line 93, "Failed 3 times, waiting for hard reset", line 27): the exchange does
\* not stay RETRYING with nobody trying, it is tried again or given up, unless
\* the scheduler is stopped. The code does not do so.
FailedAttemptIsRetried ==
  \A e \in Exchanges :
    (monitor = "running" /\ state[e] = "retrying" /\ spawned[e] + calling[e] = 0)
      ~> (state[e] # "retrying" \/ spawned[e] + calling[e] > 0 \/ ctxDone)

\* A cooldown ends in an attempt (or a success somebody else reports), unless
\* the scheduler is stopped.
CooldownIsAttempted ==
  \A e \in Exchanges :
    (state[e] = "cooldown" /\ monitor = "running") ~> (state[e] # "cooldown" \/ ctxDone)
=============================================================================
