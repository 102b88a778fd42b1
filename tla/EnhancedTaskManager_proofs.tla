---------------------- MODULE EnhancedTaskManager_proofs ---------------------
(***************************************************************************)
(* The three components that EnhancedTaskManager drives.                   *)
(*                                                                         *)
(* The recovery scheduler, for every set of exchanges, every retry limit   *)
(* and cooldown and every interleaving of attempts with errors; and a pool *)
(* that its attempts stop and start again, for any number of workers and   *)
(* of attempts (runs of the reconnect callback): a worker has one live     *)
(* loop at most, and ActiveWorkers counts the loops that have reported a   *)
(* connection, or fewer once the pool is stopped. And the collection, for  *)
(* any notices and markets: a prompt one is complete, by what TradeQuery   *)
(* promises of the buffer, and what is collected belongs to the listing.   *)
(***************************************************************************)
EXTENDS ReconnectionScheduler, WorkerPool, ListingCollection, FiniteSetTheorems, TLAPS

-----------------------------------------------------------------------------
(* The scheduler                                                           *)
(*                                                                         *)
(* The three facts are inductive together: the branch that gives up needs  *)
(* a retry counter above zero in a healthy exchange.                       *)

IInv ==
  /\ SchedulerTypeOK
  /\ RetryCountNeverAccumulates
  /\ RetryLimitUnreachable

\* What a recoverable error may do to a manager: nothing, or start the first
\* cooldown of a healthy exchange. The limit branch needs RetryCount >= 1.
LEMMA ErrorStartsCooldown ==
  ASSUME IInv, NEW e \in Exchanges, NEW s \in Severities, HandleError(e, s)
  PROVE  \/ UNCHANGED <<state, retryCount, cooldown>>
         \/ /\ state[e] = "healthy"
            /\ state' = [state EXCEPT ![e] = "cooldown"]
            /\ retryCount' = [retryCount EXCEPT ![e] = 1]
            /\ cooldown' = [cooldown EXCEPT ![e] = CooldownTicks]
<1>1. CASE s = "fatal" \/ e \notin registered \/ state[e] # "healthy"
  BY <1>1 DEF HandleError, handleRecoverableError
<1>2. CASE ~(s = "fatal" \/ e \notin registered \/ state[e] # "healthy")
  <2>1. retryCount[e] = 0 /\ ~(retryCount[e] >= MaxRetries)
    BY <1>2, RetryAssumption DEF IInv, RetryCountNeverAccumulates
  <2>2. QED
    BY <1>2, <2>1 DEF HandleError, handleRecoverableError
<1>3. QED
  BY <1>1, <1>2

LEMMA InitIInv == SchedulerInit => IInv
<1>1. 0 \in 0..MaxRetries /\ 0 \in 0..CooldownTicks
  BY RetryAssumption, CooldownAssumption
<1>2. SchedulerInit => SchedulerTypeOK
  <2> SUFFICES ASSUME SchedulerInit PROVE SchedulerTypeOK
    OBVIOUS
  <2>1. monitor \in {"idle", "running", "exited"} /\ ctxDone \in BOOLEAN /\ registered \subseteq Exchanges
    BY DEF SchedulerInit
  <2>2. state \in [Exchanges -> States]
    BY DEF SchedulerInit, States
  <2>3. retryCount \in [Exchanges -> 0..MaxRetries] /\ cooldown \in [Exchanges -> 0..CooldownTicks]
    BY <1>1 DEF SchedulerInit
  <2>4. spawned \in [Exchanges -> Nat] /\ calling \in [Exchanges -> Nat]
    BY DEF SchedulerInit
  <2>5. QED
    BY <2>1, <2>2, <2>3, <2>4 DEF SchedulerTypeOK
<1>3. SchedulerInit => RetryCountNeverAccumulates /\ RetryLimitUnreachable
  BY DEF SchedulerInit, RetryCountNeverAccumulates, RetryLimitUnreachable
<1>4. QED
  BY <1>2, <1>3 DEF IInv

\* An error, whoever reports it, with one attempt of e possibly ending.
LEMMA ErrorPreservesIInv ==
  ASSUME IInv, NEW e \in Exchanges, NEW s \in Severities, HandleError(e, s),
         UNCHANGED <<monitor, ctxDone, registered, spawned>>,
         calling' = calling \/ (calling[e] > 0 /\ calling' = [calling EXCEPT ![e] = @ - 1])
  PROVE  IInv'
<1>1. /\ calling' \in [Exchanges -> Nat]
      /\ \A f \in Exchanges : calling'[f] <= calling[f]
  <2>1. calling \in [Exchanges -> Nat]
    BY DEF IInv, SchedulerTypeOK
  <2>2. CASE calling' = calling
    BY <2>1, <2>2
  <2>3. CASE calling[e] > 0 /\ calling' = [calling EXCEPT ![e] = @ - 1]
    <3>1. calling[e] - 1 \in Nat
      BY <2>1, <2>3
    <3>2. QED
      BY <2>1, <2>3, <3>1
  <2>4. QED
    BY <2>2, <2>3
<1>2. CASE UNCHANGED <<state, retryCount, cooldown>>
  BY <1>1, <1>2
     DEF IInv, SchedulerTypeOK, RetryCountNeverAccumulates, RetryLimitUnreachable
<1>3. CASE /\ state[e] = "healthy"
           /\ state' = [state EXCEPT ![e] = "cooldown"]
           /\ retryCount' = [retryCount EXCEPT ![e] = 1]
           /\ cooldown' = [cooldown EXCEPT ![e] = CooldownTicks]
  <2>1. SchedulerTypeOK' /\ RetryCountNeverAccumulates' /\ RetryLimitUnreachable'
    BY <1>1, <1>3, RetryAssumption, CooldownAssumption
       DEF IInv, SchedulerTypeOK, States, RetryCountNeverAccumulates, RetryLimitUnreachable
  <2>2. QED
    BY <2>1 DEF IInv
<1>4. QED
  BY <1>2, <1>3, ErrorStartsCooldown

\* Typing of the actions that do not handle an error.
LEMMA NextTypeOK ==
  ASSUME SchedulerTypeOK, NEW e \in Exchanges,
         RegisterExchange(e) \/ ReportConnected(e) \/ attemptBegins(e) \/ attemptSucceeds(e)
  PROVE  SchedulerTypeOK'
<1> USE DEF SchedulerTypeOK, States
<1>1. CASE RegisterExchange(e)
  <2>1. 0 \in 0..MaxRetries /\ 0 \in 0..CooldownTicks
    BY RetryAssumption, CooldownAssumption
  <2>2. QED
    BY <1>1, <2>1 DEF RegisterExchange
<1>2. ASSUME MarkHealthy(e)
      PROVE  /\ state' \in [Exchanges -> States]
             /\ retryCount' \in [Exchanges -> 0..MaxRetries]
             /\ cooldown' \in [Exchanges -> 0..CooldownTicks]
  BY <1>2, RetryAssumption DEF MarkHealthy
<1>3. CASE ReportConnected(e)
  BY <1>2, <1>3 DEF ReportConnected
<1>4. CASE attemptBegins(e)
  <2>1. spawned[e] - 1 \in Nat /\ calling[e] + 1 \in Nat
    BY <1>4 DEF attemptBegins
  <2>2. spawned' \in [Exchanges -> Nat] /\ calling' \in [Exchanges -> Nat]
    BY <1>4, <2>1 DEF attemptBegins
  <2>3. state' \in [Exchanges -> States]
    BY <1>4 DEF attemptBegins
  <2>4. QED
    BY <1>4, <2>2, <2>3 DEF attemptBegins
<1>5. CASE attemptSucceeds(e)
  <2>1. calling[e] - 1 \in Nat
    BY <1>5 DEF attemptSucceeds
  <2>2. calling' \in [Exchanges -> Nat]
    BY <1>5, <2>1 DEF attemptSucceeds
  <2>3. QED
    BY <1>2, <1>5, <2>2 DEF attemptSucceeds
<1>6. QED
  BY <1>1, <1>3, <1>4, <1>5

LEMMA NextIInv == IInv /\ [SchedulerNext]_schedulerVars => IInv'
<1> SUFFICES ASSUME IInv, [SchedulerNext]_schedulerVars
             PROVE  IInv'
  OBVIOUS
<1> USE DEF IInv, RetryCountNeverAccumulates, RetryLimitUnreachable
<1>1. CASE Start \/ Stop \/ MonitorExit
  BY <1>1 DEF Start, Stop, MonitorExit, SchedulerTypeOK
<1>2. CASE checkRecoveryOpportunities
  <2>1. SchedulerTypeOK'
    <3>1. \A e \in Exchanges : (IF cooldown[e] > 0 THEN cooldown[e] - 1 ELSE 0) \in 0..CooldownTicks
      BY CooldownAssumption DEF SchedulerTypeOK
    <3>2. cooldown' \in [Exchanges -> 0..CooldownTicks]
      BY <1>2, <3>1 DEF checkRecoveryOpportunities
    <3>3. spawned' \in [Exchanges -> Nat]
      BY <1>2 DEF checkRecoveryOpportunities, SchedulerTypeOK
    <3>4. QED
      BY <1>2, <3>2, <3>3 DEF checkRecoveryOpportunities, SchedulerTypeOK
  <2>2. RetryCountNeverAccumulates' /\ RetryLimitUnreachable'
    BY <1>2 DEF checkRecoveryOpportunities
  <2>3. QED
    BY <2>1, <2>2
<1>3. ASSUME NEW e \in Exchanges, RegisterExchange(e)
      PROVE  IInv'
  <2>1. SchedulerTypeOK'
    BY <1>3, NextTypeOK
  <2>2. RetryCountNeverAccumulates' /\ RetryLimitUnreachable'
    BY <1>3 DEF RegisterExchange, SchedulerTypeOK
  <2>3. QED
    BY <2>1, <2>2
<1>4. ASSUME NEW e \in Exchanges, ReportError(e)
      PROVE  IInv'
  <2>1. PICK s \in Severities : HandleError(e, s)
    BY <1>4 DEF ReportError
  <2>2. UNCHANGED <<monitor, ctxDone, registered, spawned>> /\ calling' = calling
    BY <1>4 DEF ReportError
  <2>3. QED
    BY <2>1, <2>2, ErrorPreservesIInv
<1>5. ASSUME NEW e \in Exchanges, ReportConnected(e)
      PROVE  IInv'
  <2>1. SchedulerTypeOK'
    BY <1>5, NextTypeOK
  <2>2. QED
    BY <1>5, <2>1 DEF ReportConnected, MarkHealthy, SchedulerTypeOK
<1>6. ASSUME NEW e \in Exchanges, attemptBegins(e)
      PROVE  IInv'
  <2>1. SchedulerTypeOK'
    BY <1>6, NextTypeOK
  <2>2. RetryCountNeverAccumulates' /\ RetryLimitUnreachable'
    BY <1>6 DEF attemptBegins, SchedulerTypeOK
  <2>3. QED
    BY <2>1, <2>2
<1>7. ASSUME NEW e \in Exchanges, attemptSucceeds(e)
      PROVE  IInv'
  <2>1. SchedulerTypeOK'
    BY <1>7, NextTypeOK
  <2>2. RetryCountNeverAccumulates' /\ RetryLimitUnreachable'
    BY <1>7 DEF attemptSucceeds, MarkHealthy, SchedulerTypeOK
  <2>3. QED
    BY <2>1, <2>2
<1>8. ASSUME NEW e \in Exchanges, attemptFails(e)
      PROVE  IInv'
  <2>1. PICK s \in Severities : HandleError(e, s)
    BY <1>8 DEF attemptFails
  <2>2. /\ UNCHANGED <<monitor, ctxDone, registered, spawned>>
        /\ calling[e] > 0 /\ calling' = [calling EXCEPT ![e] = @ - 1]
    BY <1>8 DEF attemptFails
  <2>3. QED
    BY <2>1, <2>2, ErrorPreservesIInv
<1>9. CASE UNCHANGED schedulerVars
  BY <1>9 DEF schedulerVars, SchedulerTypeOK
<1>10. QED
  BY <1>1, <1>2, <1>3, <1>4, <1>5, <1>6, <1>7, <1>8, <1>9 DEF SchedulerNext

LEMMA Invariance == SchedulerSpec => []IInv
  BY InitIInv, NextIInv, PTL DEF SchedulerSpec

\* The variables keep their types, RetryCount within the limit included.
THEOREM SchedulerTypeCorrect == SchedulerSpec => []SchedulerTypeOK
<1>1. IInv => SchedulerTypeOK
  BY DEF IInv
<1>2. QED
  BY <1>1, Invariance, PTL

\* No history of errors, ticks and reconnections makes RetryCount exceed one,
\* for any retry limit and for owners that report successes at any moment.
THEOREM RetryCountTheorem == SchedulerSpec => []RetryCountNeverAccumulates
<1>1. IInv => RetryCountNeverAccumulates
  BY DEF IInv
<1>2. QED
  BY <1>1, Invariance, PTL

\* StateFailed, and with it the hard reset after repeated failures, is
\* unreachable for every retry limit of at least one.
THEOREM RetryLimitTheorem == SchedulerSpec => []RetryLimitUnreachable
<1>1. IInv => RetryLimitUnreachable
  BY DEF IInv
<1>2. QED
  BY <1>1, Invariance, PTL

\* An exchange leaves RETRYING only by becoming healthy: the error of a failed
\* attempt is dropped, so a failed attempt leaves the exchange RETRYING.
THEOREM OnlySuccessTheorem == SchedulerSpec => OnlySuccessEndsRetrying
<1> DEFINE Keeps == \A e \in Exchanges :
                      state[e] = "retrying" /\ state'[e] # "retrying" => state'[e] = "healthy"
<1>1. IInv /\ [SchedulerNext]_schedulerVars => [Keeps]_schedulerVars
  <2> SUFFICES ASSUME IInv, [SchedulerNext]_schedulerVars
               PROVE  Keeps
    OBVIOUS
  <2>1. state \in [Exchanges -> States]
    BY DEF IInv, SchedulerTypeOK
  <2>2. CASE UNCHANGED state
    BY <2>2
  <2>3. ASSUME NEW f \in Exchanges,
               ReportError(f) \/ attemptFails(f)
        PROVE  Keeps
    <3>1. PICK s \in Severities : HandleError(f, s)
      BY <2>3 DEF ReportError, attemptFails
    <3>2. UNCHANGED state \/ (state[f] = "healthy" /\ state' = [state EXCEPT ![f] = "cooldown"])
      BY <3>1, ErrorStartsCooldown
    <3>3. QED
      BY <2>1, <3>2
  <2>4. ASSUME NEW f \in Exchanges,
               RegisterExchange(f) \/ ReportConnected(f) \/ attemptSucceeds(f)
        PROVE  Keeps
    BY <2>1, <2>4 DEF RegisterExchange, ReportConnected, attemptSucceeds, MarkHealthy
  <2>5. ASSUME NEW f \in Exchanges, attemptBegins(f)
        PROVE  Keeps
    BY <2>1, <2>5 DEF attemptBegins
  <2>6. QED
    BY <2>2, <2>3, <2>4, <2>5
       DEF SchedulerNext, schedulerVars, Start, Stop, checkRecoveryOpportunities, MonitorExit
<1>2. QED
  BY <1>1, Invariance, PTL DEF SchedulerSpec, OnlySuccessEndsRetrying

-----------------------------------------------------------------------------
(* The pool *)

\* Those who have called Start, so far as they are to.
HasStarted(c) == IF c = Manager THEN client[c] # "idle" ELSE client[c] \in {"starting", "done"}
Starters == {c \in Clients : HasStarted(c)}

\* wp.mu is held by the one that is in Start or Stop.
LockIsRight ==
  \A c \in Clients :
    /\ client[c] \in {"starting", "stopping"} <=> mu = c
    /\ client[c] = "starting" => pos \in 1..(NumWorkers + 1)
    /\ client[c] = "stopping" => cancelled /\ pos \in 1..(2 * NumWorkers + 1)

\* Only the manager starts the pool before the context is cancelled.
StartsAreRight ==
  /\ starts = Cardinality(Starters)
  /\ ~cancelled => \A c \in Callbacks : client[c] = "idle"

PastSteps == LoopSteps \ {"none", "begin", "top", "ended"}

\* A loop that has dialed was spawned by the first Start: those of the later
\* ones find the context cancelled.
LoopsAreRight ==
  \A l \in Loops :
    /\ loop[l] # "none" => l[2] <= starts
    /\ (\E c \in Clients : client[c] = "starting") /\ l[2] = starts /\ l[1] >= pos => loop[l] = "none"
    /\ loop[l] \in PastSteps => l[2] = 1
    /\ loop[l] = "disconnecting" => cancelled

Reported == {l \in Loops : loop[l] \in {"processing", "disconnecting"}}

\* The Stop that cancels the context zeroes the counter while loops have yet to
\* report their end; the test for zero is what keeps it from going below.
CountIsRight ==
  active <= Cardinality(Reported) /\ (~cancelled => active = Cardinality(Reported))

Inv == TypeOK /\ LockIsRight /\ StartsAreRight /\ LoopsAreRight /\ CountIsRight

-----------------------------------------------------------------------------
(* Finite sets *)

LEMMA ClientsFinite ==
  /\ IsFiniteSet(Clients) /\ Cardinality(Clients) = MaxStarts /\ MaxStarts \in Nat
  /\ \A S \in SUBSET Clients :
       IsFiniteSet(S) /\ Cardinality(S) \in Nat /\ Cardinality(S) <= MaxStarts
<1>1. Clients = Callbacks \union {Manager}
  BY DEF Clients
<1>2. IsFiniteSet(Clients) /\ Cardinality(Clients) = Cardinality(Callbacks) + 1
  BY <1>1, ClientAssumption, FS_AddElement
<1>3. Cardinality(Callbacks) \in Nat
  BY ClientAssumption, FS_CardinalityType
<1>4. Cardinality(Clients) = MaxStarts /\ MaxStarts \in Nat
  BY <1>2, <1>3 DEF MaxStarts
<1> QED
  BY <1>2, <1>4, FS_Subset, FS_CardinalityType

LEMMA LoopsFinite ==
  /\ IsFiniteSet(Loops)
  /\ \A S \in SUBSET Loops : IsFiniteSet(S) /\ Cardinality(S) \in Nat
<1>1. IsFiniteSet(Workers) /\ IsFiniteSet(1..MaxStarts)
  BY WorkersAssumption, ClientsFinite, FS_Interval DEF Workers
<1>2. IsFiniteSet(Loops)
  BY <1>1, FS_Product DEF Loops
<1> QED
  BY <1>2, FS_Subset, FS_CardinalityType

\* Before the context is cancelled there was at most one Start.
LEMMA OneStart ==
  ASSUME Inv, ~cancelled
  PROVE  starts <= 1
<1>1. Starters \subseteq {Manager}
  BY DEF Inv, StartsAreRight, Starters, HasStarted, Clients
<1>2. IsFiniteSet({Manager}) /\ Cardinality({Manager}) = 1 /\ Starters \in SUBSET {Manager}
  BY <1>1, FS_Singleton
<1>3. Cardinality(Starters) <= 1
  BY <1>2, FS_Subset
<1> QED
  BY <1>3 DEF Inv, StartsAreRight

\* The one that has called Start is one of the Starters.
LEMMA SomeStart ==
  ASSUME Inv, NEW c \in Clients, HasStarted(c)
  PROVE  starts \in 1..MaxStarts
<1>1. c \in Starters /\ Starters \in SUBSET Clients
  BY DEF Starters
<1>2. Cardinality(Starters) # 0
  BY <1>1, ClientsFinite, FS_EmptySet
<1> QED
  BY <1>1, <1>2, ClientsFinite DEF Inv, StartsAreRight

-----------------------------------------------------------------------------
LEMMA InvInit == Init => Inv
<1> SUFFICES ASSUME Init PROVE Inv
  OBVIOUS
<1> USE DEF Init
<1>1. TypeOK
  <2>1. cancelled \in BOOLEAN
    BY Zenon
  <2>2. pos \in 0..(2 * NumWorkers + 1) /\ starts \in 0..MaxStarts /\ active \in Nat
    BY ClientsFinite, WorkersAssumption
  <2>3. /\ client \in [Clients -> ClientSteps]
        /\ loop \in [Loops -> LoopSteps]
        /\ status \in [Workers -> Statuses]
        /\ conn \in [Workers -> {"nil", "open", "dead"}]
    BY DEF ClientSteps, LoopSteps, Statuses
  <2> QED
    BY <2>1, <2>2, <2>3 DEF TypeOK
<1>2. LockIsRight
  BY ClientAssumption DEF LockIsRight, Clients
<1>3. Starters = {} /\ Reported = {}
  BY DEF Starters, HasStarted, Reported, Clients
<1>4. StartsAreRight /\ CountIsRight
  BY <1>3, FS_EmptySet DEF StartsAreRight, CountIsRight, Clients
<1>5. LoopsAreRight
  BY DEF LoopsAreRight, PastSteps
<1> QED
  BY <1>1, <1>2, <1>4, <1>5 DEF Inv

-----------------------------------------------------------------------------
(* The callers of Start and Stop *)

\* A caller takes a step that is no Start: as many have started as before.
LEMMA ClientMoves ==
  ASSUME Inv, NEW c \in Clients, NEW to \in ClientSteps,
         client' = [client EXCEPT ![c] = to], UNCHANGED starts,
         IF c = Manager THEN to # "idle" /\ client[c] # "idle"
                        ELSE to \in {"starting", "done"} <=> client[c] \in {"starting", "done"},
         ~cancelled' => ~cancelled /\ c = Manager
  PROVE  client' \in [Clients -> ClientSteps] /\ StartsAreRight'
<1>1. client \in [Clients -> ClientSteps]
  BY DEF Inv, TypeOK
<1>2. \A d \in Clients : HasStarted(d)' <=> HasStarted(d)
  BY <1>1 DEF HasStarted
<1>3. Starters' = Starters
  BY <1>2 DEF Starters
<1> QED
  BY <1>1, <1>3, ClientAssumption DEF Inv, StartsAreRight, Clients

LEMMA StartKeeps ==
  ASSUME Inv, NEW c \in Clients, StartBegin(c) \/ StartSpawn(c) \/ StartEnd(c)
  PROVE  Inv'
<1> USE DEF Inv
<1>1. client \in [Clients -> ClientSteps] /\ starts \in Nat /\ pos \in Nat /\ NumWorkers \in Nat
  BY WorkersAssumption, ClientsFinite DEF TypeOK
<1>2. CASE StartBegin(c)
  <2>1. /\ mu = "free" /\ client[c] = (IF c = Manager THEN "idle" ELSE "sleeping")
        /\ client' = [client EXCEPT ![c] = "starting"]
        /\ mu' = c /\ pos' = 1 /\ starts' = starts + 1
        /\ UNCHANGED <<cancelled, loop, status, conn, active>>
    BY <1>2 DEF StartBegin
  <2>2. \A d \in Clients : client[d] \notin {"starting", "stopping"}
    BY <2>1, ClientAssumption DEF LockIsRight, Clients
  <2>3. Starters' = Starters \union {c} /\ c \notin Starters
    BY <1>1, <2>1 DEF Starters, HasStarted
  <2>4. Starters \in SUBSET Clients /\ Starters' \in SUBSET Clients
    BY DEF Starters
  <2>5. starts' = Cardinality(Starters') /\ starts' <= MaxStarts
    <3>1. PICK S, T : S = Starters /\ T = Starters'
      OBVIOUS
    <3>2. IsFiniteSet(S) /\ IsFiniteSet(T)
      BY <2>4, <3>1, ClientsFinite, FS_Subset
    <3>3. Cardinality(T) = Cardinality(S) + 1
      BY <2>3, <3>1, <3>2, FS_AddElement
    <3>4. starts = Cardinality(S)
      BY <3>1 DEF StartsAreRight
    <3>5. Cardinality(T) <= Cardinality(Clients)
      BY <2>4, <3>1, ClientsFinite, FS_Subset
    <3> QED
      BY <2>1, <3>1, <3>3, <3>4, <3>5, ClientsFinite
  <2>6. StartsAreRight'
    BY <1>1, <2>1, <2>5, ClientAssumption DEF StartsAreRight, Clients
  <2>7. TypeOK'
    BY <1>1, <2>1, <2>5, ClientsFinite, WorkersAssumption DEF TypeOK, ClientSteps
  <2>8. LockIsRight'
    BY <1>1, <2>1, <2>2 DEF LockIsRight
  <2>9. LoopsAreRight'
    BY <1>1, <2>1, ClientsFinite DEF LoopsAreRight, Loops
  <2>10. CountIsRight'
    BY <2>1 DEF CountIsRight, Reported
  <2> QED
    BY <2>6, <2>7, <2>8, <2>9, <2>10
<1>3. CASE StartSpawn(c)
  <2> DEFINE l == <<pos, starts>>
  <2>1. /\ mu = c /\ client[c] = "starting" /\ pos <= NumWorkers /\ pos' = pos + 1
        /\ loop' = [loop EXCEPT ![l] = "begin"]
        /\ UNCHANGED <<client, mu, cancelled, starts, status, conn, active>>
    BY <1>3 DEF StartSpawn
  <2>2. starts \in 1..MaxStarts /\ pos \in 1..NumWorkers
    BY <2>1, SomeStart, <1>1 DEF HasStarted, LockIsRight
  <2>3. l \in Loops /\ l[1] = pos /\ l[2] = starts
    BY <2>2 DEF Loops, Workers
  <2>4. loop[l] = "none"
    BY <1>1, <2>1, <2>3 DEF LoopsAreRight
  <2>5. loop \in [Loops -> LoopSteps]
    BY DEF TypeOK
  <2>6. Reported' = Reported
    BY <2>1, <2>3, <2>4, <2>5 DEF Reported
  <2>7. TypeOK'
    <3>1. loop' \in [Loops -> LoopSteps]
      BY <2>1, <2>5 DEF LoopSteps
    <3>2. pos' \in 0..(2 * NumWorkers + 1)
      BY <1>1, <2>1, <2>2
    <3> QED
      BY <2>1, <3>1, <3>2 DEF TypeOK
  <2>8. LockIsRight'
    BY <1>1, <2>1, <2>2 DEF LockIsRight
  <2>9. StartsAreRight' /\ CountIsRight'
    BY <2>1, <2>6 DEF StartsAreRight, CountIsRight, Starters, HasStarted
  <2>10. LoopsAreRight'
    <3> SUFFICES ASSUME NEW k \in Loops
                 PROVE  /\ loop'[k] # "none" => k[2] <= starts
                        /\ k[2] = starts /\ k[1] >= pos + 1 => loop'[k] = "none"
                        /\ loop'[k] \in PastSteps => k[2] = 1
                        /\ loop'[k] = "disconnecting" => cancelled
      BY <2>1 DEF LoopsAreRight
    <3>1. CASE k = l
      BY <1>1, <2>1, <2>3, <2>5, <3>1 DEF PastSteps
    <3>2. CASE k # l
      <4>1. loop'[k] = loop[k]
        BY <2>1, <2>5, <3>2
      <4>2. k[1] \in Nat
        BY DEF Loops, Workers
      <4> QED
        BY <1>1, <2>1, <4>1, <4>2 DEF LoopsAreRight
    <3> QED
      BY <3>1, <3>2
  <2> QED
    BY <2>7, <2>8, <2>9, <2>10
<1>4. CASE StartEnd(c)
  <2> DEFINE to == IF c = Manager THEN "running" ELSE "done"
  <2>1. /\ mu = c /\ client[c] = "starting" /\ pos > NumWorkers
        /\ client' = [client EXCEPT ![c] = to]
        /\ mu' = "free" /\ pos' = 0
        /\ UNCHANGED <<cancelled, starts, loop, status, conn, active>>
    BY <1>4 DEF StartEnd
  <2>2. c # Manager => cancelled
    BY <2>1 DEF StartsAreRight, Clients
  <2>3. client' \in [Clients -> ClientSteps] /\ StartsAreRight'
    BY <2>1, <2>2, ClientMoves DEF ClientSteps
  <2>4. \A d \in Clients : client'[d] \notin {"starting", "stopping"}
    BY <1>1, <2>1 DEF LockIsRight
  <2>5. TypeOK'
    BY <2>1, <2>3, WorkersAssumption DEF TypeOK
  <2>6. LockIsRight'
    BY <2>1, <2>4, ClientAssumption DEF LockIsRight, Clients
  <2>7. LoopsAreRight' /\ CountIsRight'
    BY <2>1, <2>4 DEF LoopsAreRight, CountIsRight, Reported
  <2> QED
    BY <2>3, <2>5, <2>6, <2>7
<1> QED
  BY <1>2, <1>3, <1>4

LEMMA StopKeeps ==
  ASSUME Inv, NEW c \in Clients,
         StopBegin(c) \/ StopDisconnect(c) \/ StopStatus(c) \/ StopEnd(c)
  PROVE  Inv'
<1> USE DEF Inv
<1>1. client \in [Clients -> ClientSteps] /\ pos \in Nat /\ NumWorkers \in Nat \ {0}
  BY WorkersAssumption DEF TypeOK
<1>2. CASE StopBegin(c)
  <2>1. /\ mu = "free" /\ client[c] = (IF c = Manager THEN "running" ELSE "idle")
        /\ client' = [client EXCEPT ![c] = "stopping"]
        /\ mu' = c /\ pos' = 1 /\ cancelled'
        /\ UNCHANGED <<starts, loop, status, conn, active>>
    BY <1>2 DEF StopBegin
  <2>2. \A d \in Clients : client[d] \notin {"starting", "stopping"}
    BY <2>1, ClientAssumption DEF LockIsRight, Clients
  <2>3. client' \in [Clients -> ClientSteps] /\ StartsAreRight'
    BY <2>1, ClientMoves DEF ClientSteps
  <2>4. cancelled' \in BOOLEAN
    BY <1>2, Zenon DEF StopBegin
  <2>5. TypeOK'
    BY <1>1, <2>1, <2>3, <2>4 DEF TypeOK
  <2>6. LockIsRight'
    BY <1>1, <2>1, <2>2 DEF LockIsRight
  <2>7. LoopsAreRight' /\ CountIsRight'
    BY <1>1, <2>1, <2>2 DEF LoopsAreRight, CountIsRight, Reported
  <2> QED
    BY <2>3, <2>5, <2>6, <2>7
<1>3. CASE StopDisconnect(c) \/ StopStatus(c)
  <2>1. /\ mu = c /\ client[c] = "stopping" /\ pos <= 2 * NumWorkers /\ pos' = pos + 1
        /\ UNCHANGED <<client, mu, cancelled, starts, loop, active>>
    BY <1>3 DEF StopDisconnect, StopStatus
  <2>2. pos' \in 1..(2 * NumWorkers + 1)
    BY <1>1, <2>1
  <2>3. conn' \in [Workers -> {"nil", "open", "dead"}] /\ status' \in [Workers -> Statuses]
    BY <1>3 DEF StopDisconnect, StopStatus, TypeOK, Statuses
  <2>4. TypeOK'
    BY <1>1, <2>1, <2>2, <2>3 DEF TypeOK
  <2>5. \A d \in Clients : client[d] # "starting"
    BY <2>1 DEF LockIsRight
  <2>6. LockIsRight'
    BY <2>1, <2>2, <2>5 DEF LockIsRight
  <2>7. StartsAreRight' /\ LoopsAreRight' /\ CountIsRight'
    BY <2>1, <2>5 DEF StartsAreRight, Starters, HasStarted, LoopsAreRight, CountIsRight, Reported
  <2> QED
    BY <2>4, <2>6, <2>7
<1>4. CASE StopEnd(c)
  <2> DEFINE to == IF c = Manager THEN "done" ELSE "sleeping"
  <2>1. /\ mu = c /\ client[c] = "stopping" /\ active' = 0
        /\ client' = [client EXCEPT ![c] = to]
        /\ mu' = "free" /\ pos' = 0
        /\ UNCHANGED <<cancelled, starts, loop, status, conn>>
    BY <1>4 DEF StopEnd
  <2>2. cancelled
    BY <2>1 DEF LockIsRight
  <2>3. client' \in [Clients -> ClientSteps] /\ StartsAreRight'
    BY <1>1, <2>1, <2>2, ClientMoves DEF ClientSteps
  <2>4. \A d \in Clients : client'[d] \notin {"starting", "stopping"}
    BY <1>1, <2>1 DEF LockIsRight
  <2>5. TypeOK'
    BY <1>1, <2>1, <2>3 DEF TypeOK
  <2>6. LockIsRight'
    BY <2>1, <2>4, ClientAssumption DEF LockIsRight, Clients
  <2>7. LoopsAreRight'
    BY <2>1, <2>4 DEF LoopsAreRight
  <2>8. Reported' = Reported /\ Cardinality(Reported) \in Nat
    BY <2>1, LoopsFinite DEF Reported
  <2>9. CountIsRight'
    BY <2>1, <2>2, <2>8 DEF CountIsRight
  <2> QED
    BY <2>3, <2>5, <2>6, <2>7, <2>9
<1> QED
  BY <1>2, <1>3, <1>4

-----------------------------------------------------------------------------
(* The connection loops *)

\* A loop takes a step: where it may go, and what else is left alone.
LEMMA LoopMoves ==
  ASSUME Inv, NEW l \in Loops, NEW from \in LoopSteps \ {"none"}, NEW to \in LoopSteps,
         Goto(l, from, to), from \notin PastSteps /\ to \in PastSteps => ~cancelled,
         to = "disconnecting" => cancelled,
         status' \in [Workers -> Statuses], conn' \in [Workers -> {"nil", "open", "dead"}],
         active' \in Nat
  PROVE  /\ TypeOK' /\ LockIsRight' /\ StartsAreRight' /\ LoopsAreRight'
         /\ Reported' = IF to \in {"processing", "disconnecting"} THEN Reported \union {l}
                        ELSE Reported \ {l}
<1> USE DEF Inv
<1>1. /\ loop[l] = from /\ loop' = [loop EXCEPT ![l] = to] /\ loop \in [Loops -> LoopSteps]
      /\ UNCHANGED <<client, mu, pos, cancelled, starts>>
  BY DEF Goto, TypeOK
<1>2. TypeOK'
  BY <1>1 DEF TypeOK
<1>3. LockIsRight' /\ StartsAreRight'
  BY <1>1 DEF LockIsRight, StartsAreRight, Starters, HasStarted
<1>4. ASSUME to \in PastSteps
      PROVE  l[2] = 1
  <2>1. CASE from \in PastSteps
    BY <1>1, <2>1 DEF LoopsAreRight
  <2>2. CASE ~cancelled
    <3>1. l[2] <= starts /\ starts <= 1 /\ starts \in Nat /\ l[2] \in 1..MaxStarts
      BY <1>1, <2>2, OneStart, ClientsFinite DEF LoopsAreRight, TypeOK, Loops
    <3> QED
      BY <3>1, ClientsFinite
  <2> QED
    BY <1>4, <2>1, <2>2
<1>5. ASSUME NEW k \in Loops
      PROVE  k # l => loop'[k] = loop[k]
  BY <1>1
<1>6. LoopsAreRight'
  BY <1>1, <1>4, <1>5 DEF LoopsAreRight
<1>7. Reported' = IF to \in {"processing", "disconnecting"} THEN Reported \union {l}
                  ELSE Reported \ {l}
  BY <1>1 DEF Reported
<1> QED
  BY <1>2, <1>3, <1>6, <1>7

\* One that reports nothing.
LEMMA SilentMoves ==
  ASSUME Inv, NEW l \in Loops, NEW from \in LoopSteps \ {"none"}, NEW to \in LoopSteps,
         Goto(l, from, to), from \notin PastSteps /\ to \in PastSteps => ~cancelled,
         from \in {"processing", "disconnecting"} <=> to \in {"processing", "disconnecting"},
         to = "disconnecting" => cancelled,
         status' \in [Workers -> Statuses], conn' \in [Workers -> {"nil", "open", "dead"}],
         UNCHANGED active
  PROVE  Inv'
<1>1. active' \in Nat
  BY DEF Inv, TypeOK
<1>2. /\ TypeOK' /\ LockIsRight' /\ StartsAreRight' /\ LoopsAreRight'
      /\ Reported' = IF to \in {"processing", "disconnecting"} THEN Reported \union {l}
                     ELSE Reported \ {l}
  BY <1>1, LoopMoves
<1>3. Reported' = Reported
  BY <1>2 DEF Reported, Goto
<1>4. CountIsRight'
  BY <1>3 DEF Inv, CountIsRight, Goto
<1> QED
  BY <1>2, <1>4 DEF Inv

LEMMA LoopKeeps ==
  ASSUME Inv, NEW l \in Loops, LoopStep(l)
  PROVE  Inv'
<1> USE DEF Inv
<1>1. /\ status \in [Workers -> Statuses] /\ conn \in [Workers -> {"nil", "open", "dead"}]
      /\ active \in Nat /\ l[1] \in Workers
  BY DEF TypeOK, Loops
<1>2. \A s \in Statuses : SetStatus(l, s) => status' \in [Workers -> Statuses]
  BY <1>1 DEF SetStatus
<1> USE DEF LoopSteps, PastSteps
<1>3. CASE LoopBegin(l) \/ LoopStops(l) \/ BackoffCancelled(l) \/ BackoffElapsed(l)
  <2>1. /\ status' \in [Workers -> Statuses] /\ UNCHANGED <<conn, active>>
        /\ \/ Goto(l, "begin", "top") \/ Goto(l, "top", "ended")
           \/ Goto(l, "backoff", "ended") \/ Goto(l, "backoff", "top")
    BY <1>1, <1>2, <1>3 DEF LoopBegin, LoopStops, BackoffCancelled, BackoffElapsed, Statuses
  <2> QED
    BY <1>1, <2>1, SilentMoves
<1>4. CASE DialBegin(l)
  BY <1>1, <1>4, SilentMoves DEF DialBegin
<1>5. CASE DialSucceeds(l) \/ SubscribeFails(l)
  <2>1. /\ conn' \in [Workers -> {"nil", "open", "dead"}] /\ UNCHANGED <<status, active>>
        /\ Goto(l, "dialing", "subscribing") \/ Goto(l, "subscribing", "failing")
    BY <1>1, <1>5 DEF DialSucceeds, SubscribeFails
  <2> QED
    BY <1>1, <2>1, SilentMoves
<1>6. CASE ConnectFails(l) \/ SubscribeSucceeds(l) \/ SetConnected(l)
  <2>1. /\ status' \in [Workers -> Statuses] /\ UNCHANGED <<conn, active>>
        /\ \/ Goto(l, "dialing", "top") \/ Goto(l, "failing", "top")
           \/ Goto(l, "subscribing", "established") \/ Goto(l, "established", "reporting")
    BY <1>1, <1>2, <1>6 DEF ConnectFails, SubscribeSucceeds, SetConnected, Statuses
  <2> QED
    BY <1>1, <2>1, SilentMoves
<1>7. CASE ProcessingEnds(l)
  <2>1. /\ status' \in [Workers -> Statuses] /\ UNCHANGED <<conn, active>>
        /\ cancelled /\ Goto(l, "processing", "disconnecting")
    BY <1>2, <1>7 DEF ProcessingEnds, Statuses
  <2> QED
    BY <1>1, <2>1, SilentMoves
<1>8. CASE OnConnected(l)
  <2>1. Goto(l, "reporting", "processing") /\ active' = active + 1 /\ UNCHANGED <<status, conn>>
    BY <1>8 DEF OnConnected
  <2>2. /\ TypeOK' /\ LockIsRight' /\ StartsAreRight' /\ LoopsAreRight'
        /\ Reported' = Reported \union {l}
    BY <1>1, <2>1, LoopMoves
  <2>3. Reported \in SUBSET Loops /\ l \notin Reported
    BY <2>1 DEF Reported, Goto
  <2>4. Cardinality(Reported') = Cardinality(Reported) + 1 /\ Cardinality(Reported) \in Nat
    BY <2>2, <2>3, LoopsFinite, FS_AddElement
  <2>5. CountIsRight'
    BY <1>1, <2>1, <2>4 DEF CountIsRight, Goto
  <2> QED
    BY <2>2, <2>5
<1>9. CASE OnDisconnected(l)
  <2>1. /\ Goto(l, "disconnecting", "backoff") /\ UNCHANGED <<status, conn>>
        /\ active' = IF active > 0 THEN active - 1 ELSE active
    BY <1>9 DEF OnDisconnected
  <2>2. active' \in Nat
    BY <1>1, <2>1
  <2>3. /\ TypeOK' /\ LockIsRight' /\ StartsAreRight' /\ LoopsAreRight'
        /\ Reported' = Reported \ {l}
    BY <1>1, <2>1, <2>2, LoopMoves
  <2>4. Reported \in SUBSET Loops /\ l \in Reported /\ cancelled'
    BY <2>1 DEF Reported, Goto, LoopsAreRight
  <2>5. /\ Cardinality(Reported') = Cardinality(Reported) - 1
        /\ Cardinality(Reported') \in Nat /\ Cardinality(Reported) \in Nat
    BY <2>3, <2>4, LoopsFinite, FS_RemoveElement
  <2>6. CountIsRight'
    BY <1>1, <2>1, <2>4, <2>5 DEF CountIsRight
  <2> QED
    BY <2>3, <2>6
<1> QED
  BY <1>3, <1>4, <1>5, <1>6, <1>7, <1>8, <1>9 DEF LoopStep

LEMMA InvNext == Inv /\ [Next]_vars => Inv'
<1> SUFFICES ASSUME Inv, [Next]_vars PROVE Inv'
  OBVIOUS
<1>1. CASE UNCHANGED vars
  BY <1>1 DEF vars, Inv, TypeOK, LockIsRight, StartsAreRight, Starters, HasStarted, LoopsAreRight,
     CountIsRight, Reported
<1>2. ASSUME NEW w \in Workers, ConnectionLost(w)
      PROVE  Inv'
  <2>1. /\ conn' \in [Workers -> {"nil", "open", "dead"}]
        /\ UNCHANGED <<client, mu, pos, cancelled, starts, loop, status, active>>
    BY <1>2 DEF ConnectionLost, Inv, TypeOK
  <2> QED
    BY <2>1 DEF Inv, TypeOK, LockIsRight, StartsAreRight, Starters, HasStarted, LoopsAreRight,
       CountIsRight, Reported
<1> QED
  BY <1>1, <1>2, StartKeeps, StopKeeps, LoopKeeps DEF Next, ClientStep, Terminated

\* The invariant of the pool: the lock has one owner, the loops that live are
\* known to it, and the counter follows them.
THEOREM InvTheorem == Spec => []Inv
  BY InvInit, InvNext, PTL DEF Spec

-----------------------------------------------------------------------------
(* The theorems *)

\* The variables of the pool keep their types; the counter does not go below
\* zero.
THEOREM TypeCorrect == Spec => []TypeOK
<1>1. Inv => TypeOK
  BY DEF Inv
<1> QED
  BY <1>1, InvTheorem, PTL

\* ActiveWorkers is exact until the first Stop, and zero when all loops have
\* ended: it is never more than the loops that are still to report their end.
THEOREM CounterTheorem == Spec => []ActiveWorkersIsRight
<1>1. Inv => ActiveWorkersIsRight
  <2> SUFFICES ASSUME Inv PROVE ActiveWorkersIsRight
    OBVIOUS
  <2>1. ~cancelled => active = Cardinality(Reported)
    BY DEF Inv, CountIsRight
  <2>2. ASSUME Quiet
        PROVE  active = 0
    <3>1. Reported = {}
      BY <2>2 DEF Quiet, Reported
    <3>2. active <= 0 /\ active \in Nat
      BY <3>1, FS_EmptySet DEF Inv, CountIsRight, TypeOK
    <3> QED
      BY <3>2
  <2> QED
    BY <2>1, <2>2 DEF ActiveWorkersIsRight, Reported
<1> QED
  BY <1>1, InvTheorem, PTL

\* Of the loops of a worker only the one of the first Start gets past its top.
THEOREM ExclusionTheorem == Spec => []OneLivePerWorker
<1>1. Inv => OneLivePerWorker
  <2> SUFFICES ASSUME Inv, NEW w \in Workers
               PROVE  Cardinality({l \in LoopsOf(w) : Past(l)}) <= 1
    BY DEF OneLivePerWorker
  <2> DEFINE live == {l \in LoopsOf(w) : Past(l)}
  <2>1. ASSUME NEW l \in live
        PROVE  l = <<w, 1>>
    <3>1. l \in Loops /\ l[1] = w /\ loop[l] \in PastSteps
      BY DEF LoopsOf, Past, PastSteps, Inv, TypeOK
    <3>2. l[2] = 1
      BY <3>1 DEF Inv, LoopsAreRight
    <3> QED
      BY <3>1, <3>2 DEF Loops
  <2>2. IsFiniteSet({<<w, 1>>}) /\ Cardinality({<<w, 1>>}) = 1 /\ live \in SUBSET {<<w, 1>>}
    BY <2>1, FS_Singleton
  <2> HIDE DEF live
  <2>3. Cardinality(live) <= 1
    BY <2>2, FS_Subset
  <2> QED
    BY <2>3 DEF live
<1> QED
  BY <1>1, InvTheorem, PTL

-----------------------------------------------------------------------------
(* What is collected of a buffer whose queries keep the contract *)

PollStates ==
  [at : {"idle", "polling", "extracting"}, of : Listings \union {None},
   todo : Seq(Keys), got : [Keys -> SUBSET Trades]]

\* The markets still to be asked.
AskedLater(todo) == {todo[i] : i \in 1..Len(todo)}

\* A refresh that ends now still looks back to the beginning of the window.
InTime(l, time) == time - HotMs <= TriggerOf[l] - Window

\* A collection that ends at a time has such a trade, if it was to be found.
Wanted(l, t, time) == IsTarget(l, t) /\ (KeyOf[t] \in ActiveKeys => InTime(l, time))

Belongs(l, k, t) == KeyOf[t] = k /\ InWindow(l, t) /\ t \in Targets(l, held)

SnapshotIsRight(snapshot, key) ==
  /\ key \in ActiveKeys /\ snapshot \in [among : SUBSET Trades, at : Nat]
  /\ snapshot.among \subseteq held /\ snapshot.at <= now
  /\ \A t \in snapshot.among : TsOf[t] <= snapshot.at

ViewIsRight == \A k \in Keys : view[k] # None => SnapshotIsRight(view[k], k)

\* Of a market that is cached a finished refresh has seen the trade.
SeenByRefresh(t) ==
  KeyOf[t] \in ActiveKeys => view[KeyOf[t]] # None /\ t \in view[KeyOf[t]].among

\* No refresh forgets what one before it had seen.
ViewOnlyGrows ==
  \A k \in Keys : view[k] # None => view'[k] # None /\ view[k].among \subseteq view'[k].among

\* What was to be found stays in the buffer and in the snapshots.
SeenIsRight ==
  \A l \in Listings : \A t \in seen[l] : t \in held /\ InWindow(l, t) /\ SeenByRefresh(t)

\* While there is time, the markets that were asked have given what they must.
PollIsRight ==
  /\ poll \in PollStates
  /\ poll.at = "extracting" =>
       /\ poll.of \in Listings /\ collected[poll.of] = None
       /\ \A k \in Keys : \A t \in poll.got[k] : Belongs(poll.of, k, t)
       /\ open => \A t \in seen[poll.of] : Wanted(poll.of, t, now) =>
                    KeyOf[t] \in AskedLater(poll.todo) \/ t \in poll.got[KeyOf[t]]

CollectedIsRight ==
  \A l \in Listings : collected[l] # None =>
    /\ collected[l].time \in Nat
    /\ \A k \in Keys : \A t \in collected[l].data[k] : Belongs(l, k, t)
    /\ collected[l].open => \A t \in seen[l] :
         Wanted(l, t, collected[l].time) => t \in collected[l].data[KeyOf[t]]

CollectInv ==
  /\ now \in Nat /\ held \subseteq Trades
  /\ collected = [l \in Listings |-> collected[l]]
  /\ seen \in [Listings -> SUBSET Trades]
  /\ ViewIsRight /\ SeenIsRight /\ PollIsRight /\ CollectedIsRight

\* At the start nothing is seen and nothing collected.
LEMMA CollectInit == CollectionInit => CollectInv
<1> SUFFICES ASSUME CollectionInit PROVE CollectInv
  OBVIOUS
<1> USE DEF CollectionInit
<1>1. poll \in PollStates /\ poll.at = "idle"
  BY DEF PollAt, NoTrades, PollStates
<1>2. PollIsRight
  BY <1>1 DEF PollIsRight
<1>3. ViewIsRight /\ SeenIsRight /\ CollectedIsRight
  BY DEF ViewIsRight, SeenIsRight, CollectedIsRight
<1>4. /\ now \in Nat /\ held \subseteq Trades /\ seen \in [Listings -> SUBSET Trades]
      /\ collected = [l \in Listings |-> collected[l]]
  OBVIOUS
<1> QED
  BY <1>2, <1>3, <1>4 DEF CollectInv

\* A trade that belongs to a collection does so whatever else comes in.
LEMMA BelongsStays ==
  ASSUME held \subseteq held', NEW l, NEW k, NEW t, Belongs(l, k, t)
  PROVE  Belongs(l, k, t)'
  BY DEF Belongs, Targets

\* Steps of the buffer: trades are added, snapshots renewed, it may be closed.
LEMMA BufferKeeps ==
  ASSUME CollectInv, now' \in Nat, now <= now',
         held \subseteq held', held' \subseteq Trades,
         open' => open, ViewIsRight',
         ViewOnlyGrows,
         UNCHANGED <<poll, collected, seen>>
  PROVE  CollectInv'
<1> USE DEF CollectInv
<1>1. SeenIsRight'
  <2> SUFFICES ASSUME NEW l \in Listings, NEW t \in seen[l]
               PROVE  t \in held' /\ InWindow(l, t) /\ SeenByRefresh(t)'
    BY DEF SeenIsRight, InWindow
  <2>1. t \in held /\ InWindow(l, t) /\ SeenByRefresh(t)
    BY DEF SeenIsRight
  <2>2. ActiveKeys \subseteq Keys
    BY CollectionAssumption
  <2> QED
    BY <2>1, <2>2 DEF SeenByRefresh, ViewOnlyGrows
<1>2. CollectedIsRight'
  <2> SUFFICES ASSUME NEW l \in Listings, collected[l] # None
               PROVE  /\ \A k \in Keys : \A t \in collected[l].data[k] : Belongs(l, k, t)'
                      /\ collected[l].open => \A t \in seen[l] :
                           Wanted(l, t, collected[l].time) => t \in collected[l].data[KeyOf[t]]
    BY DEF CollectedIsRight, Wanted, InTime
  <2> QED
    BY BelongsStays DEF CollectedIsRight
<1>3. PollIsRight'
  <2>1. poll' \in PollStates
    BY DEF PollIsRight
  <2>2. ASSUME poll.at = "extracting"
        PROVE  /\ poll.of \in Listings /\ collected[poll.of] = None
               /\ \A k \in Keys : \A t \in poll.got[k] : Belongs(poll.of, k, t)'
               /\ open' => \A t \in seen[poll.of] : Wanted(poll.of, t, now') =>
                    KeyOf[t] \in AskedLater(poll.todo) \/ t \in poll.got[KeyOf[t]]
    <3>1. /\ poll.of \in Listings /\ collected[poll.of] = None
          /\ \A k \in Keys : \A t \in poll.got[k] : Belongs(poll.of, k, t)
          /\ open => \A t \in seen[poll.of] : Wanted(poll.of, t, now) =>
               KeyOf[t] \in AskedLater(poll.todo) \/ t \in poll.got[KeyOf[t]]
      BY <2>2 DEF PollIsRight
    <3>2. InTime(poll.of, now') => InTime(poll.of, now)
      <4>1. TriggerOf[poll.of] \in Nat /\ HotMs \in Nat /\ Window \in Nat
        BY <3>1, CollectionAssumption
      <4> QED
        BY <4>1 DEF InTime
    <3>3. \A t : Wanted(poll.of, t, now') => Wanted(poll.of, t, now)
      BY <3>2 DEF Wanted
    <3> QED
      BY <3>1, <3>3, BelongsStays
  <2>3. \A t : Wanted(poll.of, t, now)' <=> Wanted(poll.of, t, now')
    BY DEF Wanted, InTime
  <2> QED
    BY <2>1, <2>2, <2>3 DEF PollIsRight
<1> QED
  BY <1>1, <1>2, <1>3

\* A snapshot stays right when more is held later.
LEMMA SnapshotStays ==
  ASSUME NEW snapshot, NEW k, SnapshotIsRight(snapshot, k), held \subseteq held',
         now \in Nat, now' \in Nat, now <= now'
  PROVE  SnapshotIsRight(snapshot, k)'
  BY DEF SnapshotIsRight

\* A refresh takes its snapshot from trades that are held, and from all that
\* those before it had seen.
LEMMA RefreshKeepsView ==
  ASSUME CollectInv, Refresh
  PROVE  /\ ViewIsRight'
         /\ ViewOnlyGrows
<1> USE DEF CollectInv
<1>1. PICK among \in SUBSET held, at \in 0..now, renewed \in SUBSET ActiveKeys :
        /\ \A t \in among : TsOf[t] <= at
        /\ \A k \in Keys : view[k] # None => view[k].among \subseteq among /\ view[k].at <= at
        /\ \A k \in ActiveKeys :
             (\E t \in among : KeyOf[t] = k /\ InRange(t, at - HotMs, at)) => k \in renewed
        /\ \A k \in renewed : \E t \in held : KeyOf[t] = k /\ InRange(t, at - HotMs, at)
        /\ view' = [k \in Keys |-> IF k \in renewed THEN [among |-> among, at |-> at] ELSE view[k]]
  BY ZenonT(30) DEF Refresh
<1>2. UNCHANGED <<now, held>>
  BY DEF Refresh
<1>3. PICK taken : taken = [among |-> among, at |-> at]
  OBVIOUS
<1>4. /\ taken.among = among /\ taken.at = at
      /\ taken \in [among : SUBSET Trades, at : Nat] /\ taken # None
  <2>1. taken.among = among /\ taken.at = at /\ taken \in [among : SUBSET Trades, at : Nat]
    BY <1>3
  <2> QED
    BY <2>1, CollectionAssumption
<1>5. \A k \in Keys : view'[k] = taken \/ view'[k] = view[k]
  BY <1>1, <1>3
<1>6. ASSUME NEW k \in Keys, view'[k] # view[k]
      PROVE  k \in ActiveKeys /\ view'[k] = taken
  BY <1>1, <1>3, <1>6
<1>7. \A k \in ActiveKeys : SnapshotIsRight(taken, k)
  BY <1>1, <1>4 DEF SnapshotIsRight
<1>8. ASSUME NEW k \in Keys, view'[k] # None
      PROVE  SnapshotIsRight(view[k], k)'
  <2>1. PICK snapshot : snapshot = view'[k]
    OBVIOUS
  <2>2. SnapshotIsRight(snapshot, k)
    BY <1>6, <1>7, <1>8, <2>1 DEF ViewIsRight
  <2>3. SnapshotIsRight(snapshot, k)'
    BY <1>2, <2>2 DEF SnapshotIsRight
  <2> QED
    BY <2>1, <2>3 DEF SnapshotIsRight
<1>9. ASSUME NEW k \in Keys, view[k] # None
      PROVE  view'[k] # None /\ view[k].among \subseteq view'[k].among
  BY <1>1, <1>4, <1>5, <1>9
<1> QED
  BY <1>8, <1>9 DEF ViewIsRight, ViewOnlyGrows

\* What the buffer may answer to the question for one market.
AnswersTo(l, k) ==
  Answers(HeldOf(k), view[k], StartTime(l), EndTime(l))

\* The trades a market must give are among those asked for, and an answer given
\* in time has them.
LEMMA AnswerHasSeen ==
  ASSUME CollectInv, NEW l \in Listings, NEW k \in Keys,
         NEW answer, answer \in AnswersTo(l, k),
         NEW t \in seen[l], KeyOf[t] = k, k \in ActiveKeys => InTime(l, now)
  PROVE  t \in answer
<1> SUFFICES ASSUME t \notin answer PROVE FALSE
  OBVIOUS
<1> USE DEF CollectInv
<1>1. /\ TsOf[t] \in Nat /\ TriggerOf[l] \in Nat /\ HotMs \in Nat /\ Window \in Nat
      /\ t \in held /\ InWindow(l, t)
      /\ k \in ActiveKeys => view[k] # None /\ t \in view[k].among
  <2>1. t \in held /\ InWindow(l, t)
    BY DEF SeenIsRight
  <2> QED
    BY <2>1, CollectionAssumption DEF SeenIsRight, SeenByRefresh
<1>2. TriggerOf[l] - Window <= TsOf[t] /\ TsOf[t] <= TriggerOf[l] + Window
  BY <1>1 DEF InWindow
<1>3. /\ t \in HeldOf(k)
      /\ InRange(t, StartTime(l), EndTime(l))
  BY <1>1, <1>2 DEF HeldOf, InRange, StartTime, EndTime
<1>4. /\ view[k] # None
      /\ t \notin view[k].among \/ ~InRange(t, view[k].at - HotMs, view[k].at)
  BY <1>3 DEF AnswersTo, Answers, IsAnswer
<1>5. SnapshotIsRight(view[k], k)
  BY <1>4 DEF ViewIsRight
<1>6. k \in ActiveKeys /\ t \in view[k].among /\ view[k].at \in Nat /\ view[k].at <= now /\ TsOf[t] <= view[k].at
  BY <1>1, <1>5 DEF SnapshotIsRight
<1>7. view[k].at - HotMs <= TsOf[t]
  BY <1>1, <1>2, <1>6 DEF InTime
<1> QED
  BY <1>4, <1>6, <1>7 DEF InRange

\* The head of the list is asked, and the others later.
LEMMA AskedNow ==
  ASSUME NEW S, NEW todo \in Seq(S), todo # <<>>
  PROVE  /\ Head(todo) \in S /\ Tail(todo) \in Seq(S)
         /\ AskedLater(todo) \subseteq AskedLater(Tail(todo)) \union {Head(todo)}
<1>1. /\ Head(todo) = todo[1] /\ Head(todo) \in S /\ Tail(todo) \in Seq(S) /\ Len(todo) \in Nat
      /\ Len(Tail(todo)) = Len(todo) - 1
      /\ \A i \in 1..Len(Tail(todo)) : Tail(todo)[i] = todo[i + 1]
  OBVIOUS
<1>2. ASSUME NEW i \in 1..Len(todo)
      PROVE  todo[i] \in AskedLater(Tail(todo)) \union {Head(todo)}
  <2>1. CASE i = 1
    BY <1>1, <2>1
  <2>2. CASE i # 1
    <3>1. i - 1 \in 1..Len(Tail(todo)) /\ Tail(todo)[i - 1] = todo[i]
      BY <1>1, <2>2
    <3> QED
      BY <3>1 DEF AskedLater
  <2> QED
    BY <2>1, <2>2
<1> QED
  BY <1>1, <1>2 DEF AskedLater

\* One market is asked, and its target trades are kept.
LEMMA ExtractKeeps ==
  ASSUME CollectInv, Extract
  PROVE  CollectInv'
<1> USE DEF CollectInv
<1>1. PICK l, k : l = poll.of /\ k = Head(poll.todo)
  OBVIOUS
<1>2. /\ poll.at = "extracting" /\ poll.todo # <<>>
      /\ UNCHANGED <<now, held, view, open, collected, seen>>
  BY DEF Extract
<1>3. PICK answer :
        /\ answer \in IF open THEN AnswersTo(l, k) ELSE {{}}
        /\ poll' = [poll EXCEPT !.todo = Tail(@), !.got[k] = Targets(l, answer)]
  BY <1>1 DEF Extract, AnswersTo
<1>4. /\ poll \in PollStates /\ l \in Listings /\ collected[l] = None
      /\ poll.todo \in Seq(Keys) /\ poll.got \in [Keys -> SUBSET Trades]
  BY <1>1, <1>2 DEF PollIsRight, PollStates
<1>5. /\ k \in Keys /\ Tail(poll.todo) \in Seq(Keys)
      /\ AskedLater(poll.todo) \subseteq AskedLater(Tail(poll.todo)) \union {k}
  BY <1>1, <1>2, <1>4, AskedNow
<1>6. \A t \in answer : /\ t \in held /\ KeyOf[t] = k
                        /\ InRange(t, StartTime(l), EndTime(l))
  BY <1>3 DEF AnswersTo, Answers, IsAnswer, HeldOf
<1> DEFINE found == Targets(l, answer)
<1>7. found \subseteq Trades /\ \A t \in found : Belongs(l, k, t)
  <2>1. ASSUME NEW t \in answer
        PROVE  InWindow(l, t)
    <3>1. TsOf[t] \in Nat /\ TriggerOf[l] \in Nat /\ Window \in Nat
      BY <1>4, <1>6, CollectionAssumption
    <3> QED
      BY <1>6, <3>1 DEF InRange, StartTime, EndTime,
         InWindow
  <2> QED
    BY <1>6, <2>1 DEF Targets, Belongs
<1>8. open => \A t \in seen[l] : KeyOf[t] = k /\ Wanted(l, t, now) => t \in found
  <2> SUFFICES ASSUME open, NEW t \in seen[l], KeyOf[t] = k, Wanted(l, t, now)
               PROVE  t \in found
    OBVIOUS
  <2>1. answer \in AnswersTo(l, k)
    BY <1>3
  <2>2. t \in answer
    BY <1>4, <1>5, <2>1, AnswerHasSeen DEF Wanted
  <2> QED
    BY <2>2 DEF Wanted, Targets
<1> HIDE DEF found
<1>9. /\ poll' \in PollStates /\ poll'.at = "extracting" /\ poll'.of = l
      /\ poll'.todo = Tail(poll.todo) /\ poll'.got = [poll.got EXCEPT ![k] = found]
  BY <1>1, <1>2, <1>3, <1>4, <1>5, <1>7 DEF PollStates, found
<1>10. poll'.got[k] = found /\ \A j \in Keys \ {k} : poll'.got[j] = poll.got[j]
  BY <1>4, <1>5, <1>9
<1>11. PollIsRight'
  <2>1. \A j \in Keys : \A t \in poll'.got[j] : Belongs(l, j, t)
    BY <1>1, <1>2, <1>7, <1>10 DEF PollIsRight
  <2>2. \A j \in Keys : \A t \in poll'.got[j] : Belongs(l, j, t)'
    BY <1>2, <2>1 DEF Belongs, Targets
  <2>3. ASSUME open, NEW t \in seen[l], Wanted(l, t, now)
        PROVE  KeyOf[t] \in AskedLater(poll'.todo) \/ t \in poll'.got[KeyOf[t]]
    <3>1. KeyOf[t] \in Keys
      BY <1>4, CollectionAssumption
    <3>2. KeyOf[t] \in AskedLater(poll.todo) \/ t \in poll.got[KeyOf[t]]
      BY <1>1, <1>2, <2>3 DEF PollIsRight
    <3>3. CASE KeyOf[t] = k
      BY <1>8, <1>10, <2>3, <3>3
    <3>4. CASE KeyOf[t] # k
      BY <1>5, <1>9, <1>10, <3>1, <3>2, <3>4
    <3> QED
      BY <3>3, <3>4
  <2> QED
    BY <1>2, <1>4, <1>9, <2>2, <2>3 DEF PollIsRight, Wanted, InTime
<1> QED
  BY <1>2, <1>11 DEF ViewIsRight, SnapshotIsRight, SeenIsRight, SeenByRefresh, CollectedIsRight,
     Belongs, Targets, Wanted, InTime

\* A notice is detected: the markets are still to be asked for what is to be found.
LEMMA DetectKeeps ==
  ASSUME CollectInv, NEW l \in Listings, Detect(l)
  PROVE  CollectInv'
<1> USE DEF CollectInv
<1>1. /\ collected[l] = None
      /\ poll' = [at |-> "extracting", of |-> l, todo |-> ExtractionOrder, got |-> NoTrades]
      /\ seen' = [seen EXCEPT ![l] = Visible(l)]
      /\ UNCHANGED <<now, held, view, open, collected>>
  BY DEF Detect
<1>2. /\ ExtractionOrder \in Seq(Keys) /\ Keys \subseteq AskedLater(ExtractionOrder)
      /\ KeyOf \in [Trades -> Keys]
  <2>1. /\ ExtractionOrder \in Seq(Keys) /\ Range(ExtractionOrder) = Keys
        /\ KeyOf \in [Trades -> Keys]
    BY CollectionAssumption
  <2>2. DOMAIN ExtractionOrder = 1..Len(ExtractionOrder)
    BY <2>1
  <2>3. Range(ExtractionOrder) = AskedLater(ExtractionOrder)
    BY <2>2 DEF Range, AskedLater
  <2> QED
    BY <2>1, <2>3
<1>3. Visible(l) \subseteq Trades
  BY DEF Visible
<1>4. /\ seen' \in [Listings -> SUBSET Trades] /\ seen'[l] = Visible(l)
      /\ \A m \in Listings \ {l} : seen'[m] = seen[m]
  BY <1>1, <1>3
<1>5. ASSUME NEW t \in Visible(l)
      PROVE  t \in held /\ InWindow(l, t) /\ SeenByRefresh(t)
  BY <1>5 DEF Visible, OfListing, SeenByRefresh
<1>6. SeenIsRight'
  <2> SUFFICES ASSUME NEW m \in Listings, NEW t \in seen'[m]
               PROVE  t \in held /\ InWindow(m, t) /\ SeenByRefresh(t)
    BY <1>1 DEF SeenIsRight, SeenByRefresh, InWindow
  <2> QED
    BY <1>4, <1>5 DEF SeenIsRight
<1>7. CollectedIsRight'
  <2> SUFFICES ASSUME NEW m \in Listings, collected[m] # None
               PROVE  /\ \A k \in Keys : \A t \in collected[m].data[k] : Belongs(m, k, t)
                      /\ collected[m].open => \A t \in seen'[m] :
                           Wanted(m, t, collected[m].time) => t \in collected[m].data[KeyOf[t]]
    BY <1>1 DEF CollectedIsRight, Belongs, Targets, Wanted, InTime
  <2>1. m # l
    BY <1>1
  <2> QED
    BY <1>4, <2>1 DEF CollectedIsRight
<1>8. PollIsRight'
  <2>1. /\ NoTrades \in [Keys -> SUBSET Trades]
        /\ \A k \in Keys : NoTrades[k] = {}
    BY DEF NoTrades
  <2>2. /\ poll' \in PollStates /\ poll'.of = l
        /\ poll'.todo = ExtractionOrder /\ poll'.got = NoTrades
    BY <1>1, <1>2, <2>1 DEF PollStates
  <2>3. \A t \in seen'[l] : KeyOf[t] \in AskedLater(ExtractionOrder)
    BY <1>2, <1>3, <1>4
  <2> QED
    BY <1>1, <2>1, <2>2, <2>3 DEF PollIsRight
<1> QED
  BY <1>1, <1>4, <1>6, <1>7, <1>8 DEF ViewIsRight, SnapshotIsRight

\* All markets were asked: the collection has what was got.
LEMMA ExtractEndKeeps ==
  ASSUME CollectInv, ExtractEnd
  PROVE  CollectInv'
<1> USE DEF CollectInv
<1>1. PICK l, new : l = poll.of /\ new = [data |-> poll.got, time |-> now, open |-> open]
  OBVIOUS
<1>2. /\ poll.at = "extracting" /\ poll.todo = <<>>
      /\ collected' = [collected EXCEPT ![l] = new]
      /\ poll' = PollAt("polling")
      /\ UNCHANGED <<now, held, view, open, seen>>
  BY <1>1 DEF ExtractEnd
<1>3. new.data = poll.got /\ new.time = now /\ new.open = open
  BY <1>1
<1>4. /\ l \in Listings
      /\ \A k \in Keys : \A t \in poll.got[k] : Belongs(l, k, t)
      /\ open => \A t \in seen[l] : Wanted(l, t, now) => t \in poll.got[KeyOf[t]]
  <2>1. AskedLater(poll.todo) = {}
    BY <1>2 DEF AskedLater
  <2> QED
    BY <1>1, <1>2, <2>1 DEF PollIsRight
<1>5. /\ collected'[l] = new /\ \A m \in Listings \ {l} : collected'[m] = collected[m]
      /\ collected' = [m \in Listings |-> collected'[m]]
  BY <1>2, <1>4
<1>6. CollectedIsRight'
  <2> SUFFICES ASSUME NEW m \in Listings, collected'[m] # None
               PROVE  /\ collected'[m].time \in Nat
                      /\ \A k \in Keys : \A t \in collected'[m].data[k] : Belongs(m, k, t)
                      /\ collected'[m].open => \A t \in seen[m] :
                           Wanted(m, t, collected'[m].time) => t \in collected'[m].data[KeyOf[t]]
    BY <1>2 DEF CollectedIsRight, Belongs, Targets, Wanted, InTime
  <2>1. CASE m = l
    BY <1>3, <1>4, <1>5, <2>1
  <2>2. CASE m # l
    BY <1>5, <2>2 DEF CollectedIsRight
  <2> QED
    BY <2>1, <2>2
<1>7. PollIsRight'
  <2>1. poll' \in PollStates /\ poll'.at = "polling"
    BY <1>2 DEF PollAt, NoTrades, PollStates
  <2> QED
    BY <2>1 DEF PollIsRight
<1> QED
  BY <1>2, <1>5, <1>6, <1>7 DEF ViewIsRight, SnapshotIsRight, SeenIsRight, SeenByRefresh,
     Belongs, Targets

\* Each step keeps the invariant of the collections.
LEMMA CollectNext ==
  CollectInv /\ [CollectionNext]_collectionVars => CollectInv'
<1> SUFFICES ASSUME CollectInv, [CollectionNext]_collectionVars
             PROVE  CollectInv'
  OBVIOUS
<1>1. now \in Nat /\ held \subseteq Trades /\ ViewIsRight
  BY DEF CollectInv
<1>2. CASE \/ Tick \/ (\E t \in Trades : StoreTradeEvent(t))
           \/ StopMonitor \/ CloseBuffer \/ UNCHANGED collectionVars
  <2>1. /\ now' \in Nat /\ now <= now' /\ held \subseteq held' /\ held' \subseteq Trades
        /\ open' => open
        /\ UNCHANGED <<view, poll, collected, seen>>
    BY <1>1, <1>2 DEF Tick, StoreTradeEvent, StopMonitor,
       CloseBuffer, collectionVars
  <2>2. ViewIsRight'
    BY <1>1, <2>1, SnapshotStays DEF ViewIsRight
  <2> QED
    BY <2>1, <2>2, BufferKeeps DEF ViewOnlyGrows
<1>3. CASE Refresh
  <2>1. UNCHANGED <<now, held, open, poll, collected, seen>>
    BY <1>3 DEF Refresh
  <2>2. /\ now' \in Nat /\ now <= now' /\ (open' => open)
        /\ held \subseteq held' /\ held' \subseteq Trades
    BY <1>1, <2>1
  <2>3. /\ ViewIsRight'
        /\ ViewOnlyGrows
    BY <1>3, RefreshKeepsView
  <2> QED
    BY <2>1, <2>2, <2>3, BufferKeeps
<1>4. CASE PollBegin \/ PollEnd
  <2>1. /\ poll' = PollAt("idle") \/ poll' = PollAt("polling")
        /\ UNCHANGED <<now, held, view, open, collected, seen>>
    BY <1>4 DEF PollBegin, PollEnd
  <2>2. poll' \in PollStates /\ poll'.at # "extracting"
    <3>1. NoTrades \in [Keys -> SUBSET Trades]
      BY DEF NoTrades
    <3>2. PollAt("idle") \in PollStates /\ PollAt("polling") \in PollStates
      BY <3>1 DEF PollAt, PollStates
    <3>3. PollAt("idle").at # "extracting" /\ PollAt("polling").at # "extracting"
      BY DEF PollAt
    <3> QED
      BY <2>1, <3>2, <3>3
  <2> QED
    BY <2>1, <2>2 DEF CollectInv, PollIsRight, ViewIsRight, SnapshotIsRight, SeenIsRight, SeenByRefresh,
       CollectedIsRight, Belongs, Targets, Wanted, InTime
<1> QED
  BY <1>2, <1>3, <1>4, DetectKeeps, ExtractKeeps, ExtractEndKeeps DEF CollectionNext

\* The invariant of the collections: of what is seen, each market that was asked
\* in time has given its part, and what was got belongs to the listing.
THEOREM CollectTheorem == CollectionSpec => []CollectInv
<1>1. CollectInv /\ [CollectionNext]_collectionVars => CollectInv'
  BY CollectNext
<1> QED
  BY <1>1, CollectInit, PTL DEF CollectionSpec

\* A trade of the listed coin and of the window that reached the buffer is missing
\* from the collection of StartDataCollection for one of four reasons only: it was
\* not to be found yet, its symbol is not known as the coin's, the buffer was
\* closed, or the hot cache no longer looked back that far. It rests on nothing of
\* the buffer but the contract of TradeQuery.
THEOREM ReasonTheorem == CollectionSpec => []MissedHasAReason
<1>1. ASSUME CollectInv PROVE MissedHasAReason
  <2> SUFFICES ASSUME NEW l \in Listings, collected[l] # None, NEW t \in held, t \in seen[l],
                      IsTarget(l, t), collected[l].open, ~TooLate(l, KeyOf[t])
               PROVE  t \in collected[l].data[KeyOf[t]]
    BY DEF MissedHasAReason
  <2>1. KeyOf[t] \in ActiveKeys => InTime(l, collected[l].time)
    <3>1. collected[l].time \in Nat /\ HotMs \in Nat /\ TriggerOf[l] \in Nat /\ Window \in Nat
      BY <1>1, CollectionAssumption DEF CollectInv, CollectedIsRight
    <3> QED
      BY <3>1 DEF TooLate, InTime
  <2> QED
    BY <1>1, <2>1 DEF CollectInv, CollectedIsRight, Wanted
<1> QED
  BY <1>1, CollectTheorem, PTL

\* What is collected is of its market, of the window and of the listed coin, or
\* the one coin that has an S in front of it (IsTargetSymbol).
THEOREM BelongsTheorem == CollectionSpec => []CollectedTradesBelong
<1>1. ASSUME CollectInv, NEW l \in Listings, collected[l] # None,
             NEW k \in Keys, NEW t \in collected[l].data[k]
      PROVE  /\ KeyOf[t] = k /\ t \in held /\ InWindow(l, t)
             /\ SymbolOf[t].base \in {CoinOf[l], WithS[CoinOf[l]]}
  <2>1. Belongs(l, k, t) /\ t \in Trades
    BY <1>1 DEF CollectInv, CollectedIsRight, Belongs, Targets
  <2>2. normalizeSymbol(SymbolOf[t]).base = SymbolOf[t].base
    BY <2>1, CollectionAssumption DEF normalizeSymbol
  <2>3. t \in held /\ IsTargetSymbol(CoinOf[l], normalizeSymbol(SymbolOf[t]))
    BY <2>1 DEF Belongs, Targets, IsTarget
  <2> QED
    BY <2>1, <2>2, <2>3 DEF Belongs, IsTargetSymbol
<1>2. CollectInv => CollectedTradesBelong
  BY <1>1 DEF CollectedTradesBelong
<1> QED
  BY <1>2, CollectTheorem, PTL
=============================================================================
