----------------------- MODULE QuestDBManager_proofs -----------------------
(***************************************************************************)
(* QuestDBManager implements TradeLedger, for any configuration of the     *)
(* pipeline: any finite set of trades, any number of workers, any sizes.   *)
(*                                                                         *)
(* The ledger's pending set is what is in flight. That a step takes        *)
(* exactly the counted trades out of it needs the inductive invariant      *)
(* IInv: a trade is in one place of the pipeline only, and a worker that   *)
(* is about to take a batch holds none.                                    *)
(***************************************************************************)
EXTENDS QuestDBManager, FiniteSetTheorems, TLAPS

\* No trade is in two places of the pipeline, in two queued batches, or with
\* two workers.
Apart ==
  /\ tradeChannel \cap batch = {}
  /\ (tradeChannel \cup batch) \cap Queued = {}
  /\ (tradeChannel \cup batch \cup Queued) \cap InWork = {}
  /\ \A b, c \in batchChannel : b # c => b \cap c = {}
  /\ \A v, w \in Workers : v # w => worker[v].batch \cap worker[w].batch = {}

RestingEmpty ==
  \A w \in Workers : worker[w].pc \in {"idle", "stopped"} => worker[w].batch = {}

\* A worker that waits for its next attempt has one left.
AttemptsLeft ==
  \A w \in Workers : worker[w].pc = "backoff" => worker[w].attempt < MaxRetries

ClosedQuiet ==
  phase = "closed" => ~collecting /\ \A w \in Workers : worker[w].pc = "stopped"

IInv ==
  /\ TypeOK
  /\ Apart
  /\ InFlight \subseteq offered
  /\ RestingEmpty
  /\ AttemptsLeft
  /\ ClosedQuiet

-----------------------------------------------------------------------------
(* Counting *)

LEMMA SameCardinality == \A S : Ledger!Cardinality(S) = Cardinality(S)
  BY DEF Ledger!Cardinality, Cardinality

LEMMA CountType ==
  ASSUME NEW S, S \subseteq Trades
  PROVE  IsFiniteSet(S) /\ Cardinality(S) \in Nat
  BY SetsAssumption, FS_Subset, FS_CardinalityType

-----------------------------------------------------------------------------
(* Types *)

LEMMA InitTypeOK == Init => TypeOK
  BY LimitsAssumption DEF Init, TypeOK, Idle, WorkOf, Pcs

LEMMA GotoType ==
  ASSUME TypeOK, NEW w \in Workers, NEW pc \in Pcs, Goto(w, pc)
  PROVE  worker' \in [Workers -> WorkOf]
  BY DEF TypeOK, Goto, WorkOf

\* The steps of a worker between two places, a counter or a flag of the breaker
\* at each: no trade moves and nothing is counted.
SmallStep(w) ==
  \/ CanExecute(w) \/ ReadAge(w) \/ Claim(w) \/ BackoffCancelled(w)
  \/ ResetFailures(w) \/ CloseBreaker(w)
  \/ StampFailure(w) \/ CountFailure(w) \/ OpenBreaker(w)

LEMMA SmallSteps ==
  ASSUME NEW w \in Workers, SmallStep(w)
  PROVE  \E pc \in Pcs \ {"idle", "stopped", "backoff"} :
           /\ Goto(w, pc) /\ worker[w].pc \notin {"idle", "stopped"}
           /\ pc \in {"check", "aging", "claim", "insert"} =>
                worker[w].pc \in {"check", "aging", "claim"}
           /\ pc \in {"succeeded", "resetting", "stored"} =>
                worker[w].pc \in {"succeeded", "resetting"}
           /\ UNCHANGED <<phase, offered, collectorVars, batchChannel, rows, statsVars>>
  <1> USE DEF At, Pcs
  <1>1. CASE CanExecute(w)
    BY <1>1 DEF CanExecute
  <1>2. CASE ReadAge(w)
    BY <1>2 DEF ReadAge
  <1>3. CASE Claim(w)
    BY <1>3 DEF Claim
  <1>4. CASE BackoffCancelled(w) \/ ResetFailures(w) \/ CloseBreaker(w)
    BY <1>4 DEF BackoffCancelled, ResetFailures, CloseBreaker
  <1>5. CASE StampFailure(w) \/ OpenBreaker(w)
    BY <1>5 DEF StampFailure, OpenBreaker
  <1>6. CASE CountFailure(w)
    BY <1>6 DEF CountFailure
  <1> QED BY <1>1, <1>2, <1>3, <1>4, <1>5, <1>6 DEF SmallStep

\* The breaker keeps its types.
LEMMA SmallStepBreaker ==
  ASSUME TypeOK, NEW w \in Workers, SmallStep(w)
  PROVE  /\ breaker' \in {"closed", "open", "half-open"} /\ failureCount' \in Nat
         /\ expired' \in BOOLEAN
  <1>1. breaker \in {"closed", "open", "half-open"} /\ failureCount \in Nat /\ expired \in BOOLEAN
    BY DEF TypeOK
  <1>2. breaker' \in {"closed", "open", "half-open"} /\ failureCount' \in Nat
    BY <1>1 DEF SmallStep, CanExecute, ReadAge, Claim, BackoffCancelled, ResetFailures,
                CloseBreaker, StampFailure, CountFailure, OpenBreaker, breakerVars
  <1>3. expired' = FALSE \/ expired' = expired
    BY Zenon DEF SmallStep, CanExecute, ReadAge, Claim, BackoffCancelled, ResetFailures,
                 CloseBreaker, StampFailure, CountFailure, OpenBreaker, breakerVars
  <1> QED BY <1>1, <1>2, <1>3

LEMMA HandOverType ==
  ASSUME TypeOK, NEW b, b \subseteq Trades, HandOver(b)
  PROVE  batch' \subseteq Trades /\ batchChannel' \subseteq SUBSET Trades /\ DroppedTrades' \in Nat
  <1>1. Cardinality(b) \in Nat
    BY CountType
  <1> QED BY <1>1 DEF HandOver, TypeOK

LEMMA WorkerTypeOK ==
  ASSUME TypeOK, AttemptsLeft, NEW w \in Workers, Worker(w)
  PROVE  TypeOK'
  <1> USE DEF TypeOK
  <1>1. CASE TakeBatch(w)
    BY <1>1, LimitsAssumption DEF TakeBatch, collectorVars, breakerVars, statsVars, WorkOf, Pcs
  <1>2. CASE SmallStep(w)
    <2>1. PICK pc \in Pcs :
            Goto(w, pc) /\ UNCHANGED <<phase, offered, collectorVars, batchChannel, rows, statsVars>>
      BY <1>2, SmallSteps
    <2>2. worker' \in [Workers -> WorkOf]
      BY <2>1, GotoType
    <2> QED BY <1>2, <2>1, <2>2, SmallStepBreaker DEF collectorVars, statsVars
  <1>4. CASE InsertSucceeds(w)
    BY <1>4, GotoType
       DEF InsertSucceeds, Commit, collectorVars, breakerVars, statsVars, Pcs
  <1>5. CASE InsertFails(w)
    BY <1>5, GotoType
       DEF InsertFails, Commit, collectorVars, breakerVars, statsVars, Pcs
  <1>6. CASE BackoffElapses(w)
    <2>1. worker[w].attempt + 1 \in 0..MaxRetries
      BY <1>6, LimitsAssumption DEF BackoffElapses, At, AttemptsLeft, WorkOf
    <2>2. worker' \in [Workers -> WorkOf]
      BY <1>6, <2>1 DEF BackoffElapses, WorkOf, Pcs
    <2> QED BY <1>6, <2>2 DEF BackoffElapses, collectorVars, breakerVars, statsVars
  <1>7. CASE Counts(w)
    <2>1. worker[w].batch \subseteq Trades
      BY DEF WorkOf
    <2>2. Cardinality(worker[w].batch) \in Nat
      BY <2>1, CountType
    <2>3. Idle \in WorkOf
      BY LimitsAssumption DEF Idle, WorkOf, Pcs
    <2> QED BY <1>7, <2>1, <2>2, <2>3
            DEF Counts, CountStored, CountDropped, collectorVars, breakerVars
  <1>8. CASE WorkerStops(w)
    BY <1>8, GotoType DEF WorkerStops, collectorVars, breakerVars, statsVars, Pcs
  <1> QED BY <1>1, <1>2, <1>4, <1>5, <1>6, <1>7, <1>8
          DEF Worker, InsertReturns, BackoffEnds, Breaker, SmallStep

LEMMA NextTypeOK ==
  ASSUME TypeOK, AttemptsLeft, [Next]_vars
  PROVE  TypeOK'
  <1> USE DEF TypeOK
  <1>1. CASE UNCHANGED vars
    BY <1>1 DEF vars, collectorVars, breakerVars, statsVars
  <1>2. ASSUME NEW t \in Trades, AddTrade(t) PROVE TypeOK'
    BY <1>2 DEF AddTrade, breakerVars
  <1>3. CASE CollectTrade
    <2>1. PICK t \in tradeChannel :
            LET b == batch \cup {t}
            IN  IF Cardinality(b) >= BatchSize
                  THEN HandOver(b)
                  ELSE batch' = b /\ UNCHANGED <<batchChannel, DroppedTrades>>
      BY <1>3 DEF CollectTrade
    <2>2. batch \cup {t} \subseteq Trades /\ tradeChannel' \subseteq Trades
      BY <1>3 DEF CollectTrade
    <2>3. batch' \subseteq Trades /\ batchChannel' \subseteq SUBSET Trades /\ DroppedTrades' \in Nat
      BY <2>1, <2>2, HandOverType
    <2> QED BY <1>3, <2>2, <2>3 DEF CollectTrade, breakerVars
  <1>4. CASE FlushTick
    BY <1>4, HandOverType DEF FlushTick, breakerVars
  <1>5. CASE CollectorStops
    <2>1. batch' \subseteq Trades /\ batchChannel' \subseteq SUBSET Trades /\ DroppedTrades' \in Nat
      BY <1>5, HandOverType DEF CollectorStops
    <2> QED BY <1>5, <2>1 DEF CollectorStops, breakerVars
  <1>6. ASSUME NEW w \in Workers, Worker(w) PROVE TypeOK'
    BY <1>6, WorkerTypeOK
  <1>7. CASE TimeoutExpires
    BY <1>7 DEF TimeoutExpires, collectorVars, statsVars
  <1>8. CASE CloseBegin \/ CloseEnd
    BY <1>8 DEF CloseBegin, CloseEnd, collectorVars, breakerVars, statsVars
  <1>9. CASE Terminated
    BY <1>9 DEF Terminated, vars, collectorVars, breakerVars, statsVars
  <1> QED BY <1>1, <1>2, <1>3, <1>4, <1>5, <1>6, <1>7, <1>8, <1>9 DEF Next, Collector

-----------------------------------------------------------------------------
(* Where the trades are *)

\* A step that moves no trade.
LEMMA NothingMoves ==
  ASSUME Apart, UNCHANGED <<collectorVars, batchChannel>>,
         \A w \in Workers : worker'[w].batch = worker[w].batch
  PROVE  InFlight' = InFlight /\ Apart'
  <1>1. InWork' = InWork
    BY DEF InWork
  <1>2. Queued' = Queued /\ tradeChannel' = tradeChannel /\ batch' = batch
    BY DEF Queued, collectorVars
  <1> QED BY <1>1, <1>2 DEF Apart, InFlight

\* A worker is done with its batch: the batch leaves the pipeline.
LEMMA WorkerDone ==
  ASSUME Apart, NEW w \in Workers, worker \in [Workers -> WorkOf],
         UNCHANGED <<collectorVars, batchChannel>>, worker' = [worker EXCEPT ![w] = Idle]
  PROVE  InFlight' = InFlight \ worker[w].batch /\ Apart'
  <1>1. /\ worker'[w].batch = {}
        /\ \A v \in Workers \ {w} : worker'[v].batch = worker[v].batch
    BY DEF Idle
  <1>2. InWork' = InWork \ worker[w].batch
    BY <1>1 DEF InWork, Apart
  <1>3. Queued' = Queued /\ tradeChannel' = tradeChannel /\ batch' = batch
    BY DEF Queued, collectorVars
  <1>4. worker[w].batch \subseteq InWork
    BY DEF InWork
  <1>5. InFlight' = InFlight \ worker[w].batch
    BY <1>2, <1>3, <1>4 DEF Apart, InFlight
  <1>6. \A u, v \in Workers : u # v => worker'[u].batch \cap worker'[v].batch = {}
    BY <1>1 DEF Apart
  <1> QED BY <1>2, <1>3, <1>5, <1>6 DEF Apart

\* An idle worker takes a batch: it goes from the queue to the worker.
LEMMA BatchTaken ==
  ASSUME Apart, RestingEmpty, NEW w \in Workers, worker \in [Workers -> WorkOf],
         TakeBatch(w)
  PROVE  InFlight' = InFlight /\ Apart'
  <1>1. PICK b \in batchChannel :
          /\ batchChannel' = batchChannel \ {b}
          /\ worker' = [worker EXCEPT ![w] = [pc |-> "check", batch |-> b, attempt |-> 0]]
    BY DEF TakeBatch
  <1>2. worker[w].batch = {}
    BY DEF TakeBatch, At, RestingEmpty
  <1>3. /\ worker'[w].batch = b
        /\ \A v \in Workers \ {w} : worker'[v].batch = worker[v].batch
    BY <1>1
  <1>4. InWork' = InWork \cup b
    BY <1>2, <1>3 DEF InWork
  <1>5. Queued' = Queued \ b /\ b \subseteq Queued
    BY <1>1 DEF Queued, Apart
  <1>6. tradeChannel' = tradeChannel /\ batch' = batch
    BY DEF TakeBatch, collectorVars
  <1>7. InFlight' = InFlight
    BY <1>4, <1>5, <1>6 DEF InFlight
  <1>8. \A v \in Workers : worker[v].batch \subseteq InWork
    BY DEF InWork
  <1>9. \A u, v \in Workers : u # v => worker'[u].batch \cap worker'[v].batch = {}
    BY <1>3, <1>5, <1>8 DEF Apart
  <1> QED BY <1>1, <1>4, <1>5, <1>6, <1>7, <1>9 DEF Apart

\* The collector sends its batch, with or without a trade just received, or
\* drops it: it goes to the queue, or it leaves the pipeline.
LEMMA BatchHandedOver ==
  ASSUME Apart, NEW b, HandOver(b), UNCHANGED worker,
         tradeChannel' \cup b = tradeChannel \cup batch, tradeChannel' \cap b = {}
  PROVE  /\ Apart'
         /\ \/ InFlight' = InFlight /\ DroppedTrades' = DroppedTrades
            \/ /\ InFlight' = InFlight \ b /\ b \subseteq InFlight
               /\ DroppedTrades' = DroppedTrades + Cardinality(b)
  <1>1. InWork' = InWork /\ batch' = {}
    BY DEF InWork, HandOver
  <1>2. b \cap Queued = {} /\ b \cap InWork = {} /\ b \subseteq InFlight
    BY DEF Apart, InFlight
  <1>3. \A u, v \in Workers : u # v => worker'[u].batch \cap worker'[v].batch = {}
    BY DEF Apart
  <1>4. CASE batchChannel' = batchChannel \cup {b} /\ DroppedTrades' = DroppedTrades
    <2>1. Queued' = Queued \cup b
      BY <1>4 DEF Queued
    <2>2. \A c \in batchChannel : c \subseteq Queued
      BY DEF Queued
    <2>3. \A c, d \in batchChannel' : c # d => c \cap d = {}
      BY <1>2, <1>4, <2>2 DEF Apart
    <2> QED BY <1>1, <1>2, <1>3, <1>4, <2>1, <2>3 DEF Apart, InFlight
  <1>5. CASE batchChannel' = batchChannel /\ DroppedTrades' = DroppedTrades + Cardinality(b)
    <2>1. Queued' = Queued
      BY <1>5 DEF Queued
    <2> QED BY <1>1, <1>2, <1>3, <1>5, <2>1 DEF Apart, InFlight
  <1> QED BY <1>4, <1>5 DEF HandOver

-----------------------------------------------------------------------------
(* Every step is a step of the ledger *)

\* What a step of the pipeline owes: the trades stay apart and offered, and
\* the ledger takes a step or stutters.
Booked ==
  /\ Apart'
  /\ InFlight' \subseteq offered'
  /\ [Ledger!Next]_(Ledger!ledgerVars)

\* Nothing is counted and nothing leaves the pipeline.
LEMMA BookedQuiet ==
  ASSUME InFlight \subseteq offered, Apart', InFlight' = InFlight,
         UNCHANGED <<phase, offered, TotalTrades, DroppedTrades>>
  PROVE  Booked
  BY DEF Booked, Ledger!ledgerVars

\* Trades in flight are counted as dropped.
LEMMA BookedDrop ==
  ASSUME InFlight \subseteq offered, Apart', phase # "closed",
         NEW S, S \subseteq InFlight, InFlight' = InFlight \ S,
         DroppedTrades' = DroppedTrades + Cardinality(S),
         UNCHANGED <<phase, offered, TotalTrades>>
  PROVE  Booked
  <1>1. Ledger!Drop(S)
    BY SameCardinality DEF Ledger!Drop
  <1>2. Ledger!Next
    BY <1>1 DEF Ledger!Next
  <1> QED BY <1>2 DEF Booked

\* Trades in flight are counted as stored.
LEMMA BookedStore ==
  ASSUME InFlight \subseteq offered, Apart', phase # "closed",
         NEW S, S \subseteq InFlight, InFlight' = InFlight \ S,
         TotalTrades' = TotalTrades + Cardinality(S),
         UNCHANGED <<phase, offered, DroppedTrades>>
  PROVE  Booked
  <1>1. Ledger!Store(S)
    BY SameCardinality DEF Ledger!Store
  <1>2. Ledger!Next
    BY <1>1 DEF Ledger!Next
  <1> QED BY <1>2 DEF Booked

\* A worker that is neither idle nor stopped runs before Close returns.
LEMMA BusyBeforeClose ==
  ASSUME ClosedQuiet, NEW w \in Workers, worker[w].pc # "stopped"
  PROVE  phase # "closed"
  BY DEF ClosedQuiet

LEMMA BookedGoto ==
  ASSUME IInv, NEW w \in Workers, NEW pc, Goto(w, pc),
         UNCHANGED <<phase, offered, collectorVars, batchChannel, TotalTrades, DroppedTrades>>
  PROVE  Booked
  <1>1. \A v \in Workers : worker'[v].batch = worker[v].batch
    BY DEF Goto, IInv, TypeOK, WorkOf
  <1> QED BY <1>1, NothingMoves, BookedQuiet DEF IInv

LEMMA BookedWorker ==
  ASSUME IInv, NEW w \in Workers, Worker(w)
  PROVE  Booked
  <1> USE DEF At
  <1>1. CASE TakeBatch(w)
    <2>1. InFlight' = InFlight /\ Apart'
      BY <1>1, BatchTaken DEF IInv, TypeOK
    <2> QED BY <1>1, <2>1, BookedQuiet DEF IInv, TakeBatch, statsVars
  <1>2. CASE SmallStep(w)
    BY <1>2, SmallSteps, BookedGoto DEF statsVars
  <1>4. CASE InsertSucceeds(w)
    BY <1>4, BookedGoto DEF InsertSucceeds, statsVars
  <1>5. CASE InsertFails(w)
    BY <1>5, BookedGoto DEF InsertFails, statsVars
  <1>6. CASE BackoffElapses(w)
    <2>1. \A v \in Workers : worker'[v].batch = worker[v].batch
      BY <1>6 DEF BackoffElapses, IInv, TypeOK, WorkOf
    <2> QED BY <1>6, <2>1, NothingMoves, BookedQuiet DEF BackoffElapses, IInv, statsVars
  <1>7. CASE Counts(w)
    <2>1. InFlight' = InFlight \ worker[w].batch /\ Apart'
      BY <1>7, WorkerDone DEF IInv, TypeOK, Counts, CountStored, CountDropped
    <2>2. worker[w].batch \subseteq InFlight
      BY DEF InFlight, InWork
    <2>3. phase # "closed"
      BY <1>7, BusyBeforeClose DEF IInv, Counts, CountStored, CountDropped
    <2>4. CASE CountStored(w)
      BY <2>1, <2>2, <2>3, <2>4, BookedStore DEF IInv, CountStored
    <2>5. CASE CountDropped(w)
      BY <2>1, <2>2, <2>3, <2>5, BookedDrop DEF IInv, CountDropped
    <2> QED BY <1>7, <2>4, <2>5 DEF Counts
  <1>8. CASE WorkerStops(w)
    BY <1>8, BookedGoto DEF WorkerStops, statsVars
  <1> QED BY <1>1, <1>2, <1>4, <1>5, <1>6, <1>7, <1>8
          DEF Worker, InsertReturns, BackoffEnds, Breaker, SmallStep

LEMMA BookedAddTrade ==
  ASSUME IInv, NEW t \in Trades, AddTrade(t)
  PROVE  Booked
  <1>1. t \notin InFlight
    BY DEF IInv, AddTrade
  <1>2. InWork' = InWork /\ Queued' = Queued /\ batch' = batch
    BY DEF InWork, Queued, AddTrade
  <1>3. CASE tradeChannel' = tradeChannel \cup {t} /\ DroppedTrades' = DroppedTrades
    <2>1. InFlight' = InFlight \cup {t}
      BY <1>2, <1>3 DEF InFlight
    <2>2. Apart'
      BY <1>1, <1>2, <1>3 DEF InFlight, Apart, IInv, AddTrade
    <2>3. Ledger!Accept(t)
      BY <1>3, <2>1 DEF Ledger!Accept, AddTrade
    <2>4. InFlight' \subseteq offered'
      BY <2>1 DEF AddTrade, IInv
    <2> QED BY <2>2, <2>3, <2>4 DEF Booked, Ledger!Next
  <1>4. CASE tradeChannel' = tradeChannel /\ DroppedTrades' = DroppedTrades + 1
    <2>1. InFlight' = InFlight
      BY <1>2, <1>4 DEF InFlight
    <2>2. Apart'
      BY <1>2, <1>4 DEF Apart, IInv, AddTrade
    <2>3. Ledger!Refuse(t)
      BY <1>4, <2>1 DEF Ledger!Refuse, AddTrade
    <2>4. InFlight' \subseteq offered'
      BY <2>1 DEF AddTrade, IInv
    <2> QED BY <2>2, <2>3, <2>4 DEF Booked, Ledger!Next
  <1> QED BY <1>3, <1>4 DEF AddTrade

LEMMA BookedHandOver ==
  ASSUME IInv, collecting, NEW b, HandOver(b),
         tradeChannel' \cup b = tradeChannel \cup batch, tradeChannel' \cap b = {},
         UNCHANGED <<phase, offered, worker, TotalTrades>>
  PROVE  Booked
  <1>1. /\ Apart'
        /\ \/ InFlight' = InFlight /\ DroppedTrades' = DroppedTrades
           \/ /\ InFlight' = InFlight \ b /\ b \subseteq InFlight
              /\ DroppedTrades' = DroppedTrades + Cardinality(b)
    BY BatchHandedOver DEF IInv
  <1>2. phase # "closed"
    BY DEF IInv, ClosedQuiet
  <1> QED BY <1>1, <1>2, BookedQuiet, BookedDrop DEF IInv

LEMMA BookedCollector ==
  ASSUME IInv, Collector
  PROVE  Booked
  <1>1. CASE CollectTrade
    <2>1. PICK t \in tradeChannel :
            /\ tradeChannel' = tradeChannel \ {t}
            /\ LET b == batch \cup {t}
               IN  IF Cardinality(b) >= BatchSize
                     THEN HandOver(b)
                     ELSE batch' = b /\ UNCHANGED <<batchChannel, DroppedTrades>>
      BY <1>1 DEF CollectTrade
    <2>2. t \notin batch
      BY <2>1 DEF IInv, Apart
    <2>3. CASE HandOver(batch \cup {t})
      <3>1. /\ tradeChannel' \cup (batch \cup {t}) = tradeChannel \cup batch
            /\ tradeChannel' \cap (batch \cup {t}) = {}
        BY <2>1 DEF IInv, Apart
      <3> QED BY <1>1, <2>3, <3>1, BookedHandOver DEF CollectTrade
    <2>4. CASE batch' = batch \cup {t} /\ UNCHANGED <<batchChannel, DroppedTrades>>
      <3>1. InWork' = InWork /\ Queued' = Queued
        BY <1>1, <2>4 DEF CollectTrade, InWork, Queued
      <3>2. InFlight' = InFlight
        BY <2>1, <2>4, <3>1 DEF InFlight
      <3>3. Apart'
        BY <1>1, <2>1, <2>2, <2>4, <3>1 DEF IInv, Apart, CollectTrade
      <3> QED BY <1>1, <2>4, <3>2, <3>3, BookedQuiet DEF IInv, CollectTrade
    <2> QED BY <2>1, <2>3, <2>4
  <1>2. CASE FlushTick
    BY <1>2, BookedHandOver DEF FlushTick, IInv, Apart
  <1>3. CASE CollectorStops
    <2>1. CASE batch = {}
      <3>1. InFlight' = InFlight /\ Apart'
        BY <1>3, <2>1, NothingMoves DEF CollectorStops, InFlight, Queued, InWork, IInv, Apart
      <3> QED BY <1>3, <2>1, <3>1, BookedQuiet DEF CollectorStops, IInv
    <2>2. CASE batch # {}
      BY <1>3, <2>2, BookedHandOver DEF CollectorStops, IInv, Apart
    <2> QED BY <2>1, <2>2
  <1> QED BY <1>1, <1>2, <1>3 DEF Collector

LEMMA BookedNext ==
  ASSUME IInv, [Next]_vars
  PROVE  Booked
  <1>1. CASE UNCHANGED vars
    BY <1>1, NothingMoves, BookedQuiet DEF vars, collectorVars, statsVars, IInv
  <1>2. ASSUME NEW t \in Trades, AddTrade(t) PROVE Booked
    BY <1>2, BookedAddTrade
  <1>3. CASE Collector
    BY <1>3, BookedCollector
  <1>4. ASSUME NEW w \in Workers, Worker(w) PROVE Booked
    BY <1>4, BookedWorker
  <1>5. CASE TimeoutExpires
    BY <1>5, NothingMoves, BookedQuiet DEF TimeoutExpires, statsVars, IInv
  <1>6. CASE CloseBegin
    <2>1. InFlight' = InFlight /\ Apart'
      BY <1>6, NothingMoves DEF CloseBegin, IInv
    <2>2. phase # "closed" /\ phase' # "closed"
      BY <1>6 DEF CloseBegin
    <2> QED BY <1>6, <2>1, <2>2 DEF Booked, CloseBegin, statsVars, IInv, Ledger!ledgerVars
  <1>7. CASE CloseEnd
    <2>1. InFlight' = InFlight /\ Apart'
      BY <1>7, NothingMoves DEF CloseEnd, IInv
    <2>2. Ledger!Seal
      BY <1>7, <2>1 DEF Ledger!Seal, CloseEnd, statsVars
    <2> QED BY <1>7, <2>1, <2>2 DEF Booked, CloseEnd, IInv, Ledger!Next
  <1>8. CASE Terminated
    BY <1>1, <1>8 DEF Terminated
  <1> QED BY <1>1, <1>2, <1>3, <1>4, <1>5, <1>6, <1>7, <1>8 DEF Next

-----------------------------------------------------------------------------
(* The inductive invariant *)

LEMMA InitIInv == Init => IInv
  <1> SUFFICES ASSUME Init PROVE IInv
    OBVIOUS
  <1>1. InFlight = {}
    BY DEF Init, InFlight, Queued, InWork, Idle
  <1>2. Apart
    BY DEF Init, Apart, Queued, InWork, Idle
  <1>3. RestingEmpty /\ AttemptsLeft /\ ClosedQuiet
    BY DEF Init, RestingEmpty, AttemptsLeft, ClosedQuiet, Idle
  <1> QED BY <1>1, <1>2, <1>3, InitTypeOK DEF IInv

\* The parts of IInv that speak of the goroutines' places.
Places == RestingEmpty /\ AttemptsLeft /\ ClosedQuiet

\* A worker that is not stopped moves on, and nothing else stops or starts.
LEMMA PlacesMove ==
  ASSUME IInv, NEW w \in Workers, worker[w].pc # "stopped", NEW r, worker' = [worker EXCEPT ![w] = r],
         r.pc \in {"idle", "stopped"} => r.batch = {},
         r.pc = "backoff" => r.attempt < MaxRetries,
         UNCHANGED <<phase, collecting>>
  PROVE  Places'
  BY DEF IInv, TypeOK, Places, RestingEmpty, AttemptsLeft, ClosedQuiet

LEMMA PlacesGoto ==
  ASSUME IInv, NEW w \in Workers, worker[w].pc # "stopped",
         NEW pc \in Pcs \ {"idle", "stopped", "backoff"}, Goto(w, pc),
         UNCHANGED <<phase, collecting>>
  PROVE  Places'
  <1>1. worker' = [worker EXCEPT ![w] = [worker[w] EXCEPT !.pc = pc]]
    BY DEF Goto
  <1>2. [worker[w] EXCEPT !.pc = pc].pc = pc
    BY DEF IInv, TypeOK, WorkOf
  <1> QED BY <1>1, <1>2, PlacesMove

LEMMA PlacesIdle ==
  ASSUME IInv, NEW w \in Workers, worker[w].pc # "stopped", worker' = [worker EXCEPT ![w] = Idle],
         UNCHANGED <<phase, collecting>>
  PROVE  Places'
  BY PlacesMove DEF Idle

LEMMA PlacesWorker ==
  ASSUME IInv, NEW w \in Workers, Worker(w)
  PROVE  Places'
  <1> USE DEF At, collectorVars
  <1>1. CASE TakeBatch(w)
    <2>1. PICK b \in batchChannel :
            worker' = [worker EXCEPT ![w] = [pc |-> "check", batch |-> b, attempt |-> 0]]
      BY <1>1 DEF TakeBatch
    <2> QED BY <1>1, <2>1, PlacesMove DEF TakeBatch
  <1>2. CASE SmallStep(w)
    BY <1>2, SmallSteps, PlacesGoto
  <1>4. CASE InsertSucceeds(w)
    BY <1>4, PlacesGoto DEF InsertSucceeds, Pcs
  <1>5. CASE InsertFails(w)
    <2>1. CASE Goto(w, "failed")
      BY <1>5, <2>1, PlacesGoto DEF InsertFails, Pcs
    <2>2. CASE Goto(w, "backoff") /\ worker[w].attempt < MaxRetries
      <3>1. worker' = [worker EXCEPT ![w] = [worker[w] EXCEPT !.pc = "backoff"]]
        BY <2>2 DEF Goto
      <3>2. /\ [worker[w] EXCEPT !.pc = "backoff"].pc = "backoff"
            /\ [worker[w] EXCEPT !.pc = "backoff"].attempt = worker[w].attempt
        BY DEF IInv, TypeOK, WorkOf
      <3> QED BY <1>5, <2>2, <3>1, <3>2, PlacesMove DEF InsertFails
    <2> QED BY <1>5, <2>1, <2>2 DEF InsertFails
  <1>6. CASE BackoffElapses(w)
    <2> DEFINE r == [worker[w] EXCEPT !.pc = "insert", !.attempt = @ + 1]
    <2>1. worker' = [worker EXCEPT ![w] = r]
      BY <1>6 DEF BackoffElapses
    <2>2. r.pc = "insert"
      BY DEF IInv, TypeOK, WorkOf
    <2> HIDE DEF r
    <2> QED BY <1>6, <2>1, <2>2, PlacesMove DEF BackoffElapses
  <1>7. CASE Counts(w)
    BY <1>7, PlacesIdle DEF Counts, CountStored, CountDropped
  <1>8. CASE WorkerStops(w)
    <2>1. worker' = [worker EXCEPT ![w] = [worker[w] EXCEPT !.pc = "stopped"]]
      BY <1>8 DEF WorkerStops, Goto
    <2>2. /\ [worker[w] EXCEPT !.pc = "stopped"].pc = "stopped"
          /\ [worker[w] EXCEPT !.pc = "stopped"].batch = {}
      BY <1>8 DEF WorkerStops, IInv, TypeOK, WorkOf, RestingEmpty
    <2> QED BY <1>8, <2>1, <2>2, PlacesMove DEF WorkerStops
  <1> QED BY <1>1, <1>2, <1>4, <1>5, <1>6, <1>7, <1>8
          DEF Worker, InsertReturns, BackoffEnds, Breaker, SmallStep

LEMMA PlacesNext ==
  ASSUME IInv, [Next]_vars
  PROVE  Places'
  <1> USE DEF collectorVars, Places, RestingEmpty, AttemptsLeft, ClosedQuiet, IInv
  <1>1. CASE UNCHANGED vars
    BY <1>1 DEF vars
  <1>2. ASSUME NEW t \in Trades, AddTrade(t) PROVE Places'
    BY <1>2 DEF AddTrade
  <1>3. CASE Collector
    BY <1>3 DEF Collector, CollectTrade, FlushTick, CollectorStops
  <1>4. ASSUME NEW w \in Workers, Worker(w) PROVE Places'
    BY <1>4, PlacesWorker
  <1>5. CASE TimeoutExpires
    BY <1>5 DEF TimeoutExpires
  <1>6. CASE CloseBegin
    BY <1>6 DEF CloseBegin
  <1>7. CASE CloseEnd
    BY <1>7 DEF CloseEnd, At
  <1>8. CASE Terminated
    BY <1>1, <1>8 DEF Terminated
  <1> QED BY <1>1, <1>2, <1>3, <1>4, <1>5, <1>6, <1>7, <1>8 DEF Next

LEMMA NextIInv == IInv /\ [Next]_vars => IInv'
  <1> SUFFICES ASSUME IInv, [Next]_vars PROVE IInv'
    OBVIOUS
  <1>1. TypeOK'
    BY NextTypeOK DEF IInv
  <1>2. Apart' /\ InFlight' \subseteq offered'
    BY BookedNext DEF Booked
  <1>3. Places'
    BY PlacesNext
  <1> QED BY <1>1, <1>2, <1>3 DEF IInv, Places

LEMMA Invariance == Spec => []IInv
  BY InitIInv, NextIInv, PTL DEF Spec

-----------------------------------------------------------------------------
(* The ledger: whatever keeps its specification balances its books *)

LedgerInv == Ledger!LedgerTypeOK /\ Ledger!Balanced

\* The part of a set that is taken away and the rest make up the whole.
LEMMA CountRest ==
  ASSUME NEW T, IsFiniteSet(T), NEW S, S \subseteq T
  PROVE  /\ Cardinality(T) = Cardinality(T \ S) + Cardinality(S)
         /\ Cardinality(T \ S) \in Nat /\ Cardinality(S) \in Nat
  <1>1. IsFiniteSet(S) /\ IsFiniteSet(T \ S)
    BY FS_Subset, T \ S \subseteq T
  <1>2. Cardinality(T \ S) = Cardinality(T) - Cardinality(T \cap S)
    BY FS_Difference
  <1>3. T \cap S = S
    OBVIOUS
  <1>4. Cardinality(T) \in Nat /\ Cardinality(S) \in Nat /\ Cardinality(T \ S) \in Nat
    BY <1>1, FS_CardinalityType
  <1> QED BY <1>2, <1>3, <1>4

\* A step of the ledger keeps its type and its balance.
LEMMA LedgerStep ==
  ASSUME LedgerInv, [Ledger!Next]_(Ledger!ledgerVars)
  PROVE  LedgerInv'
  <1>1. /\ offered \subseteq Trades /\ InFlight \subseteq offered
        /\ TotalTrades \in Nat /\ DroppedTrades \in Nat
        /\ Cardinality(offered) = TotalTrades + DroppedTrades + Cardinality(InFlight)
    BY SameCardinality DEF LedgerInv, Ledger!LedgerTypeOK, Ledger!Balanced
  <1>2. /\ IsFiniteSet(offered) /\ IsFiniteSet(InFlight)
        /\ Cardinality(offered) \in Nat /\ Cardinality(InFlight) \in Nat
    BY <1>1, CountType
  <1> SUFFICES /\ offered' \subseteq Trades /\ InFlight' \subseteq offered'
               /\ TotalTrades' \in Nat /\ DroppedTrades' \in Nat
               /\ Cardinality(offered') = TotalTrades' + DroppedTrades' + Cardinality(InFlight')
    <2>1. (phase' = "closed") \in BOOLEAN
      OBVIOUS
    <2> QED BY <2>1, SameCardinality DEF LedgerInv, Ledger!LedgerTypeOK, Ledger!Balanced
  <1>3. CASE UNCHANGED Ledger!ledgerVars
    BY <1>1, <1>3 DEF Ledger!ledgerVars
  <1>4. ASSUME NEW t \in Trades, Ledger!Accept(t)
        PROVE  /\ offered' \subseteq Trades /\ InFlight' \subseteq offered'
               /\ TotalTrades' \in Nat /\ DroppedTrades' \in Nat
               /\ Cardinality(offered') = TotalTrades' + DroppedTrades' + Cardinality(InFlight')
    <2>1. /\ t \notin offered /\ offered' = offered \union {t} /\ InFlight' = InFlight \union {t}
          /\ UNCHANGED <<TotalTrades, DroppedTrades>>
      BY <1>4 DEF Ledger!Accept
    <2>2. Cardinality(offered') = Cardinality(offered) + 1
      BY <1>2, <2>1, FS_AddElement
    <2>3. Cardinality(InFlight') = Cardinality(InFlight) + 1
      BY <1>1, <1>2, <2>1, FS_AddElement
    <2> QED BY <1>1, <1>2, <2>1, <2>2, <2>3
  <1>5. ASSUME NEW t \in Trades, Ledger!Refuse(t)
        PROVE  /\ offered' \subseteq Trades /\ InFlight' \subseteq offered'
               /\ TotalTrades' \in Nat /\ DroppedTrades' \in Nat
               /\ Cardinality(offered') = TotalTrades' + DroppedTrades' + Cardinality(InFlight')
    <2>1. /\ t \notin offered /\ offered' = offered \union {t} /\ InFlight' = InFlight
          /\ DroppedTrades' = DroppedTrades + 1 /\ TotalTrades' = TotalTrades
      BY <1>5 DEF Ledger!Refuse
    <2>2. Cardinality(offered') = Cardinality(offered) + 1
      BY <1>2, <2>1, FS_AddElement
    <2> QED BY <1>1, <1>2, <2>1, <2>2
  <1>6. ASSUME NEW S \in SUBSET InFlight, Ledger!Store(S) \/ Ledger!Drop(S)
        PROVE  /\ offered' \subseteq Trades /\ InFlight' \subseteq offered'
               /\ TotalTrades' \in Nat /\ DroppedTrades' \in Nat
               /\ Cardinality(offered') = TotalTrades' + DroppedTrades' + Cardinality(InFlight')
    <2>1. /\ Cardinality(InFlight) = Cardinality(InFlight \ S) + Cardinality(S)
          /\ Cardinality(InFlight \ S) \in Nat /\ Cardinality(S) \in Nat
      BY <1>2, CountRest
    <2>2. offered' = offered /\ InFlight' = InFlight \ S
      BY <1>6 DEF Ledger!Store, Ledger!Drop
    <2>3. \/ TotalTrades' = TotalTrades + Cardinality(S) /\ DroppedTrades' = DroppedTrades
          \/ DroppedTrades' = DroppedTrades + Cardinality(S) /\ TotalTrades' = TotalTrades
      BY <1>6, SameCardinality DEF Ledger!Store, Ledger!Drop
    <2> QED BY <1>1, <1>2, <2>1, <2>2, <2>3
  <1>7. CASE Ledger!Seal
    BY <1>1, <1>7 DEF Ledger!Seal
  <1> QED BY <1>3, <1>4, <1>5, <1>6, <1>7 DEF Ledger!Next

LEMMA LedgerInit == Ledger!Init => LedgerInv
  <1> SUFFICES ASSUME Ledger!Init PROVE LedgerInv
    OBVIOUS
  <1>1. offered = {} /\ InFlight = {} /\ TotalTrades = 0 /\ DroppedTrades = 0
    BY DEF Ledger!Init
  <1>2. Cardinality(offered) = 0 /\ Cardinality(InFlight) = 0
    BY <1>1, FS_EmptySet
  <1>3. (phase = "closed") \in BOOLEAN
    OBVIOUS
  <1> QED BY <1>1, <1>2, <1>3, SameCardinality DEF LedgerInv, Ledger!LedgerTypeOK, Ledger!Balanced

-----------------------------------------------------------------------------
(* The theorems *)

\* The state of the pipeline, of its workers and of its statistics is always
\* of the right type; no worker makes more than MaxRetries + 1 attempts.
THEOREM TypeCorrect == Spec => []TypeOK
  BY Invariance, PTL DEF IInv

\* QuestDBManager implements TradeLedger: AddTrade, the collector, the workers,
\* the breaker and Close only ever accept, refuse, store or drop trades, count
\* what they store or drop once, and count nothing after Close has returned.
THEOREM Refinement == Spec => KeepsLedger
  <1>1. Init => Ledger!Init
    BY DEF Init, Ledger!Init, InFlight, Queued, InWork, Idle
  <1>2. IInv /\ [Next]_vars => [Ledger!Next]_(Ledger!ledgerVars)
    BY BookedNext DEF Booked
  <1> QED BY <1>1, <1>2, Invariance, PTL DEF Spec, KeepsLedger, Ledger!Spec

\* The ledger's type is right, and every trade offered is stored, dropped or
\* pending, at all times: what TradeLedger promises holds of whatever keeps it.
THEOREM LedgerInvariant == Ledger!Spec => [](Ledger!LedgerTypeOK /\ Ledger!Balanced)
  <1>1. LedgerInv /\ [Ledger!Next]_(Ledger!ledgerVars) => LedgerInv'
    BY LedgerStep
  <1>2. Ledger!Spec => []LedgerInv
    BY LedgerInit, <1>1, PTL DEF Ledger!Spec
  <1> QED BY <1>2, PTL DEF LedgerInv

\* The books balance: at every moment the trades offered are those counted as
\* stored, those counted as dropped and those in flight.
THEOREM BooksBalanceTheorem == Spec => []BooksBalance
  BY Refinement, LedgerInvariant, PTL DEF KeepsLedger, BooksBalance

-----------------------------------------------------------------------------
(* What is in the database *)

Waiting == tradeChannel \cup batch \cup Queued

\* The copies that a worker's attempts can have made so far.
CopiesFit(r) ==
  \A t \in r.batch :
    /\ r.pc \in {"check", "aging", "claim"} => rows[t] = 0
    /\ r.pc = "insert" => rows[t] <= r.attempt
    /\ rows[t] <= r.attempt + 1
    /\ r.pc \in {"succeeded", "resetting", "stored"} /\ t \notin Unparsable => rows[t] > 0

RowsInv ==
  /\ \A t \in reported \ Unparsable : rows[t] > 0
  /\ \A t \in Trades : rows[t] <= MaxRetries + 1
  /\ \A t \in Waiting \cup (Trades \ offered) : rows[t] = 0
  /\ \A w \in Workers : CopiesFit(worker[w])

\* A step that writes no row and counts no trade as stored.
LEMMA RowsKept ==
  ASSUME RowsInv, UNCHANGED <<rows, reported>>,
         Waiting' \subseteq Waiting \cup (Trades \ offered), offered \subseteq offered',
         \A w \in Workers : CopiesFit(worker'[w])
  PROVE  RowsInv'
  BY DEF RowsInv, CopiesFit

\* Such a step of one worker.
LEMMA RowsKeptByWorker ==
  ASSUME IInv, RowsInv, NEW w \in Workers, NEW r, worker' = [worker EXCEPT ![w] = r],
         CopiesFit(r), UNCHANGED <<rows, reported, collectorVars, offered>>,
         batchChannel' \subseteq batchChannel
  PROVE  RowsInv'
  <1>1. Waiting' \subseteq Waiting
    BY DEF Waiting, Queued, collectorVars
  <1>2. \A v \in Workers : CopiesFit(worker'[v])
    BY DEF RowsInv, IInv, TypeOK
  <1> QED BY <1>1, <1>2, RowsKept

LEMMA RowsKeptByGoto ==
  ASSUME IInv, RowsInv, NEW w \in Workers, NEW pc \in Pcs, Goto(w, pc),
         CopiesFit([worker[w] EXCEPT !.pc = pc]),
         UNCHANGED <<rows, reported, collectorVars, offered, batchChannel>>
  PROVE  RowsInv'
  <1>1. worker' = [worker EXCEPT ![w] = [worker[w] EXCEPT !.pc = pc]]
    BY DEF Goto
  <1> QED BY <1>1, RowsKeptByWorker

\* A worker that is to insert holds trades that no other place holds, and has
\* made as many attempts as it has counted.
LEMMA RowsCommitted ==
  ASSUME IInv, RowsInv, NEW w \in Workers, worker[w].pc = "insert",
         NEW pc \in Pcs \ {"check", "aging", "claim", "insert"}, Goto(w, pc),
         Commit(w), UNCHANGED <<reported, collectorVars, offered, batchChannel>>
  PROVE  RowsInv'
  <1> DEFINE b == worker[w].batch
  <1>1. b \subseteq InWork /\ b \subseteq InFlight /\ b \subseteq Trades
    BY DEF InWork, InFlight, IInv, TypeOK, WorkOf
  <1>2. Waiting' = Waiting /\ b \cap Waiting = {} /\ b \subseteq offered
    BY <1>1 DEF Waiting, Queued, collectorVars, IInv, Apart
  <1>3. /\ \A t \in Trades \ b : rows'[t] = rows[t]
        /\ \A t \in b : rows'[t] \in {rows[t], rows[t] + 1}
        /\ \A t \in b \ Unparsable : rows'[t] = rows[t] + 1
    BY <1>1 DEF Commit
  <1>4. /\ \A t \in Trades : rows[t] \in Nat
        /\ worker[w].attempt \in 0..MaxRetries
    BY DEF IInv, TypeOK, WorkOf
  <1>5. \A t \in b : rows[t] <= worker[w].attempt
    BY DEF RowsInv, CopiesFit
  <1>6. /\ worker'[w].pc = pc /\ worker'[w].batch = b
        /\ worker'[w].attempt = worker[w].attempt
        /\ \A v \in Workers \ {w} : worker'[v] = worker[v]
    BY DEF Goto, IInv, TypeOK, WorkOf
  <1> HIDE DEF b
  <1>7. \A t \in b : rows'[t] <= worker[w].attempt + 1
    BY <1>1, <1>3, <1>4, <1>5
  <1>8. CopiesFit(worker[w])'
    BY <1>1, <1>3, <1>4, <1>6, <1>7 DEF CopiesFit
  <1>9. ASSUME NEW v \in Workers \ {w} PROVE CopiesFit(worker[v])'
    <2>1. worker[v].batch \cap b = {} /\ worker[v].batch \subseteq Trades
      BY DEF IInv, Apart, TypeOK, WorkOf, b
    <2>2. \A t \in worker[v].batch : rows'[t] = rows[t]
      BY <1>3, <2>1
    <2> QED BY <1>6, <2>2 DEF RowsInv, CopiesFit
  <1>10. \A t \in Trades : rows'[t] <= MaxRetries + 1
    BY <1>3, <1>4, <1>7, LimitsAssumption DEF RowsInv
  <1>11. \A t \in reported \ Unparsable : rows'[t] > 0
    BY <1>3, <1>4 DEF RowsInv, IInv, TypeOK
  <1>12. \A t \in Waiting \cup (Trades \ offered) : rows'[t] = 0
    <2>1. Waiting \subseteq Trades
      BY DEF Waiting, Queued, IInv, TypeOK
    <2> QED BY <1>2, <1>3, <2>1 DEF RowsInv
  <1> QED BY <1>2, <1>8, <1>9, <1>10, <1>11, <1>12 DEF RowsInv

LEMMA RowsWorker ==
  ASSUME IInv, RowsInv, NEW w \in Workers, Worker(w)
  PROVE  RowsInv'
  <1> USE DEF At
  <1>0. /\ worker[w] \in WorkOf /\ CopiesFit(worker[w])
        /\ \A t \in worker[w].batch : rows[t] \in Nat
    BY DEF IInv, TypeOK, RowsInv, WorkOf
  <1>1. CASE TakeBatch(w)
    <2> DEFINE r(b) == [pc |-> "check", batch |-> b, attempt |-> 0]
    <2>1. PICK b \in batchChannel :
            batchChannel' = batchChannel \ {b} /\ worker' = [worker EXCEPT ![w] = r(b)]
      BY <1>1 DEF TakeBatch
    <2>2. \A t \in b : rows[t] = 0
      BY DEF RowsInv, Waiting, Queued
    <2>3. CopiesFit(r(b))
      BY <2>2 DEF CopiesFit
    <2> QED BY <1>1, <2>1, <2>3, RowsKeptByWorker DEF TakeBatch, statsVars
  <1>2. CASE SmallStep(w)
    <2>1. PICK pc \in Pcs :
            /\ Goto(w, pc)
            /\ pc \in {"check", "aging", "claim", "insert"} =>
                 worker[w].pc \in {"check", "aging", "claim"}
            /\ pc \in {"succeeded", "resetting", "stored"} =>
                 worker[w].pc \in {"succeeded", "resetting"}
            /\ UNCHANGED <<phase, offered, collectorVars, batchChannel, rows, statsVars>>
      BY <1>2, SmallSteps
    <2>2. worker[w].attempt \in Nat
      BY <1>0 DEF WorkOf
    <2>3. /\ [worker[w] EXCEPT !.pc = pc].pc = pc
          /\ [worker[w] EXCEPT !.pc = pc].batch = worker[w].batch
          /\ [worker[w] EXCEPT !.pc = pc].attempt = worker[w].attempt
      BY <1>0 DEF WorkOf
    <2>4. CopiesFit([worker[w] EXCEPT !.pc = pc])
      BY <1>0, <2>1, <2>2, <2>3 DEF CopiesFit
    <2> QED BY <2>1, <2>4, RowsKeptByGoto DEF statsVars
  <1>4. CASE InsertSucceeds(w)
    BY <1>4, RowsCommitted DEF InsertSucceeds, statsVars, Pcs
  <1>5. CASE InsertFails(w)
    <2>1. PICK pc \in {"failed", "backoff"} : Goto(w, pc)
      BY <1>5 DEF InsertFails
    <2>2. CASE UNCHANGED rows
      <3>1. CopiesFit([worker[w] EXCEPT !.pc = pc])
        BY <1>0, <1>5, <2>1 DEF InsertFails, CopiesFit, WorkOf
      <3> QED BY <1>5, <2>1, <2>2, <3>1, RowsKeptByGoto DEF InsertFails, statsVars, Pcs
    <2>3. CASE Commit(w)
      BY <1>5, <2>1, <2>3, RowsCommitted DEF InsertFails, statsVars, Pcs
    <2> QED BY <1>5, <2>2, <2>3 DEF InsertFails
  <1>6. CASE BackoffElapses(w)
    <2> DEFINE r == [worker[w] EXCEPT !.pc = "insert", !.attempt = @ + 1]
    <2>1. worker' = [worker EXCEPT ![w] = r]
      BY <1>6 DEF BackoffElapses
    <2>2. r.pc = "insert" /\ r.batch = worker[w].batch /\ r.attempt = worker[w].attempt + 1
      BY <1>0 DEF WorkOf
    <2> HIDE DEF r
    <2>3. worker[w].attempt \in Nat
      BY <1>0 DEF WorkOf
    <2>4. CopiesFit(r)
      BY <1>0, <2>2, <2>3 DEF CopiesFit
    <2> QED BY <1>6, <2>1, <2>4, RowsKeptByWorker DEF BackoffElapses, statsVars
  <1>7. CASE Counts(w)
    <2>1. \A t \in reported' \ Unparsable : rows[t] > 0
      BY <1>0, <1>7 DEF Counts, CountStored, CountDropped, RowsInv, CopiesFit
    <2>2. CopiesFit(Idle)
      BY DEF CopiesFit, Idle
    <2>3. \A v \in Workers : CopiesFit(worker'[v])
      BY <1>7, <2>2 DEF Counts, CountStored, CountDropped, RowsInv, IInv, TypeOK
    <2>4. Waiting' = Waiting
      BY <1>7 DEF Counts, CountStored, CountDropped, Waiting, Queued, collectorVars
    <2>5. UNCHANGED <<rows, offered>>
      BY <1>7 DEF Counts, CountStored, CountDropped
    <2> QED BY <2>1, <2>3, <2>4, <2>5 DEF RowsInv, CopiesFit
  <1>8. CASE WorkerStops(w)
    <2>1. CopiesFit([worker[w] EXCEPT !.pc = "stopped"])
      BY <1>0, <1>8 DEF WorkerStops, CopiesFit, WorkOf
    <2> QED BY <1>8, <2>1, RowsKeptByGoto DEF WorkerStops, statsVars, Pcs
  <1> QED BY <1>1, <1>2, <1>4, <1>5, <1>6, <1>7, <1>8
          DEF Worker, InsertReturns, BackoffEnds, Breaker, SmallStep

LEMMA RowsNext ==
  ASSUME IInv, RowsInv, [Next]_vars
  PROVE  RowsInv'
  <1>0. \A w \in Workers : CopiesFit(worker[w])
    BY DEF RowsInv
  <1>1. CASE UNCHANGED vars
    BY <1>0, <1>1, RowsKept DEF vars, collectorVars, statsVars, Waiting, Queued
  <1>2. ASSUME NEW t \in Trades, AddTrade(t) PROVE RowsInv'
    <2>1. Waiting' \subseteq Waiting \cup (Trades \ offered) /\ offered \subseteq offered'
      BY <1>2 DEF AddTrade, Waiting, Queued
    <2> QED BY <1>0, <1>2, <2>1, RowsKept DEF AddTrade
  <1>3. CASE Collector
    <2>1. Waiting' \subseteq Waiting
      BY <1>3 DEF Collector, CollectTrade, FlushTick, CollectorStops, HandOver, Waiting, Queued
    <2>2. UNCHANGED <<rows, reported, worker, offered>>
      BY <1>3 DEF Collector, CollectTrade, FlushTick, CollectorStops
    <2> QED BY <1>0, <2>1, <2>2, RowsKept
  <1>4. ASSUME NEW w \in Workers, Worker(w) PROVE RowsInv'
    BY <1>4, RowsWorker
  <1>5. CASE TimeoutExpires \/ CloseBegin \/ CloseEnd
    BY <1>0, <1>5, RowsKept
       DEF TimeoutExpires, CloseBegin, CloseEnd, collectorVars, statsVars, Waiting, Queued
  <1>6. CASE Terminated
    BY <1>1, <1>6 DEF Terminated
  <1> QED BY <1>1, <1>2, <1>3, <1>4, <1>5, <1>6 DEF Next

\* A trade counted as stored is in the database unless it does not parse, no
\* trade is there more than MaxRetries + 1 times, and none before a worker
\* has taken it.
THEOREM ReportedTheorem == Spec => []ReportedIsStored
  <1>1. Init => RowsInv
    BY LimitsAssumption DEF Init, RowsInv, Waiting, Queued, CopiesFit, Idle
  <1>2. IInv /\ RowsInv /\ [Next]_vars => RowsInv'
    BY RowsNext
  <1>3. RowsInv => ReportedIsStored
    BY DEF RowsInv, ReportedIsStored, Waiting
  <1> QED BY <1>1, <1>2, <1>3, Invariance, PTL DEF Spec
-----------------------------------------------------------------------------
(* What is left at the end *)

\* No channel holds more than its capacity, and a collector that has stopped
\* holds no batch.
ChannelsFit ==
  /\ ~collecting => batch = {}
  /\ Cardinality(tradeChannel) <= BufferSize
  /\ Cardinality(batchChannel) <= BatchSlots

LEMMA BatchesFinite == TypeOK => IsFiniteSet(batchChannel)
  BY SetsAssumption, FS_SUBSET, FS_Subset DEF TypeOK

\* The count after one element more, or after some less.
LEMMA OneMore ==
  ASSUME NEW S, IsFiniteSet(S), NEW x, NEW n \in Nat, Cardinality(S) < n
  PROVE  Cardinality(S \cup {x}) <= n
  <1>1. Cardinality(S) \in Nat
    BY FS_CardinalityType
  <1>2. Cardinality(S \cup {x}) = IF x \in S THEN Cardinality(S) ELSE Cardinality(S) + 1
    BY FS_AddElement
  <1> QED BY <1>1, <1>2

LEMMA SomeLess ==
  ASSUME NEW S, IsFiniteSet(S), NEW T, T \subseteq S, NEW n \in Nat, Cardinality(S) <= n
  PROVE  Cardinality(T) <= n
  BY FS_Subset, FS_CardinalityType

LEMMA ChannelsHandOver ==
  ASSUME TypeOK, ChannelsFit, NEW b, HandOver(b)
  PROVE  batch' = {} /\ Cardinality(batchChannel') <= BatchSlots
  <1>1. IsFiniteSet(batchChannel) /\ Cardinality(batchChannel) \in Nat /\ BatchSlots \in Nat
    BY BatchesFinite, FS_CardinalityType, LimitsAssumption
  <1> QED BY <1>1, OneMore DEF HandOver, ChannelsFit

LEMMA ChannelsNext ==
  ASSUME TypeOK, ChannelsFit, [Next]_vars
  PROVE  ChannelsFit'
  <1>1. /\ IsFiniteSet(tradeChannel) /\ IsFiniteSet(batchChannel)
        /\ BufferSize \in Nat /\ BatchSlots \in Nat
    BY BatchesFinite, CountType, LimitsAssumption DEF TypeOK
  <1>2. CASE UNCHANGED <<collectorVars, batchChannel>>
    BY <1>2 DEF ChannelsFit, collectorVars
  <1>3. ASSUME NEW t \in Trades, AddTrade(t) PROVE ChannelsFit'
    <2>1. /\ UNCHANGED <<collecting, batch, batchChannel>>
          /\ \/ tradeChannel' = tradeChannel
             \/ tradeChannel' = tradeChannel \cup {t} /\ Cardinality(tradeChannel) < BufferSize
      BY <1>3 DEF AddTrade
    <2> QED BY <1>1, <2>1, OneMore DEF ChannelsFit
  <1>4. CASE Collector
    <2>1. tradeChannel' \subseteq tradeChannel
      BY <1>4 DEF Collector, CollectTrade, FlushTick, CollectorStops
    <2>2. Cardinality(tradeChannel') <= BufferSize
      BY <1>1, <2>1, SomeLess DEF ChannelsFit
    <2> SUFFICES Cardinality(batchChannel') <= BatchSlots /\ (collecting' \/ batch' = {})
      BY <2>2 DEF ChannelsFit
    <2>3. CASE CollectTrade
      <3>1. PICK t \in tradeChannel :
              HandOver(batch \cup {t}) \/ UNCHANGED batchChannel
        BY <2>3 DEF CollectTrade
      <3>2. collecting'
        BY <2>3 DEF CollectTrade
      <3> QED BY <3>1, <3>2, ChannelsHandOver DEF ChannelsFit
    <2>4. CASE FlushTick
      BY <2>4, ChannelsHandOver DEF FlushTick
    <2>5. CASE CollectorStops
      BY <2>5, ChannelsHandOver DEF CollectorStops, ChannelsFit
    <2> QED BY <1>4, <2>3, <2>4, <2>5 DEF Collector
  <1>5. ASSUME NEW w \in Workers, Worker(w) PROVE ChannelsFit'
    <2>1. CASE TakeBatch(w)
      <3>1. batchChannel' \subseteq batchChannel /\ UNCHANGED collectorVars
        BY <2>1 DEF TakeBatch
      <3> QED BY <1>1, <3>1, SomeLess DEF ChannelsFit, collectorVars
    <2>2. CASE ~TakeBatch(w)
      <3>1. UNCHANGED <<collectorVars, batchChannel>>
        BY <1>5, <2>2
           DEF Worker, InsertReturns, BackoffEnds, Breaker, Counts, InsertSucceeds, InsertFails,
               BackoffElapses, BackoffCancelled, CanExecute, ReadAge, Claim, ResetFailures,
               CloseBreaker, StampFailure, CountFailure, OpenBreaker, CountStored, CountDropped,
               WorkerStops
      <3> QED BY <1>2, <3>1
    <2> QED BY <2>1, <2>2
  <1>6. CASE TimeoutExpires \/ CloseBegin \/ CloseEnd \/ UNCHANGED vars
    BY <1>2, <1>6 DEF TimeoutExpires, CloseBegin, CloseEnd, vars
  <1> QED BY <1>3, <1>4, <1>5, <1>6 DEF Next, Terminated

\* When Close has returned nobody holds a trade; what has been neither stored
\* nor dropped is in a channel, no more than fits, and not in the database.
THEOREM AbandonedTheorem == Spec => []AbandonedIsUntouched
  <1>1. Init => RowsInv /\ ChannelsFit
    <2>1. Init => RowsInv
      BY LimitsAssumption DEF Init, RowsInv, Waiting, Queued, CopiesFit, Idle
    <2>2. Init => ChannelsFit
      BY LimitsAssumption, FS_EmptySet DEF Init, ChannelsFit
    <2> QED BY <2>1, <2>2
  <1>2. IInv /\ RowsInv /\ ChannelsFit /\ [Next]_vars => RowsInv' /\ ChannelsFit'
    BY RowsNext, ChannelsNext DEF IInv
  <1>3. IInv /\ RowsInv /\ ChannelsFit => AbandonedIsUntouched
    <2> SUFFICES ASSUME IInv, RowsInv, ChannelsFit, phase = "closed"
                 PROVE  /\ batch = {} /\ InWork = {}
                        /\ \A t \in offered : t \in InFlight => rows[t] = 0
      BY DEF AbandonedIsUntouched, ChannelsFit
    <2>1. batch = {}
      BY DEF IInv, ClosedQuiet, ChannelsFit
    <2>2. InWork = {}
      BY DEF IInv, ClosedQuiet, RestingEmpty, InWork
    <2> QED BY <2>1, <2>2 DEF RowsInv, InFlight, Waiting
  <1> QED BY <1>1, <1>2, <1>3, Invariance, PTL DEF Spec
=============================================================================
