--------------------------- MODULE QuestDBManager ---------------------------
(***************************************************************************)
(* internal/database/questdb_manager.go: the trades go through             *)
(* tradeChannel to the batchCollector, in batches through batchChannel to  *)
(* the batchWorkers, and into the database with retries, under a circuit   *)
(* breaker that the workers share without a lock; Close cancels the        *)
(* context and waits for the goroutines.                                   *)
(*                                                                         *)
(* Channels are sets: with several workers no order is kept, and none is   *)
(* promised. The breaker's methods are modelled by their atomic            *)
(* operations. A call of AddTrade after Close has closed the channel       *)
(* panics and is not modelled.                                             *)
(***************************************************************************)
EXTENDS Integers, FiniteSets

CONSTANTS
  Trades,       \* names of the trades that may be offered, each once
  Unparsable,   \* those whose price or quantity is not a number
  Workers,      \* the batch workers
  BatchSize, BufferSize, MaxRetries,   \* as configured
  BatchSlots,   \* capacity of batchChannel, WorkerCount * 2 in the code
  Threshold     \* the breaker's threshold, 5 in the code

ASSUME SetsAssumption   == IsFiniteSet(Trades) /\ Unparsable \subseteq Trades
ASSUME LimitsAssumption == /\ BatchSize \in Nat \ {0} /\ BufferSize \in Nat
                           /\ BatchSlots \in Nat /\ MaxRetries \in Nat
                           /\ Threshold \in Nat \ {0}

VARIABLES
  phase,         \* "running", "cancelled" (in Close), "closed"
  offered,       \* history: the trades AddTrade was called with
  tradeChannel,  \* trades waiting for the collector
  collecting,    \* the batchCollector runs
  batch,         \* its current batch
  batchChannel,  \* batches waiting for a worker
  worker,        \* worker[w]: [pc, batch, attempt]
  breaker,       \* "closed", "open", "half-open"
  failureCount,
  expired,       \* more than timeout has passed since lastFailureTime
  rows,          \* the database: committed copies of each trade
  TotalTrades, DroppedTrades,   \* statistics
  reported       \* history: the trades counted in TotalTrades

collectorVars == <<tradeChannel, collecting, batch>>
breakerVars   == <<breaker, failureCount, expired>>
statsVars     == <<TotalTrades, DroppedTrades, reported>>
vars == <<phase, offered, collectorVars, batchChannel, worker, breakerVars, rows, statsVars>>

Idle == [pc |-> "idle", batch |-> {}, attempt |-> 0]

Init ==
  /\ phase = "running"
  /\ offered = {} /\ tradeChannel = {} /\ collecting = TRUE /\ batch = {}
  /\ batchChannel = {}
  /\ worker = [w \in Workers |-> Idle]
  /\ breaker = "closed" /\ failureCount = 0 /\ expired = TRUE
  /\ rows = [t \in Trades |-> 0]
  /\ TotalTrades = 0 /\ DroppedTrades = 0 /\ reported = {}

-----------------------------------------------------------------------------
(* The callers and the collector *)

AddTrade(t) ==
  /\ phase # "closed" /\ t \notin offered
  /\ offered' = offered \union {t}
  /\ \/ /\ Cardinality(tradeChannel) < BufferSize
        /\ tradeChannel' = tradeChannel \union {t}
        /\ UNCHANGED DroppedTrades
     \/ /\ Cardinality(tradeChannel) >= BufferSize
        /\ DroppedTrades' = DroppedTrades + 1
        /\ UNCHANGED tradeChannel
  /\ UNCHANGED <<phase, collecting, batch, batchChannel, worker, breakerVars, rows,
                 TotalTrades, reported>>

\* A full batch, a flush and the last batch are sent, or dropped when there is
\* no slot; the collector goes on with an empty batch either way.
\* Mutant: a batch that finds no slot is not counted.
HandOver_Uncounted(b) ==
  /\ batch' = {}
  /\ batchChannel' = IF Cardinality(batchChannel) < BatchSlots
                       THEN batchChannel \union {b} ELSE batchChannel
  /\ UNCHANGED DroppedTrades

HandOver(b) ==
  /\ batch' = {}
  /\ \/ /\ Cardinality(batchChannel) < BatchSlots
        /\ batchChannel' = batchChannel \union {b}
        /\ UNCHANGED DroppedTrades
     \/ /\ Cardinality(batchChannel) >= BatchSlots
        /\ DroppedTrades' = DroppedTrades + Cardinality(b)
        /\ UNCHANGED batchChannel

CollectTrade ==
  /\ collecting
  /\ \E t \in tradeChannel :
       /\ tradeChannel' = tradeChannel \ {t}
       /\ LET b == batch \union {t}
          IN  IF Cardinality(b) >= BatchSize
                THEN HandOver(b)
                ELSE batch' = b /\ UNCHANGED <<batchChannel, DroppedTrades>>
  /\ UNCHANGED <<phase, offered, collecting, worker, breakerVars, rows, TotalTrades, reported>>

\* Mutant: the ticker sends full batches only.
FlushTick_FullOnly ==
  /\ collecting /\ Cardinality(batch) >= BatchSize
  /\ HandOver(batch)
  /\ UNCHANGED <<phase, offered, tradeChannel, collecting, worker, breakerVars, rows,
                 TotalTrades, reported>>

FlushTick ==
  /\ collecting /\ batch # {}
  /\ HandOver(batch)
  /\ UNCHANGED <<phase, offered, tradeChannel, collecting, worker, breakerVars, rows,
                 TotalTrades, reported>>

\* Mutant: the last batch is not handed over.
CollectorStops_KeepsBatch ==
  /\ collecting /\ phase # "running"
  /\ collecting' = FALSE
  /\ UNCHANGED <<phase, offered, tradeChannel, batch, batchChannel, worker, breakerVars, rows,
                 statsVars>>

\* The context is done: what is left in tradeChannel stays there.
CollectorStops ==
  /\ collecting /\ phase # "running"
  /\ collecting' = FALSE
  /\ IF batch = {} THEN UNCHANGED <<batch, batchChannel, DroppedTrades>> ELSE HandOver(batch)
  /\ UNCHANGED <<phase, offered, tradeChannel, worker, breakerVars, rows, TotalTrades, reported>>

-----------------------------------------------------------------------------
(* The workers *)

At(w, pc)   == worker[w].pc = pc
Goto(w, pc) == worker' = [worker EXCEPT ![w].pc = pc]

TakeBatch(w) ==
  /\ At(w, "idle")
  /\ \E b \in batchChannel :
       /\ batchChannel' = batchChannel \ {b}
       /\ worker' = [worker EXCEPT ![w] = [pc |-> "check", batch |-> b, attempt |-> 0]]
  /\ UNCHANGED <<phase, offered, collectorVars, breakerVars, rows, statsVars>>

\* canExecute reads the state.
CanExecute(w) ==
  /\ At(w, "check")
  /\ Goto(w, IF breaker = "open" THEN "aging" ELSE "insert")
  /\ UNCHANGED <<phase, offered, collectorVars, batchChannel, breakerVars, rows, statsVars>>

\* It has found the breaker open, and reads the time of the last failure.
ReadAge(w) ==
  /\ At(w, "aging")
  /\ Goto(w, IF expired THEN "claim" ELSE "refused")
  /\ UNCHANGED <<phase, offered, collectorVars, batchChannel, breakerVars, rows, statsVars>>

\* CompareAndSwap to half-open; the batch is refused when another came first.
Claim(w) ==
  /\ At(w, "claim")
  /\ \/ breaker = "open" /\ breaker' = "half-open" /\ Goto(w, "insert")
     \/ breaker # "open" /\ UNCHANGED breaker /\ Goto(w, "refused")
  /\ UNCHANGED <<phase, offered, collectorVars, batchChannel, failureCount, expired, rows,
                 statsVars>>

\* The rows of the batch, without those that do not parse, are committed.
Commit(w) ==
  rows' = [t \in Trades |-> IF t \in worker[w].batch \ Unparsable THEN rows[t] + 1 ELSE rows[t]]

InsertSucceeds(w) ==
  /\ At(w, "insert")
  /\ Commit(w)
  /\ Goto(w, "succeeded")
  /\ UNCHANGED <<phase, offered, collectorVars, batchChannel, breakerVars, statsVars>>

\* A fatal error is final; another one is retried after a delay, MaxRetries
\* times. A commit may have taken place although it reports an error.
\* Mutant: attempt <= MaxRetries allows one delay and one attempt too many.
InsertFails_OneMore(w) ==
  /\ At(w, "insert")
  /\ \/ Goto(w, "failed") /\ UNCHANGED rows
     \/ /\ Commit(w) \/ UNCHANGED rows
        /\ Goto(w, IF worker[w].attempt <= MaxRetries THEN "backoff" ELSE "failed")
  /\ UNCHANGED <<phase, offered, collectorVars, batchChannel, breakerVars, statsVars>>

InsertFails(w) ==
  /\ At(w, "insert")
  /\ \/ Goto(w, "failed") /\ UNCHANGED rows
     \/ /\ Commit(w) \/ UNCHANGED rows
        /\ Goto(w, IF worker[w].attempt < MaxRetries THEN "backoff" ELSE "failed")
  /\ UNCHANGED <<phase, offered, collectorVars, batchChannel, breakerVars, statsVars>>

BackoffElapses(w) ==
  /\ At(w, "backoff")
  /\ worker' = [worker EXCEPT ![w].pc = "insert", ![w].attempt = @ + 1]
  /\ UNCHANGED <<phase, offered, collectorVars, batchChannel, breakerVars, rows, statsVars>>

BackoffCancelled(w) ==
  /\ At(w, "backoff") /\ phase # "running"
  /\ Goto(w, "refused")
  /\ UNCHANGED <<phase, offered, collectorVars, batchChannel, breakerVars, rows, statsVars>>

\* recordSuccess, its first store.
ResetFailures(w) ==
  /\ At(w, "succeeded")
  /\ failureCount' = 0
  /\ Goto(w, "resetting")
  /\ UNCHANGED <<phase, offered, collectorVars, batchChannel, breaker, expired, rows, statsVars>>

\* Its second store.
CloseBreaker(w) ==
  /\ At(w, "resetting")
  /\ breaker' = "closed"
  /\ Goto(w, "stored")
  /\ UNCHANGED <<phase, offered, collectorVars, batchChannel, failureCount, expired, rows,
                 statsVars>>

\* recordFailure: the time,
StampFailure(w) ==
  /\ At(w, "failed")
  /\ expired' = FALSE
  /\ Goto(w, "stamped")
  /\ UNCHANGED <<phase, offered, collectorVars, batchChannel, breaker, failureCount, rows,
                 statsVars>>

\* then the count, on whose new value it decides.
CountFailure(w) ==
  /\ At(w, "stamped")
  /\ failureCount' = failureCount + 1
  /\ Goto(w, IF failureCount' >= Threshold THEN "tripping" ELSE "refused")
  /\ UNCHANGED <<phase, offered, collectorVars, batchChannel, breaker, expired, rows, statsVars>>

OpenBreaker(w) ==
  /\ At(w, "tripping")
  /\ breaker' = "open"
  /\ Goto(w, "refused")
  /\ UNCHANGED <<phase, offered, collectorVars, batchChannel, failureCount, expired, rows,
                 statsVars>>

\* processBatchWithRetry has returned: the batch is counted, as stored
CountStored(w) ==
  /\ At(w, "stored")
  /\ worker' = [worker EXCEPT ![w] = Idle]
  /\ TotalTrades' = TotalTrades + Cardinality(worker[w].batch)
  /\ reported' = reported \union worker[w].batch
  /\ UNCHANGED <<phase, offered, collectorVars, batchChannel, breakerVars, rows, DroppedTrades>>

\* or as dropped.
CountDropped(w) ==
  /\ At(w, "refused")
  /\ worker' = [worker EXCEPT ![w] = Idle]
  /\ DroppedTrades' = DroppedTrades + Cardinality(worker[w].batch)
  /\ UNCHANGED <<phase, offered, collectorVars, batchChannel, breakerVars, rows, TotalTrades,
                 reported>>

\* Mutant: the branch of ctx.Done does not return.
WorkerStops_NoReturn(w) ==
  /\ At(w, "idle") /\ phase # "running"
  /\ UNCHANGED vars

WorkerStops(w) ==
  /\ At(w, "idle") /\ phase # "running"
  /\ Goto(w, "stopped")
  /\ UNCHANGED <<phase, offered, collectorVars, batchChannel, breakerVars, rows, statsVars>>

-----------------------------------------------------------------------------
TimeoutExpires ==
  /\ ~expired
  /\ expired' = TRUE
  /\ UNCHANGED <<phase, offered, collectorVars, batchChannel, worker, breaker, failureCount,
                 rows, statsVars>>

CloseBegin ==
  /\ phase = "running"
  /\ phase' = "cancelled"
  /\ UNCHANGED <<offered, collectorVars, batchChannel, worker, breakerVars, rows, statsVars>>

\* wg.Wait returns.
\* Mutant: the workers are not waited for.
CloseEnd_NoWait ==
  /\ phase = "cancelled" /\ ~collecting
  /\ phase' = "closed"
  /\ UNCHANGED <<offered, collectorVars, batchChannel, worker, breakerVars, rows, statsVars>>

CloseEnd ==
  /\ phase = "cancelled" /\ ~collecting
  /\ \A w \in Workers : At(w, "stopped")
  /\ phase' = "closed"
  /\ UNCHANGED <<offered, collectorVars, batchChannel, worker, breakerVars, rows, statsVars>>

Collector == CollectTrade \/ FlushTick \/ CollectorStops

InsertReturns(w) == InsertSucceeds(w) \/ InsertFails(w)
BackoffEnds(w)   == BackoffElapses(w) \/ BackoffCancelled(w)
Breaker(w)       == \/ CanExecute(w) \/ ReadAge(w) \/ Claim(w)
                    \/ ResetFailures(w) \/ CloseBreaker(w)
                    \/ StampFailure(w) \/ CountFailure(w) \/ OpenBreaker(w)
Counts(w)        == CountStored(w) \/ CountDropped(w)

Worker(w) == \/ TakeBatch(w) \/ InsertReturns(w) \/ BackoffEnds(w)
             \/ Breaker(w) \/ Counts(w) \/ WorkerStops(w)

Terminated == phase = "closed" /\ UNCHANGED vars

Next ==
  \/ \E t \in Trades : AddTrade(t)
  \/ Collector
  \/ \E w \in Workers : Worker(w)
  \/ TimeoutExpires
  \/ CloseBegin
  \/ CloseEnd
  \/ Terminated

\* Every ready branch of a select is chosen in the end; delays elapse and the
\* database driver returns, with a result or an error. Nobody needs to offer
\* trades or to call Close.
Fairness ==
  /\ WF_vars(CollectTrade) /\ WF_vars(FlushTick) /\ WF_vars(CollectorStops)
  /\ \A w \in Workers :
       /\ WF_vars(TakeBatch(w)) /\ WF_vars(InsertReturns(w))
       /\ WF_vars(BackoffEnds(w)) /\ WF_vars(Breaker(w) \/ Counts(w)) /\ WF_vars(WorkerStops(w))
  /\ WF_vars(CloseEnd)

Spec     == Init /\ [][Next]_vars
FairSpec == Spec /\ Fairness

-----------------------------------------------------------------------------
Pcs == {"idle", "check", "aging", "claim", "insert", "backoff", "succeeded", "resetting",
        "failed", "stamped", "tripping", "stored", "refused", "stopped"}

WorkOf == [pc : Pcs, batch : SUBSET Trades, attempt : 0..MaxRetries]

TypeOK ==
  /\ phase \in {"running", "cancelled", "closed"}
  /\ offered \subseteq Trades /\ tradeChannel \subseteq Trades /\ batch \subseteq Trades
  /\ collecting \in BOOLEAN
  /\ batchChannel \subseteq SUBSET Trades
  /\ worker \in [Workers -> WorkOf]
  /\ breaker \in {"closed", "open", "half-open"}
  /\ failureCount \in Nat /\ expired \in BOOLEAN
  /\ rows \in [Trades -> Nat]
  /\ TotalTrades \in Nat /\ DroppedTrades \in Nat
  /\ reported \subseteq Trades

Queued   == UNION batchChannel
InWork   == UNION {worker[w].batch : w \in Workers}
InFlight == tradeChannel \union batch \union Queued \union InWork

\* The statistics keep the books of TradeLedger: on no path - refused, dropped for
\* want of a slot, refused by the breaker, given up after retries - is a trade
\* counted twice, or out of the pipeline without being counted, and Close returns
\* after the last count. What the channels still hold then is abandoned.
Ledger == INSTANCE TradeLedger WITH pending <- InFlight, closed <- (phase = "closed")

KeepsLedger == Ledger!Spec

\* The books balance at every moment.
BooksBalance == Ledger!Balanced

\* TotalTrades tells the truth: a trade that is counted as stored and that
\* parses is in the database; and retries store no trade more than
\* MaxRetries + 1 times, nor one that is still on its way to a worker.
ReportedIsStored ==
  /\ \A t \in reported \ Unparsable : rows[t] > 0
  /\ \A t \in Trades : rows[t] <= MaxRetries + 1
  /\ \A t \in tradeChannel \union batch \union Queued : rows[t] = 0

\* The shutdown stops nothing half-way: when Close has returned, neither the
\* collector nor a worker holds a trade, and what is in neither statistic is in
\* a channel, as many as these hold at most, and was never sent to the database.
\* (Line 225 has it that the rest is handled: it is not, nor is it counted.)
AbandonedIsUntouched ==
  phase = "closed" =>
    /\ batch = {} /\ InWork = {}
    /\ Cardinality(tradeChannel) <= BufferSize /\ Cardinality(batchChannel) <= BatchSlots
    /\ \A t \in offered : t \in InFlight => rows[t] = 0

\* No accepted trade stays in the pipeline: it is counted, unless Close is
\* called.
EveryTradeIsCounted ==
  \A t \in Trades : t \in InFlight ~> t \notin InFlight \/ phase # "running"

\* Close returns: no worker and no collector is left waiting for anything.
CloseReturns == phase = "cancelled" ~> phase = "closed"
=============================================================================
