# PumpWatch in TLA+

PumpWatch watches the announcements of the Upbit exchange for new KRW listings
and keeps the trades of six other exchanges around the moment of an
announcement. This directory holds TLA+ models of the parts of it that are
concurrent, that fail, or that survive a restart, TLC configurations that check
them on small instances, and proofs checked by TLAPS.

    tlc -workers 2 -config MCUpbitMonitor.cfg MCUpbitMonitor.tla
    tlapm QuestDBManager_proofs.tla

## 1. The system

`main.go` starts one process: an `EnhancedTaskManager` with a worker pool per
exchange and market, and an `UpbitMonitor`. `run_pumpwatch.sh` stops and starts
the process every 30 minutes ("hard reset"). Everything else in the repository
is either a leaf that keeps no protocol (configuration, logging, dashboards) or
an alternative that `main.go` does not start.

| component | state it keeps | operations | talks to |
| --- | --- | --- | --- |
| `websocket/worker_pool.go` | a pool: context, workers, `ActiveWorkers`; a worker: status, connector | `Start`, `Stop`, the connection loop, callbacks | connectors (calls); task manager (callbacks) |
| `websocket/connectors/*` | one WebSocket connection each | `Connect`, `Subscribe`, `StartMessageLoop`, `Disconnect` | the exchange; the worker (a channel) |
| `websocket/enhanced_task_manager.go` | the pools, statistics, the buffer, the database | `Start`, `Stop`, `handleTradeEvent`, `StartDataCollection`, health check | all of the below |
| `recovery/error_recovery.go` | per exchange: state, retry count, cooldown | `HandleError`, `MarkHealthy`, `RegisterExchange`, a ticker | a reconnection callback of the owner |
| `buffer/circular_trade_buffer.go` | a ring of one-second buckets, a hot cache, a backup file | `StoreTradeEvent`, `GetTradeEvents`, cache refresh, `Close`, `LoadFromBackup` | the file system |
| `database/questdb_manager.go` | two channels, the current batch, a circuit breaker, statistics | `AddTrade`, collector, workers, `Close` | QuestDB |
| `monitor/upbit.go` | a polling goroutine | `Start`, `Stop`, poll, trigger | Upbit's API; `StartDataCollection`; storage |
| `monitor/persistent_state.go` | the processed notices, a state file | mark, look up, record errors, save, load, clean up | the file system |
| `models/collection_event.go` | the trades of one listing, by market | `AddTrade`, `AddTradeFromBuffer`, `IsTargetSymbol` | – |
| `storage/manager.go` | directories of raw and refined data | `StoreListingEvent`, `StoreCollectionEvent`, clean-up | analyzer; the file system |
| `analyzer/pump_analyzer.go` | none | `AnalyzePumps`, `AnalyzeRefinedPumps` | – |
| `symbols/*`, `models/symbol_config.go` | the symbol lists | update from the exchanges, subscription lists | HTTP; `symbols.yaml` |
| `websocket/safe_*` (alternative) | a manager, its pools, their workers with two channels each | `Start`, `Stop`, event loop, reader, statistics | the exchange; a callback |
| `buffer/{extended_buffer,buffer_manager,circular_buffer,compressed_ring,delta_compressor}.go` (alternative) | per market a hot ring and compressed blocks, a fallback slice | `StoreTradeEvent`, `GetTradeEvents`, `Close` | – |
| `sync/symbol_coordinator.go`, `sync/*filter*`, `config/yaml_manager.go` (alternative) | the configuration in memory, tickers | `Initialize`, `Start`, `Stop`, `SyncNow`, autosave | HTTP; the same `symbols.yaml` |
| other alternatives: `websocket/task_manager.go`, `hybrid`, `backup`, `maintenance`, `upbit`, `database/questdb_client.go` | their own | their own | not started by `main.go` |

What is hard in it:

- **goroutines and locks**: a connection loop per worker, callbacks under
  different mutexes, an atomics-only circuit breaker, saves that hold a *read*
  lock while they write a file;
- **contexts that end**: who still runs, and what is left behind, when a context
  is cancelled while goroutines dial, back off, or hold a batch;
- **bounded channels** that drop, and statistics that must not lie about it;
- **files and restarts**: a backup that must survive a kill, a state file
  written by several goroutines, records that expire;
- **time**: a ring indexed by time, caches that are fresh for 30 seconds,
  windows and retentions, cooldowns.

What makes each component correct:

- recovery: a cooldown ends in an attempt; an exchange whose attempt has failed is
  tried again, three times, and then given up (it is not: see the disagreements);
- worker pool: one live connection loop per worker; `ActiveWorkers` is right;
  `Stop` leaves no loop behind; lost connections come back;
- buffer: a query returns no trade twice and no trade of another turn, and all
  those it holds; an orderly restart loses nothing;
- QuestDB pipeline: no trade is counted twice or leaves the pipeline uncounted; what
  is reported as stored is stored; `Close` returns and leaves nothing half done;
- monitor: each listing is triggered once; the record of it survives;
- collection and storage: the trades around the trigger reach the disk;
- symbols: what the exchanges name and is not yet listed at Upbit is watched, what
  is listed is not, and the file the two programs share stays usable;
- safe workers: one reader per connection, trades in order, each symbol at one
  worker;
- extended buffer: each trade is kept in one place, recent answers are exact, and
  what compression loses is bounded.

## 2. Modules

| module | models |
| --- | --- |
| `ReconnectionScheduler` | `recovery/error_recovery.go`, with the two kinds of owner it has |
| `WorkerPool` | `websocket/worker_pool.go`, Binance's connector as the typical one, and the reconnection callback of the task manager |
| `CircularTradeBuffer` | `buffer/circular_trade_buffer.go` with its backup file |
| `TradeLedger` | abstract: what the QuestDB pipeline promises about its statistics |
| `QuestDBManager` | `database/questdb_manager.go`; implements `TradeLedger` |
| `UpbitMonitor` | `monitor/upbit.go` and `monitor/persistent_state.go`, with the files |
| `TradeQuery` | what a query of the buffer may answer: kept by `CircularTradeBuffer`, relied on by `ListingCollection` |
| `ListingCollection` | `StartDataCollection` of `websocket/enhanced_task_manager.go`, `models/collection_event.go` |
| `EventStorage` | `storage/manager.go` with its directories of files |
| `PumpAnalyzer` | `AnalyzePumps` of `analyzer/pump_analyzer.go`, as functions |
| `AnalyzedCollection` | what is expected of `PumpAnalyzer`, for a collection and for every one of a given set; used by `EventStorage` |
| `Subscriptions` | the symbols and lists as `symbols/manager.go`, `sync` and `models/symbol_config.go` compute them, as functions |
| `SymbolsFile` | `symbols.yaml` and its temporary file, as every saver writes them |
| `SymbolsManager` | the cycle of `run_pumpwatch.sh`: `--init-symbols` (`symbols/manager.go`), then `main.go` with the lists it loads |
| `SymbolCoordinator` | `sync/symbol_coordinator.go` with `config/yaml_manager.go`, beside `SymbolsManager` on one file |
| `SafeWorker` | `websocket/safe_worker.go`: event loop, reader, channels |
| `SafeTaskManager` | `websocket/safe_task_manager.go` and `safe_worker_pool.go` over `SafeWorker` |
| `CircularBuffer` | the hot ring of `buffer/circular_buffer.go`, as functions |
| `DeltaCompressor` | `buffer/delta_compressor.go`, as functions: what a block is after the codec |
| `CompressedRing` | the cold blocks of `buffer/compressed_ring.go`, as functions |
| `ExtendedBuffer` | `buffer/extended_buffer.go` and `buffer_manager.go` over these |
| `MC*` | constants for TLC |
| `*_proofs` | theorems and proofs |

Each definition is named after the function it stands for; where a function
runs in several steps because it releases a lock, blocks, or reads an atomic
variable, each step is an action named after what it does, and `PROJECT.json`
("map") gives its lines. Definitions with a suffix (`OnDisconnected_Forgets`) are
*mutants*: not part of the specification, each a plausible bug of the definition
before the underscore that a property is known to catch.

### ReconnectionScheduler

State: the scheduler's loop and context; per exchange `state`, `retryCount` and
the remaining `cooldown` in ticks; goroutines `spawned` by a tick that have not
taken the lock, and those `calling` the owner's callback without it. Owners are
of two kinds: the enhanced task manager only hears of the result of its
callback; the older task manager also calls `MarkHealthy` itself
(`OwnerReports`). A tick does not wait for the goroutines of an earlier one, so an
outage may get several attempts (`MaxAttempts` bounds them).

The comments promise three retries and then a hard reset; `FailedAttemptIsRetried`
says the weaker of it, that a failed attempt is followed by something, and is
violated. The proofs say why. `MarkHealthy` clears the retry counter and every
error outside the healthy state is dropped, so the counter never exceeds one
(`RetryCountNeverAccumulates`) and the limit of three is unreachable
(`RetryLimitUnreachable`). The same check drops the error of a failed attempt: only
a success ends a retry (`OnlySuccessEndsRetrying`).

### WorkerPool

State: `wp.mu` and the position of the caller in `Start` or `Stop`; the context;
per loop (worker and number of the `Start` that spawned it) where it is; per
worker its status and what its connector points to; `ActiveWorkers`. Clients are
the manager, which starts and finally stops the pool, and reconnection
callbacks, which stop it and start it again. A dial is not interruptible; a
connection that cannot be subscribed with is closed again (`SubscribeFails`),
one that is made after `Stop` has disconnected the worker is left open.
`OneLivePerWorker` is what the callback's restart puts at risk; it holds only
because the context is never renewed. `ActiveWorkers` is exact until the first
`Stop` and zero once all loops have ended. For the same reason a restarted pool
never connects again, though the callback reports success; nothing in production
triggers that callback, since the workers' `OnError` is nil.

### CircularTradeBuffer

State: the ring (per bucket and key a set of trades), the hot cache (with the
time and the content of the buffer at its refresh as history), the clock, the
refresh in progress (which may see trades stored after it took its bounds), the
phase of `Close`, the backup file, and `owed`: what an orderly `Close` must
bring back. Milliseconds are scaled: `MsPerSecond` to a bucket.

### QuestDBManager and TradeLedger

State: as in the code, the channels as sets (several workers keep no order). A
worker's program counter has a step per atomic operation of the breaker and one
for the count of its batch. `TradeLedger` has four variables the statistics are
about, and six actions; `KeepsLedger` is the refinement under `pending <-
InFlight` and `closed <- phase = "closed"`. A batch the workers have not taken
when the context ends stays in the channel, and so does what the collector has
not read: the ledger admits trades that are pending at the close.
`AbandonedIsUntouched` says what these are: nobody holds one, the channels'
capacities bound them, none is in the database. They are in neither statistic,
which is not what line 225 says.

### UpbitMonitor

State: the clock, the processed records, the polling goroutine between the calls
that take locks, the saves. A saver opens an inode by truncating the temporary
name, writes to *the inode it opened*, and renames *whatever has the name* by
then: `saver[s].target` follows the inode through the renames of others.
The state file can be torn for that reason; `TornFileIsMended` says how far the
damage goes (a saver that is about to write that very file mends it), and
`FileNeverForgets` that the contents never go back.

### TradeQuery and ListingCollection

The ring, the backup and the queries are one module, the collection is another:
together they have too many states. Between them stands `TradeQuery`: an answer
has no trade out of range and leaves out only what the refresh behind the hot
cache cannot have seen. `CircularTradeBuffer` is checked, and proved, to keep it
(`OmitsOnlyUnrefreshed` is stated with `IsAnswer`); `ListingCollection` picks any
of the `Answers`.

State of `ListingCollection`: the clock, the trades the buffer holds, per market
the snapshot behind its hot cache, the position of the polling goroutine in
`exchangeMarkets`, the collections. `seen` is history: which trades of the listing
could be found when its notice was detected. A symbol is the name of a coin and the
form in which the exchange writes the pair; `WithS` gives the coin whose name
has an S in front, which `IsTargetSymbol` takes for Phemex's form.

README.md promises the trades of 20 seconds before *and* after the announcement,
exactly. The code asks the buffer once, at detection, so what is traded later is not
collected; `IsTargetSymbol` refuses contracts (`ABC-USDT-SWAP`) that are trades of
the listed coin; detected later than the hot cache reaches back (120 - 20 seconds
after the announcement), a cached market answers with what is left; and the
shutdown may close the buffer. `MissedHasAReason` says that these are all the
reasons: whatever else of the window is in the buffer is in the collection.
`CollectedTradesBelong` is the converse, with the other coin as its exception.

### EventStorage and PumpAnalyzer

State: the phase of `main.go`, the polling goroutine between the collection and
the metadata it stores, per notice the goroutine that stores (which files are
still to be written), the holder of `sm.mu`, and the disk: per directory and file
which notice and which store it is of, and its content. Every write may fail, the
process may end between any two steps (orderly, or by the kill of
`run_pumpwatch.sh`) and is started again. A rename is atomic and only the holder
of `sm.mu` has a temporary file, so files are whole here - unlike the state file
of `UpbitMonitor`. The clock is read by the clean-up only, so it is a choice of
`CloseStorage`.

Directories are named after coin and second, so a notice that is handled again
after a restart, or one that repeats another, writes over the earlier files.
`FilesAreInStepOrder` is what a reader may rely on all the same;
`StoredIsWhole` is the stronger fact after a success. A failed analysis counts as one,
as it does in the code: such a store ends with what it left out still in its list.

`PumpAnalyzer` has no state. Each loop of the code is a fold: over the sorted trades
of a market (`createTimeWindows`), over its windows (`analyzeExchangeMarket`), and
over the markets (`PumpsOf`). `AnalyzedCollection` compares the loops with the
definition of the seconds: the windows are the seconds that have trades, and no rise
is missed or made up. `EventStorage` states both of what its stores analyze, and,
because a store can be handed only a few collections in a run, of every collection
of the constant `Analyzed` besides. A price
fall is reported as well, because a window has a minimum and a maximum but no
order, and the market named as the first to pump is searched with the wrong
comparison: both are listed as disagreements with the comments, and no property
asserts them.

### Subscriptions, SymbolsFile, SymbolsManager, SymbolCoordinator

Two programs decide what is watched, with different code for the same purpose,
and share one file. `Subscriptions` has both computations: what each exchange's
interface is asked for, in which form its symbols are kept, and which of them the
two functions called `extractBaseSymbol` recognise as a listed coin. A symbol is
the name of its coin and one of six forms. `Offers` are the instruments of the
exchanges, some of them dated contracts, some beyond the first page of their
interface, some not trading yet (`unopened`). What the computations lose shows in
the definitions: the script's manager never filters KuCoin's contracts and the dated
contracts of Binance and Bybit, reads one page of Bybit's futures, has nothing for
Phemex, and replaces the list of a market that does not answer by three coins Upbit
has listed for years, so nothing there is watched; the service loses OKX's futures
and Gate.io's spot pairs, and empties a market it cannot reach.

`SymbolsFile` is the protocol of the file: the savers, of both programs, write the
same temporary name and rename it, with nothing between them; an open file is
followed through the renames of others, as in `UpbitMonitor`. A file that is
empty or mixed of two contents is `Torn`, and no program can load it.

`SymbolsManager` is the script: update, start, load, and a hard reset every 30
minutes, while Upbit goes on listing coins (`List`) and the exchanges go on opening
markets (`Opens`). The configuration that `main.go` loads (`watched`) is the one
`enhanced_task_manager.go` makes its subscriptions from. The field `answered` is not
in the file: it remembers which coins each interface named when the lists were made.
`CandidatesAreWatched` is about those: a coin of a later page, and one that has
begun to trade since, is not watched.

`SymbolCoordinator` adds the other process: `Initialize` with its defaults,
`Start` (which synchronises in the caller's goroutine and only then starts the
loop), the daily tick, `Stop`, the autosave, a crash at any step. The
synchronisation changes the object the autosave writes, so a half-synchronised
configuration may be stored, and the autosave writes over the script's newer
file, which it reads again only at the next synchronisation.
`OldListingsAreNotWatched` holds through all of that, for the forms the code
recognises; contracts, dated and prefixed symbols of listed coins are watched,
and dated ones are in `config/symbols/symbols.yaml`. A `Stop` between `Start`'s
return and the loop's first step makes the loop read a nil ticker
(`LoopPanics`), and a `Start` after a `Stop` has no autosave: `TornIsMended`
therefore speaks of a running autosave only.

Nothing in the repository constructs the coordinator.

### SafeWorker and SafeTaskManager

State of a worker: the step of its event loop, the connect timer, `connected` and
the connection, the number of reader goroutines at each step, its two channels. A
message is its number, a trade the number of its message. `OneReceiver` is what a
failed ping puts at risk: it clears `connected` while the reader is still at work;
the reason it holds all the same is in its comment and, formally, in the invariant
of `SafeTaskManager_proofs`. The converse of that reason is a loss: once a connect
has succeeded the timer is never armed again, so a lost connection is not dialled
again.

State of the manager and its pools: their flags, the counters of active workers,
the position of the goroutine in `Start` and of the one in `Stop`. An exchange
that is not in `Registered` has no connector (`ConnectorFails`), and its workers
are left out. The two can overlap, because `Start` raises the flag first.
`pool.Stop` cancels a context no worker has (theirs come from
`context.Background()`, and nobody calls their `Stop`), and the `break` of its
timeout leaves the `select` only: it returns when the counter of active workers
is zero - the number of loops entered and not left, which is proved - and not
before, which for a worker that does not panic is never. The comment of line 186
gives it ten seconds. The manager waits for a sum that only the monitor, already
cancelled, would update. `Direct` gives the runs workers whose `Stop` is called,
so that pools do empty.

### CircularBuffer, DeltaCompressor, CompressedRing, ExtendedBuffer

Every operation of the buffer is under one mutex, so the state is one market's
hot ring, cold blocks and fallback slice, and each call is a step. The lower three
modules are functions on those values. The losses of the cold store are in them:
the codec divides milliseconds as if they were nanoseconds, so times collapse to
steps of 1000 seconds (`TimeStep`) and a block of "30 seconds" spans 347 days
(`BlockSpan`); prices that leave the 16 bits of a delta rebase the block and only
the last base is kept; prices and quantities are truncated to whole millionths, and
a product that should be whole may come out just below (8.2 * 1000000), so that it
loses another; the index of a symbol is one byte; a batch whose first price does not
parse is lost with its error. `Millionth` is the number of units of price in a
millionth, and which products come out short is any choice (`short`). Since a block
is compressed again for every trade it gets, values drift. `TimesOnlyMoveBack` and
`ColdTradesStayInRange` bound the damage, `KeptExactlyOnce` and
`RecentAnswersAreExact` say what is sound. A full ring answers without its newest
trades and a slice never read takes the trades of unknown markets: the premise
`~overflowed`. `Close` locks the ring twice and hangs (`hung`).

## 3. Runs

| run | instance | distinct states | shows |
| --- | --- | --- | --- |
| `recovery` | 2 exchanges (one reported by its owner), cooldown 2 ticks, limit 3, 2 attempts at once | 5,640 | a cooldown is attempted; the counters' types |
| `recovery_stuck` | same | – | violated, see the disagreements |
| `worker_pool` | 2 workers, manager and one callback | 178,386 | counter, exclusiveness and drain |
| `worker_lost` | same | – | violated, see the disagreements |
| `trade_buffer` | 3 buckets of 2 ms, hot window 1 s, 8 ms, 4 trades | 868,430 | queries, restarts |
| `questdb` | 3 trades, 2 workers, batches of 2, 1 slot in each channel, 1 retry, threshold 2 | 354,507 | the books, refinement, liveness, what a close leaves |
| `upbit` | 2 notices, window 0, retention 1, 3 ticks, 3 savers | 613,182 | once per run, the file, no deadlock |
| `collection` | 2 markets (one never cached), 2 coins, 4 trades, window ±1, hot window 3, 4 ticks | 1,416,183 | what a collection has and has not, and why |
| `storage` | 2 notices of one directory, 2 markets, 2 processes; 512 collections of 7 trades | 305,331 | lock, files, restarts; windows, pumps |
| `symbols` | 12 markets, 3 coins, dated contracts, a second page, one change, one answered update, one answered synchronisation, one crash | 705,615 | what is watched; the file is mended |
| `safe` | 3 pools, one without a connector, 3 workers of which 2 start, one with connections and 2 messages, channels of 1 | 813,015 | readers, order, shares |
| `extended_buffer` | ring of 3, 2 blocks, 4 trades of 6 kinds, 3 ticks | 195,442 | one place per trade, recent answers, losses |

Why the bounds are enough. Recovery: exchanges do not interact, the second one
is of the other kind; two attempts are the least that overlap, and with a
cooldown of two ticks a second tick comes before and after its end. Pool: two
workers are needed for a position inside the loops of `Start` and `Stop`; one
callback gives the two generations of loops the exclusiveness is about. Buffer:
three buckets is the smallest ring in which the scan wraps and yet skips a
bucket; the clock passes the end of the ring, so that a bucket holds two turns.
QuestDB: with two workers every pair of steps at the breaker interleaves, with
capacity one every channel is met both full and not full, three trades give a
full batch and a partial one. Monitor: retention exceeds the window by the
smallest step, as 24 hours exceed 30 minutes; three saves are needed for
"truncated by one, renamed by another, written by a third". Collection: the
window ends before and after the detection, the hot window (3) passes the
beginning of the window during the run, one trade is at each end of it, and one
trade is of each kind of symbol that is mistaken or missed: each of the reasons
of `MissedHasAReason` is met. Storage: the lock, the files and the restarts are
about stores into *one* directory; stores into two only share the lock. One
collection has a pump and one has none, so files of one are not replaced by the
other. The times of the clean-up are chosen on both sides of the retention, the
zone being half a day ahead. Analyzer: seven trades in three windows, an
unparsable price, a zero, trades at both ends of a window, all subsets of them
in one market beside four sets in another. Symbols: a listed coin, one that
becomes listed, one on the second page of Bybit and not yet trading elsewhere; a
market with each form of symbol answers and another fails. Three savers (the
script, the synchronisation, the autosave) are all there are; one crash is
enough to meet every step of the others with a process that has forgotten. Safe:
three symbols at two per connection give shares of unequal size; the timer, the
ping and the reader that `OneReceiver` is about are those of one worker, and the
counters are about two pools; one `Start` and one `Stop` overlap. Extended
buffer: four trades overfill a ring of three; lags reach both sides of the hot
window; the clock crosses a multiple of `TimeStep`; there are two prices within
a delta of each other and two that are not, a difference and quantities that are
and are not whole, one symbol too many for the index, and one quantity beyond
the modulus.

Bounds that are constants of a module: `MaxTime` (clock), `MaxSpawned` (waiting
save goroutines), `MaxRuns` (processes), `CleanTimes` (times of a clean-up),
`MaxAttempts` (attempts of an exchange at once), `MaxUpdates`, `MaxSyncs` (those Upbit
answers; the ones that fail are not bounded), `MaxChanges` (listings and openings),
`MaxCrashes`, `Failures` (markets that fail
together), `MaxMessages`, `TradesPerMessage`, `MaxClock`, `MaxTrades`, `Kinds`, and in `WorkerPool` one restart per
callback. History variables: `offered`, `reported`, `attempts`, `leftTorn`,
`accepted`, `owed`, `seen`, `begun`, `cleaned`, `stored`, `overflowed`, `answered`,
`delivered`, and the snapshots in the hot cache.

**Disagreements.** Where the code does something else than the repository says of it,
`PROJECT.json` ("findings") has the line and the quotation. Two are shown by runs that
violate the property: a lost connection is not replaced (`worker_lost`), and a failed
reconnection attempt is followed by nothing (`recovery_stuck`). The others are in the
modules as the code has them, and the property beside them is stated so as not to
hide it: trades that are left in the channels at shutdown (`AbandonedIsUntouched`),
the 20 seconds after an announcement and the contracts (`MissedHasAReason`), the coin
with an S before its name (`CollectedTradesBelong`), falls reported as pumps
(`RisesAreReported`), dated contracts and contracts of listed coins
(`OldListingsAreNotWatched`), the first page of Bybit's futures
(`CandidatesAreWatched`). Two have no property, since a true one would state the
error: the first market to pump, and the ten seconds of `SafeWorkerPool.Stop`.

The type invariants of `WorkerPool` and `ReconnectionScheduler` are checked by their
runs and proved; those of `QuestDBManager`, `EventStorage` and `SafeWorker` are proved.

Fairness. Liveness is asserted only where goroutines that can go on must go on,
as the Go scheduler guarantees: weak fairness of the started loops, attempts,
workers and saves. Environment steps - errors, broken connections, new trades,
ticks of a clock, crashes, the beginning of a poll or of a `Stop` - have none. A
dial and an insert are assumed to end one way or the other (both have timeouts or
are cut by the peer); which way is open. In `EventStorage` only the stores and the
wait for `sm.mu` are fair; every directory operation returns, in success or not. In
`SymbolCoordinator` the autosave's ticker ticks and a save that has begun goes on;
the script, the synchronisations and crashes are not fair.

## 4. Proofs

All theorems hold for every value of the constants that satisfies the assumptions
in the modules: finiteness of sets, limits and times in `Nat`, values like `None` that
are different from what they stand beside, and the few the code's constants justify
and a result rests on, named below.

- `EnhancedTaskManager_proofs`, first part, about `ReconnectionScheduler`: its types
  (`SchedulerTypeOK`), and the reason of what `recovery_stuck` shows. The retry
  counter is zero in the healthy state and never above one
  (`RetryCountNeverAccumulates`), so the failed state is never reached
  (`RetryLimitUnreachable`), and retrying ends in success only
  (`OnlySuccessEndsRetrying`). The first three are inductive together, for any number
  of overlapping attempts; the last is a step from them.
- `EnhancedTaskManager_proofs`, second part, about `WorkerPool` (the pool that the
  scheduler's callback restarts): `TypeOK`, `ActiveWorkersIsRight`,
  `OneLivePerWorker`, for any number of workers and of callbacks that restart the
  pool. None is inductive. A loop that has dialed was spawned by the first `Start`
  (`LoopsAreRight`), because a later one follows a `Stop`, which cancels the context
  for good (`StartsAreRight`: only the manager has started the pool before that).
  The counter equals the loops that have reported a connection and not its end until
  the context is cancelled, and is never above that number afterwards
  (`CountIsRight`): so it is zero in the end, although `Stop` zeroes it early. The
  lock says who is inside `Start` or `Stop` (`LockIsRight`).
- `EnhancedTaskManager_proofs`, third part, about `ListingCollection`: what is missing
  from a collection has a reason, and what is collected belongs to the listing
  (`MissedHasAReason`, `CollectedTradesBelong`), from the contract of `TradeQuery`
  alone. The strengthening: while there is time, what was seen in a market and passes
  the filter has been got or the market is still to be asked (`PollIsRight`), and a
  finished refresh's snapshot, which had it, is only replaced by one that has it too.
- `QuestDBManager_proofs`: the abstract ledger balances (`LedgerInvariant`, about the
  instance of `TradeLedger`); `TypeOK`; `KeepsLedger` by step simulation - each action
  of the pipeline maps to an action of the ledger or to a stutter; `BooksBalance`
  from the two. `BooksBalance` is not inductive: that counting a batch removes exactly
  its trades from `InFlight` needs the places of the pipeline to be disjoint
  (`Apart`), what is in flight to have been offered, workers that rest to hold
  nothing, attempts to be within the limit, and a closed pipeline to be quiet
  (`ClosedQuiet`: `Close` has waited). `ReportedIsStored` adds the rows: a trade
  has at most as many rows as its worker has made attempts. `AbandonedIsUntouched`
  follows with the channels' capacities (`ChannelsFit`).
- `EventStorage_proofs`: `TypeOK`, and from one inductive invariant
  `FilesAreInStepOrder`, `StoredIsWhole` and (as an action property)
  `RetentionIsRespected`. The strengthening (`Inv`) is about the one store that
  holds `sm.mu`: it is the latest to have begun, so that what it writes is newer
  than anything else (`HolderIsLatest`); and whatever is no longer on its list is
  on the disk as it wrote it (`WrittenIsOwn`). A file that is written then has
  before it only files of the same store. When the store has ended the same is
  kept up for as long as the directory is still its own (`Lasting`, `StoredIsOwn`).
  These proofs treat what the analyzer makes of the data as an unknown function.
  The assumption that matters for the retention is `ZoneOffset \in Nat`: the zone
  of the notices is ahead of UTC, never behind.
- `EventStorage_proofs`, the analyzer: `WindowsArePartition` and `RisesAreReported`,
  for any finite set of trades in any markets, any thresholds and any size of a
  second; that a store holds the result of its own data is part of `Inv`. All that
  is needed of a collection is that each market has a finite set of trades; the rest
  is about the loops. A fold is a chain of values of which each is a turn of the
  loop (`FoldExists`, from induction over the length, and `FoldTurns`). For the loop
  over the trades that chain keeps `WindowsAreRight`: the windows are the seconds of
  the trades so far, in order, which needs that the trades are sorted and that the
  start of a window is a multiple of the size, so that a trade before the end of the
  last window is in its second. An order by time exists for any finite set
  (`SortExists`), hence the choice in `SortedByTime` is one. A window is a pump
  exactly if two of its prices are steeply apart, because the minimum and the
  maximum are further apart than any others (`WiderIsSteep`, `PumpWhenSteepSecond`);
  an early return of `analyzeExchangeMarket` loses none, since no second can have
  enough trades then (`MarketStarts`). The chain over the markets says which pumps
  the list has of each (`AllPumpsRight`). Assumed (`AnalyzerAssumption`): timestamps
  and prices are naturals, the size of a second and the number of trades required
  are positive. Nothing forbids that a market is analyzed twice.
- `SymbolCoordinator_proofs`: `CandidatesAreWatched` and `OldListingsAreNotWatched`,
  for any coins, offers and failures. What is watched was read from a file, that a
  saver wrote from what it had marshalled, so the invariant says of every
  configuration kept anywhere that it is sound: no list has a coin listed before
  either program ran (`Clean`) unless under a form that is not recognised, and the
  list of a market has every candidate that its interface named (`Complete`). The
  coordinator's own configuration is not up to date between `SyncExchanges` and
  `SyncLists`; there `ReadyForLists` says that its symbols are in forms the service
  parses and that it knows what Upbit listed at first, which is what `SyncLists`
  needs to end in a sound one.
- `SafeTaskManager_proofs`: `OneReceiver`, `TradesInOrder`,
  `EverySymbolHasOneWorker`, the types of the worker's variables, and the counters
  of the pools. `OneReceiver` needs `ReaderHasConnection`: the timer is armed only
  while the loop is in its `select` or on the way out of it, so that a dial never
  begins in the middle of an attempt, and between the dial and the end of the
  attempt a worker that has a reader has a connection. `ActiveTheorem`: the counter
  of a pool is the number of its loops that were entered and not left, so that a
  `Stop`, which waits for zero, returns only when none runs; a goroutine that was
  spawned and has not begun is not counted. `TradesInOrder` needs the order of
  everything between the reader and the delivery at once: what was delivered, the
  queue of trades, the queue of messages and the number of the last message read
  form one sequence that does not fall (`QueueIsOrdered`); a full queue cuts its
  end, which keeps the order. `EverySymbolHasOneWorker` is the arithmetic of
  `distributeSymbols` for every number of symbols and every chunk size: the chunks
  `(i-1)*size+1 .. i*size` cover the symbols and do not overlap (`SharesAreRight`),
  and a started pool has as many workers as chunks. Assumed (`WorkersOfPools`): the
  names of a pool's workers suffice for its chunks.
- `CircularTradeBuffer_proofs`: `ColdScanIsExact`, `OmitsOnlyUnrefreshed`,
  `OrderlyRestartKeepsTrades`, for any number of buckets and length of a second. Each
  trade is in the bucket of its second (`RingIsRight`); a scan that goes from second
  to second visits, of a range shorter than a turn, every bucket it needs
  (`ScanIsExact`, from lemmas about division: uniqueness and monotony of quotient and
  remainder). An entry of the hot cache has all that its snapshot had of the time
  it looks back (`EntryIsRight`), also after a restore, because the file is as good as
  the memory it was made from (`FileIsRight`); what is owed to the next start is in
  memory or in the file (`DebtIsRight`). Assumed (`HotAssumption`): a refresh looks
  back less than one turn of the ring, as 120 seconds are less than 1200.
- `UpbitMonitor_proofs`: `TriggeredOncePerRun`, `TornFileIsMended`,
  `FileNeverForgets`, for any notices, windows and savers. The first: once it is
  recorded a notice is `Settled`, and stays so, since the cleanup removes only
  records older than the retention, which is longer than the window
  (`AttemptsAreSettled`). The others are about the temporary file that savers share:
  between the truncation of a save and its end the read lock keeps the records as
  they are, so that what others wrote meanwhile is the same, and if the file is torn
  there is one that opened it and has yet to write (`TmpIsCurrent`); a rename hands
  that writer to the state file. That nothing is forgotten needs the memory to be
  ahead of the file (`FileIsBehind`). Assumed: `Window < Retention`.
- `ExtendedBuffer_proofs`: `RecentAnswersAreExact`, `KeptExactlyOnce`,
  `TimesOnlyMoveBack` and `ColdTradesStayInRange`, for any capacities, durations and
  limits of the codec, in layers. The codec: the base price of a trade depends on
  all trades before it in its block, so what the block becomes is proved by
  induction over its length (`SetInduction`, from the well-foundedness of `Nat`): if
  all prices are within a delta of each other the base is always a price of the
  block (`IsPartOfBase`), and a truncated difference is between nothing and the
  difference; each decoded trade has an original, and its time is at most that
  original's and at least the block's first (`CodedFrom`). A block (`BlockIsRight`)
  has its times, prices, quantities and symbols right *relative to the originals*,
  not to what it was decoded from: only so is it preserved when it is merged and
  compressed once more. The ring: no trade is in two slots (`RingIsRight`) and,
  until it has been full, the slots in use are those from the read to the write
  position (`RingIsExact`). On these rests the invariant `Inv` of the whole: ring,
  blocks and slice have no trade in common (`PlacesAreRight`); until something is at
  its limit a trade of the last two minutes is in the ring (`RecentsAreInRing`); and
  if besides all prices parse, none is missing (`NoneIsMissing`), from which the
  counts of `KeptExactlyOnce` follow by bijections. Assumed (`BufferAssumption`): a
  trade has a time after the clock's zero, and a cleared slot (Go's zero value) does
  not parse.

Only model-checked: all liveness (`CooldownIsAttempted`, `StopDrains`,
`EveryTradeIsCounted`, `CloseReturns`, `FoundIsAttempted`, `EveryStoreEnds`,
`TornIsMended`): liveness under fairness and `ENABLED` are out of this prover's reach.
Every safety invariant and every action property that a passing run checks is proved.
The library's induction theorems take an operator, which the provers cannot
instantiate; the inductions over data that the proofs need are therefore stated over
a *set* of naturals (`SetInduction`), and an existing order or fold is named by a
witness instead of being computed. No module uses `RECURSIVE`.

## 5. Not modelled

See the components of `PROJECT.json`. In the modelled ones: displayed statistics;
the dead batch path of the buffer; `InsertListingEvent`; the Go data races on
`lastSaveTime` and `closed` beyond the interleavings of the steps around them; a
call of `AddTrade` after `Close`, which panics.
A removal of a directory that fails half-way is taken to have removed nothing.
In the coordinator: `CreateBackup`, `RestoreFromBackup`, export and import (with
them the state space is a hundred times larger; a restore within the second of a
backup overwrites its own source), a second caller of `Start`, and two
synchronisations at once. Opening a temporary file and marshalling into it are one
step, as are the rename and the `Stat` after it. Of the extended buffer: the
manager's mode without the buffer, the time index of the ring (only
`FindByTimestamp`, which has no caller, reads it), and the binary layout; of the
safe manager: `StartDataCollection`, which hands over a request, and the health
score.
Not modelled at all, and why: the other connectors and the notice parser (parsing,
no protocol), the monitor's delay and performance analyzers and the benchmarks
(statistics that nothing reads back), the second Upbit monitor (constructed by
nothing), the hybrid manager, backups and TTL rotation (started by nothing;
planned).
The configuration of the storage is that of `config.yaml` (raw data, refined data
and analysis enabled); `MaxAnalysisDelay` is the time between two steps.

## 6. Plan

1. The shutdown of `EnhancedTaskManager` around the pools and the database
   (`AddTrade` after `Close`), as a composition of abstractions of both.
2. The older task manager; the connectors' subscriptions in chunks; the user
   analysis of the analyzer; backup and restore of the coordinator.
3. Hybrid manager, backups and TTL rotation.
