---------------------------- MODULE PumpAnalyzer ----------------------------
(***************************************************************************)
(* AnalyzePumps of internal/analyzer/pump_analyzer.go: the trades of each  *)
(* market are sorted, cut into windows, and a window in which the price    *)
(* varies enough is a pump.                                                *)
(*                                                                         *)
(* A trade is a name with a timestamp and a price, None when it does not   *)
(* parse. Prices are naturals; a change in percent is compared without a   *)
(* division. Volumes and the other totals are left out.                    *)
(***************************************************************************)
EXTENDS Integers, FiniteSets, SequencesExt

CONSTANTS
  Trades, TsOf, PriceOf,   \* the trades, their Timestamp and Price
  AnalysisOrder,           \* exchangeMarkets of AnalyzePumps, a sequence
  TimeWindowSize,          \* timeWindowSize, in the units of TsOf
  MinTradesRequired,       \* minTradesRequired
  MinPumpPercentage,       \* minPumpPercentage
  None

\* What the parameters may be; an assumption of the modules that use this one.
ParametersOK ==
  /\ TimeWindowSize \in Nat \ {0} /\ MinPumpPercentage \in Nat
  /\ MinTradesRequired \in Nat \ {0}
  /\ TsOf \in [Trades -> Nat] /\ PriceOf \in [Trades -> Nat \union {None}]
  /\ AnalysisOrder \in Seq(Range(AnalysisOrder))

\* sort.Slice by timestamp; it leaves trades of one timestamp in any order,
\* which no operator below depends on.
SortedByTime(trades) ==
  CHOOSE s \in SetToSeqs(trades) : \A i, j \in DOMAIN s : i < j => TsOf[s[i]] <= TsOf[s[j]]

-----------------------------------------------------------------------------
(* One market *)

\* Mutant: a trade at the end of a window still belongs to it.
AddToWindows_EndInclusive(windows, t) ==
  IF windows = <<>> \/ TsOf[t] > Last(windows).start + TimeWindowSize
    THEN Append(windows, [start  |-> (TsOf[t] \div TimeWindowSize) * TimeWindowSize,
                          trades |-> {t}])
    ELSE [windows EXCEPT ![Len(windows)].trades = @ \union {t}]

\* One turn of the loop: a trade at or after the end of the current window
\* opens a new one, aligned to a multiple of the size.
AddToWindows(windows, t) ==
  IF windows = <<>> \/ TsOf[t] >= Last(windows).start + TimeWindowSize
    THEN Append(windows, [start  |-> (TsOf[t] \div TimeWindowSize) * TimeWindowSize,
                          trades |-> {t}])
    ELSE [windows EXCEPT ![Len(windows)].trades = @ \union {t}]

createTimeWindows(trades) == FoldLeft(AddToWindows, <<>>, trades)

\* The change from low to high reaches the threshold.
Steep(low, high) == (high - low) * 100 >= MinPumpPercentage * low

Prices(trades) == {PriceOf[t] : t \in {u \in trades : PriceOf[u] # None}}

\* Mutant: the window needs more trades than minTradesRequired.
PumpIn_MoreTrades(window) ==
  /\ Cardinality(window.trades) > MinTradesRequired
  /\ Prices(window.trades) # {}
  /\ Min(Prices(window.trades)) > 0
  /\ Steep(Min(Prices(window.trades)), Max(Prices(window.trades)))

\* Neither early return of analyzeTimeWindow is taken.
PumpIn(window) ==
  /\ Cardinality(window.trades) >= MinTradesRequired
  /\ Prices(window.trades) # {}
  /\ Min(Prices(window.trades)) > 0
  /\ Steep(Min(Prices(window.trades)), Max(Prices(window.trades)))

analyzeTimeWindow(market, window) ==
  [market |-> market, start |-> window.start, end |-> window.start + TimeWindowSize,
   low  |-> Min(Prices(window.trades)), high |-> Max(Prices(window.trades))]

\* The pump events of one market, in the order of time.
analyzeExchangeMarket(market, trades) ==
  LET add(pumps, window) ==
        IF PumpIn(window) THEN Append(pumps, analyzeTimeWindow(market, window)) ELSE pumps
  IN  IF Cardinality(trades) < MinTradesRequired THEN <<>>
      ELSE FoldLeft(add, <<>>, createTimeWindows(SortedByTime(trades)))

-----------------------------------------------------------------------------
(* All markets *)

\* The loop compares each pump with the first of the list, not with the
\* earliest it has seen: the last one before the first of the list is kept.
FirstPumpExchange(pumps) ==
  pumps[Max({i \in DOMAIN pumps : i = 1 \/ pumps[i].start < pumps[1].start})].market

Starts(pumps) == {pumps[i].start : i \in DOMAIN pumps}
Ends(pumps)   == {pumps[i].end : i \in DOMAIN pumps}

\* The pump with the maximal change stands for MaxPriceChange.
generateAnalysisSummary(pumps) ==
  IF pumps = <<>> THEN [exchanges |-> {}, first |-> None, steepest |-> None, duration |-> 0]
  ELSE [exchanges |-> {pumps[i].market : i \in DOMAIN pumps},
        first     |-> FirstPumpExchange(pumps),
        steepest  |-> CHOOSE p \in Range(pumps) : \A q \in Range(pumps) :
                        (p.high - p.low) * q.low >= (q.high - q.low) * p.low,
        duration  |-> Max(Ends(pumps)) - Min(Starts(pumps))]

\* The pumps of all markets, one market after the other; collected[m] is the
\* set of trades of market m.
PumpsOf(collected) ==
  FoldLeft(LAMBDA pumps, m : pumps \o analyzeExchangeMarket(m, collected[m]),
           <<>>, AnalysisOrder)

\* Markets without a pump have no ExchangeResult.
AnalyzePumps(collected) ==
  LET pumps == PumpsOf(collected)
  IN  [pumps |-> pumps, summary |-> generateAnalysisSummary(pumps)]
=============================================================================
