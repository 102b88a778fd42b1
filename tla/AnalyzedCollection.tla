------------------------- MODULE AnalyzedCollection -------------------------
(***************************************************************************)
(* What the analyzer makes of a collection of trades, for every collection *)
(* of a given set: what internal/models/collection_event.go builds up is   *)
(* for each market any set of trades.                                      *)
(***************************************************************************)
EXTENDS PumpAnalyzer

CONSTANT Analyzed         \* the collections: per market a set of trades

ASSUME AnalyzerAssumption ==
  /\ ParametersOK
  /\ \A collected \in Analyzed :
       /\ collected \in [Range(AnalysisOrder) -> SUBSET Trades]
       /\ \A m \in Range(AnalysisOrder) : IsFiniteSet(collected[m])

Second(t) == TsOf[t] \div TimeWindowSize

\* Every trade of a market is in exactly one window of createTimeWindows, the
\* windows are the seconds of the clock that have trades, in the order of time,
\* however long the gaps between them.
AreWindows(collected) ==
  \A m \in Range(AnalysisOrder) :
    LET trades  == collected[m]
        windows == createTimeWindows(SortedByTime(trades))
    IN  /\ {windows[i].trades : i \in DOMAIN windows}
             = {{t \in trades : Second(t) = Second(u)} : u \in trades}
        /\ \A i \in DOMAIN windows : \A t \in windows[i].trades :
             Second(t) * TimeWindowSize = windows[i].start
        /\ \A i, j \in DOMAIN windows : i < j => windows[i].start < windows[j].start

Crowded(t, trades) == Cardinality({u \in trades : Second(u) = Second(t)}) >= MinTradesRequired

Priced(trades) == {t \in trades : PriceOf[t] # None}

\* Neither a rise is missed nor an alarm raised over a calm second. Whenever a
\* trade is followed within its second, in its market, by one that is dearer by
\* MinPumpPercentage, the result has a pump of that market and second - if the
\* second has enough trades and no price of zero -, and where it has one some two
\* prices are that far apart. (Which of the two came first is not said: the code
\* does not look.)
HasTheRises(result, collected) ==
  \A m \in Range(AnalysisOrder) :
    LET priced   == Priced(collected[m])
        pumps    == result.pumps
        reported == {pumps[i].start : i \in {j \in DOMAIN pumps : pumps[j].market = m}}
        together(t, u) == Second(t) = Second(u)
    IN  /\ \A t, u \in priced :
             /\ together(t, u) /\ TsOf[t] <= TsOf[u] /\ Steep(PriceOf[t], PriceOf[u])
             /\ Crowded(t, collected[m])
             /\ \A v \in priced : together(v, t) => PriceOf[v] # 0
             => Second(t) * TimeWindowSize \in reported
        /\ \A start \in reported : \E t, u \in priced :
             /\ together(t, u) /\ Second(t) * TimeWindowSize = start
             /\ Steep(PriceOf[t], PriceOf[u])

EveryCollectionHasWindows == \A collected \in Analyzed : AreWindows(collected)

EveryRiseIsFound ==
  \A collected \in Analyzed : HasTheRises(AnalyzePumps(collected), collected)
=============================================================================
