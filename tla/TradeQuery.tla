----------------------------- MODULE TradeQuery -----------------------------
(***************************************************************************)
(* What a query of the buffer may answer: the contract between             *)
(* CircularTradeBuffer, which is checked to keep it, and ListingCollection, *)
(* which relies on nothing else.                                           *)
(***************************************************************************)
EXTENDS Integers

CONSTANTS TsOf,   \* Timestamp of a trade
          HotMs,  \* how far back a refresh of the hot cache looks
          None

InRange(t, start, end) == TsOf[t] >= start /\ TsOf[t] <= end

\* trades are those the buffer holds of one exchange; view is None for an
\* exchange without an entry in the hot cache, else when the entry was taken
\* (at) and what the buffer then held (among). An answer has no trade out of
\* the range, and leaves out only what the refresh cannot have seen: stored
\* since, or outside the time it looks back.
IsAnswer(answer, trades, view, start, end) ==
  LET wanted == {t \in trades : InRange(t, start, end)}
  IN  /\ answer \subseteq wanted
      /\ \A t \in wanted \ answer :
           /\ view # None
           /\ t \notin view.among \/ ~InRange(t, view.at - HotMs, view.at)

Answers(trades, view, start, end) ==
  {answer \in SUBSET trades : IsAnswer(answer, trades, view, start, end)}
=============================================================================
