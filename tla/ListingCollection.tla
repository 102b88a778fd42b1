------------------------- MODULE ListingCollection -------------------------
(***************************************************************************)
(* From the detection of a listing to a collection of its trades:          *)
(* StartDataCollection of internal/websocket/enhanced_task_manager.go,     *)
(* called by the polling goroutine, asks the buffer for the trades of      *)
(* twelve markets, one after the other, while trades come in, the hot      *)
(* cache is refreshed and the buffer may be closed. What becomes of the    *)
(* collection is the matter of module EventStorage.                        *)
(*                                                                         *)
(* Of the buffer there is what TradeQuery promises about its queries and   *)
(* CircularTradeBuffer keeps: the trades it holds, and for each exchange   *)
(* the snapshot its hot cache was taken from. currentCollection is nil for *)
(* ever, nothing sets it, so no collection is refused.                     *)
(***************************************************************************)
EXTENDS Integers, SequencesExt

CONSTANTS
  Trades, TsOf, KeyOf,     \* trades: Timestamp, exchange key,
  SymbolOf,                \* and symbol as the exchange sends it: [base, form]
  Keys, ActiveKeys,        \* the markets, and those updateHotCache refreshes
  HotMs,                   \* how far back a refresh looks
  ExtractionOrder,         \* exchangeMarkets of StartDataCollection
  Listings,                \* notices of listings,
  CoinOf, TriggerOf,       \* their Symbol and TriggerTime
  WithS,                   \* WithS[c]: the coin whose name is S and then c's
  Window,                  \* the 20 seconds on either side
  None,
  MaxTime                  \* bound on the clock

VARIABLES
  now,        \* the clock
  held,       \* the trades in the buffer
  view,       \* per key None, or the snapshot behind its hot cache: [among, at]
  open,       \* the buffer is not closed
  running,    \* UpbitMonitor.Stop has not been called
  poll,       \* the polling goroutine: [at, of, todo, got]
  collected,  \* per listing None, or [data, time, open]: its collection, when the
              \* extraction ended, and whether the buffer was open then
  seen        \* history: per listing what of it could be found when it was detected

collectionVars == <<now, held, view, open, running, poll, collected, seen>>

INSTANCE TradeQuery

ASSUME CollectionAssumption ==
  /\ TsOf \in [Trades -> Nat] /\ KeyOf \in [Trades -> Keys] /\ ActiveKeys \subseteq Keys
  /\ SymbolOf \in [Trades -> [base : DOMAIN WithS, form : STRING]]
  /\ ExtractionOrder \in Seq(Keys) /\ Range(ExtractionOrder) = Keys
  /\ CoinOf \in [Listings -> DOMAIN WithS] /\ TriggerOf \in [Listings -> Nat]
  /\ HotMs \in Nat /\ Window \in Nat
  /\ None \notin [among : SUBSET Trades, at : Nat]

NoTrades      == [k \in Keys |-> {}]
PollAt(where) == [at |-> where, of |-> None, todo |-> <<>>, got |-> NoTrades]

CollectionInit ==
  /\ now = 0
  /\ held = {}
  /\ view = [k \in Keys |-> None]
  /\ open = TRUE
  /\ running = TRUE
  /\ poll = PollAt("idle")
  /\ collected = [l \in Listings |-> None]
  /\ seen = [l \in Listings |-> {}]

-----------------------------------------------------------------------------
(* The buffer *)

Tick ==
  /\ now < MaxTime
  /\ now' = now + 1
  /\ UNCHANGED <<held, view, open, running, poll, collected, seen>>

\* handleTradeEvent. A closed buffer takes no trade.
StoreTradeEvent(t) ==
  /\ open /\ t \notin held /\ TsOf[t] <= now
  /\ held' = held \union {t}
  /\ UNCHANGED <<now, view, open, running, poll, collected, seen>>

\* A refresh that began at some time since the one before, and with what the
\* buffer then held, ends. It renews the entry of an exchange that has a trade
\* in the time it looks back; trades stored since its beginning count or not.
Refresh ==
  /\ open
  /\ \E among \in SUBSET held, at \in 0..now, renewed \in SUBSET ActiveKeys :
       LET recent(trades, k) == \E t \in trades : KeyOf[t] = k /\ InRange(t, at - HotMs, at)
       IN  /\ \A t \in among : TsOf[t] <= at
           /\ \A k \in Keys : view[k] # None => view[k].among \subseteq among /\ view[k].at <= at
           /\ \A k \in ActiveKeys : recent(among, k) => k \in renewed
           /\ \A k \in renewed : recent(held, k)
           /\ view' = [k \in Keys |-> IF k \in renewed THEN [among |-> among, at |-> at]
                                      ELSE view[k]]
  /\ UNCHANGED <<now, held, open, running, poll, collected, seen>>

\* UpbitMonitor.Stop: no new poll. The one under way goes on.
StopMonitor ==
  /\ running
  /\ running' = FALSE
  /\ UNCHANGED <<now, held, view, open, poll, collected, seen>>

\* In EnhancedTaskManager.Stop, which nobody keeps from overtaking a poll.
CloseBuffer ==
  /\ ~running /\ open
  /\ open' = FALSE
  /\ UNCHANGED <<now, held, view, running, poll, collected, seen>>

-----------------------------------------------------------------------------
(* Symbols *)

\* normalizeSymbol takes the separators away. SWAP and M, the marks of two
\* exchanges' contracts, and Phemex's USD remain.
normalizeSymbol(s) ==
  [s EXCEPT !.form = CASE @ \in {"USDT", "-USDT", "_USDT"} -> "USDT"
                       [] @ = "-USDT-SWAP" -> "USDTSWAP"
                       [] OTHER -> @]

\* A pair with a leading S counts as Phemex's form of the coin without it.
IsTargetSymbol(coin, s) ==
  \/ s.base = coin /\ s.form \in {"", "USDT", "-USDT", "_USDT"}
  \/ s.base = WithS[coin] /\ s.form = "USDT"

IsTarget(l, t)     == IsTargetSymbol(CoinOf[l], normalizeSymbol(SymbolOf[t]))
Targets(l, trades) == {t \in trades : IsTarget(l, t)}

-----------------------------------------------------------------------------
(* The polling goroutine *)

PollBegin ==
  /\ running /\ poll.at = "idle"
  /\ poll' = PollAt("polling")
  /\ UNCHANGED <<now, held, view, open, running, collected, seen>>

PollEnd ==
  /\ poll.at = "polling"
  /\ poll' = PollAt("idle")
  /\ UNCHANGED <<now, held, view, open, running, collected, seen>>

\* Mutant: the window begins with the announcement.
StartTime_AtTrigger(l) == TriggerOf[l]

StartTime(l) == TriggerOf[l] - Window
EndTime(l)   == TriggerOf[l] + Window

HeldOf(key) == {t \in held : KeyOf[t] = key}

\* The 20 seconds before and the 20 seconds after, of the comments.
InWindow(l, t) == TsOf[t] \in (TriggerOf[l] - Window)..(TriggerOf[l] + Window)

\* A trade of the listed coin, whatever its form, from the 20 seconds.
OfListing(l, t) == SymbolOf[t].base = CoinOf[l] /\ InWindow(l, t)

\* Those of them that can be found now: of the markets that are never cached the
\* ones in the buffer, of the others those a finished refresh has seen.
Visible(l) ==
  {t \in held :
     /\ OfListing(l, t)
     /\ KeyOf[t] \in ActiveKeys => view[KeyOf[t]] # None /\ t \in view[KeyOf[t]].among}

\* handleListingEvent, up to the loop of StartDataCollection. Each notice is
\* handled once (module UpbitMonitor).
Detect(l) ==
  /\ poll.at = "polling" /\ collected[l] = None /\ TriggerOf[l] <= now
  /\ poll' = [at |-> "extracting", of |-> l, todo |-> ExtractionOrder, got |-> NoTrades]
  /\ seen' = [seen EXCEPT ![l] = Visible(l)]
  /\ UNCHANGED <<now, held, view, open, running, collected>>

\* Mutant: the trades are not tested for the symbol.
Extract_AnySymbol ==
  /\ poll.at = "extracting" /\ poll.todo # <<>>
  /\ LET l   == poll.of
         key == Head(poll.todo)
     IN  \E trades \in (IF open THEN Answers(HeldOf(key), view[key], StartTime(l), EndTime(l))
                        ELSE {{}}) :
           poll' = [poll EXCEPT !.todo = Tail(@), !.got[key] = trades]
  /\ UNCHANGED <<now, held, view, open, running, collected, seen>>

\* GetTradeEvents of one market, and AddTradeFromBuffer of its target trades. A
\* closed buffer answers with an error, which is logged.
Extract ==
  /\ poll.at = "extracting" /\ poll.todo # <<>>
  /\ LET l   == poll.of
         key == Head(poll.todo)
     IN  \E trades \in (IF open THEN Answers(HeldOf(key), view[key], StartTime(l), EndTime(l))
                        ELSE {{}}) :
           poll' = [poll EXCEPT !.todo = Tail(@), !.got[key] = Targets(l, trades)]
  /\ UNCHANGED <<now, held, view, open, running, collected, seen>>

\* The collection is handed over to a goroutine; StartDataCollection succeeds.
ExtractEnd ==
  /\ poll.at = "extracting" /\ poll.todo = <<>>
  /\ collected' = [collected EXCEPT ![poll.of] = [data |-> poll.got, time |-> now, open |-> open]]
  /\ poll' = PollAt("polling")
  /\ UNCHANGED <<now, held, view, open, running, seen>>

-----------------------------------------------------------------------------
CollectionNext ==
  \/ Tick
  \/ \E t \in Trades : StoreTradeEvent(t)
  \/ Refresh
  \/ StopMonitor
  \/ CloseBuffer
  \/ PollBegin
  \/ PollEnd
  \/ \E l \in Listings : Detect(l)
  \/ Extract
  \/ ExtractEnd

CollectionSpec == CollectionInit /\ [][CollectionNext]_collectionVars

-----------------------------------------------------------------------------
\* The hot cache of a market may no longer reach back to the beginning of the
\* window when the extraction ends.
TooLate(l, key) == key \in ActiveKeys /\ collected[l].time - HotMs > TriggerOf[l] - Window

\* How far the collection falls short of the 20 seconds on either side. A trade of
\* the listed coin and of the window that reached the buffer is missing from the
\* collection for one of these reasons only: it came, or its market's cache was
\* refreshed, after the notice had been detected; its symbol is one of a contract
\* that IsTargetSymbol does not know; the shutdown had closed the buffer; or the
\* extraction ended more than 100 seconds after the announcement, and a cached
\* market no longer looked back that far. Refreshes and stores that go on during
\* the extraction are no reason.
MissedHasAReason ==
  \A l \in Listings : collected[l] # None =>
    \A t \in held :
      /\ OfListing(l, t)
      /\ t \notin collected[l].data[KeyOf[t]]
      => \/ t \notin seen[l]
         \/ ~IsTarget(l, t)
         \/ ~collected[l].open
         \/ TooLate(l, KeyOf[t])

\* Nothing gets into a collection but trades of the market they are filed under,
\* from within the 20 seconds, of the listed coin - and of one other coin, that
\* with its name behind an S, which IsTargetSymbol cannot tell from Phemex's form.
CollectedTradesBelong ==
  \A l \in Listings : collected[l] # None =>
    \A k \in Keys : \A t \in collected[l].data[k] :
      /\ KeyOf[t] = k /\ t \in held
      /\ InWindow(l, t)
      /\ SymbolOf[t].base \in {CoinOf[l], WithS[CoinOf[l]]}
=============================================================================
