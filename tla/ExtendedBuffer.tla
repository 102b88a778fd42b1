--------------------------- MODULE ExtendedBuffer ---------------------------
(***************************************************************************)
(* internal/buffer/extended_buffer.go and the BufferManager in front of it *)
(* (buffer_manager.go), for one market: a hot ring for the last two        *)
(* minutes, the compressed blocks behind it, and the slice the manager     *)
(* falls back to. Every operation holds the buffer's mutex from its first  *)
(* line to its last, so each is one step.                                  *)
(***************************************************************************)
EXTENDS CircularBuffer, CompressedRing

CONSTANTS
  Kinds,        \* bound: [key, price, quantity, symbol, lag] of the trades that
                \* may come, lag being how old they are when they are stored
  HotDuration,  \* two minutes
  LegacyCap,    \* maxLegacySize, 100000
  RemoveCount,  \* a tenth of it
  StartTime,    \* bound: when the buffer is made
  MaxClock,     \* bound
  MaxTrades     \* bound

\* No trade is as old as the clock, and what a cleared slot holds does not parse.
ASSUME BufferAssumption ==
  /\ Invalid \notin Int
  /\ \A k \in Kinds :
       /\ k.key \in {"known", "unknown"} /\ k.lag \in 0..StartTime - 1
       /\ k.price \in Int \cup {Invalid} /\ k.quantity \in Nat \cup {Invalid}
  /\ NoTrade.id = 0 /\ NoTrade.time = 0 /\ NoTrade.price = Invalid
  /\ {HotDuration, LegacyCap, StartTime, MaxClock, MaxTrades} \subseteq Nat
  /\ RemoveCount \in 1..LegacyCap

VARIABLES
  clock,
  hot,        \* hotBuffers[key]
  cold,       \* coldBuffers[key]
  legacy,     \* legacyBuffers, of all keys together
  hung,       \* a closer waits for the ring's mutex, which it holds itself
  stored,     \* the trades handed in, as they were
  overflowed  \* the ring, or the slice, has been at its limit

vars == <<clock, hot, cold, legacy, hung, stored, overflowed>>

Init ==
  /\ clock = StartTime
  /\ hot = EmptyRing
  /\ cold = EmptyBlocks
  /\ legacy = <<>>
  /\ hung = FALSE
  /\ stored = {}
  /\ overflowed = FALSE

hotStart == clock - HotDuration

-----------------------------------------------------------------------------

Tick ==
  /\ clock < MaxClock
  /\ ~hung   \* nothing could be seen of it afterwards
  /\ clock' = clock + 1
  /\ UNCHANGED <<hot, cold, legacy, hung, stored, overflowed>>

storeInLegacyBuffer(trade) ==
  /\ legacy' = Append(IF Len(legacy) >= LegacyCap
                      THEN SubSeq(legacy, RemoveCount + 1, Len(legacy)) ELSE legacy, trade)
  /\ overflowed' = (overflowed \/ Len(legacy) >= LegacyCap)
  /\ UNCHANGED hot

\* age <= hotDuration
storeInHotBuffer(trade) ==
  /\ trade.time >= hotStart
  /\ hot' = Store(hot, trade)
  /\ overflowed' = (overflowed \/ hot'.full)
  /\ UNCHANGED <<cold, legacy>>

\* A trade the block refuses goes to the manager's slice.
moveToColdbuffer(trade) ==
  /\ trade.time < hotStart
  /\ \E r \in ColdStore(cold, trade) :
       /\ cold' = r.blocks
       /\ IF r.ok THEN UNCHANGED <<hot, legacy, overflowed>>
                  ELSE storeInLegacyBuffer(trade)

\* BufferManager.StoreTradeEvent: the extended buffer has a ring for each known
\* market, and refuses the others.
StoreTradeEvent(kind) ==
  LET trade == [id |-> Cardinality(stored) + 1, time |-> clock - kind.lag, price |-> kind.price,
                quantity |-> kind.quantity, symbol |-> kind.symbol]
  IN /\ ~hung
     /\ Cardinality(stored) < MaxTrades
     /\ stored' = stored \cup {[key |-> kind.key, trade |-> trade]}
     /\ IF kind.key = "known"
        THEN storeInHotBuffer(trade) \/ moveToColdbuffer(trade)
        ELSE storeInLegacyBuffer(trade) /\ UNCHANGED cold
     /\ UNCHANGED <<clock, hung>>

\* Every 30 seconds. The error of CompressAndStore is ignored.
performMaintenance ==
  /\ ~hung
  /\ hot' = Remaining(hot, hotStart)
  /\ cold' \in IF Extracted(hot, hotStart) = {} THEN {cold}
               ELSE CompressAndStore(cold, Extracted(hot, hotStart))
  /\ UNCHANGED <<clock, legacy, hung, stored, overflowed>>

\* Close of the manager, and EnableExtendedBuffer(false): both close the
\* buffer, whose first ring locks its mutex and then calls Clear, which locks
\* it again. The buffer's and the manager's mutexes stay locked, so the slice
\* never takes the buffer's place.
Close ==
  /\ ~hung
  /\ hung' = TRUE
  /\ UNCHANGED <<clock, hot, cold, legacy, stored, overflowed>>

Next ==
  \/ Tick
  \/ \E k \in Kinds : StoreTradeEvent(k)
  \/ performMaintenance
  \/ Close

Spec == Init /\ [][Next]_vars

-----------------------------------------------------------------------------
(* The queries, which change nothing but the statistics *)

Latest(a, b)   == IF a > b THEN a ELSE b
Earliest(a, b) == IF a < b THEN a ELSE b

GetTradeEvents(start, end) ==
  (IF end > hotStart THEN HotRange(hot, Latest(start, hotStart), end) ELSE {}) \cup
  (IF start < hotStart THEN ColdRange(cold, start, Earliest(end, hotStart)) ELSE {})

-----------------------------------------------------------------------------
(* Properties *)

Known == {s.trade : s \in {x \in stored : x.key = "known"}}

InRing == {t \in {hot.data[At(hot, i)] : i \in 0..hot.size - 1} : t # NoTrade}

InBlocks == UNION {cold[b] : b \in DOMAIN cold}

Original(id) == CHOOSE t \in {s.trade : s \in stored} : t.id = id

\* A query for the last two minutes - what a listing's collection asks for -
\* returns exactly the trades stored in its range, however stores, late trades
\* and the moves to the cold blocks alternate, until the ring becomes full.
RecentAnswersAreExact ==
  ~overflowed =>
    \A start \in hotStart..clock : \A end \in start..clock :
      end > hotStart => GetTradeEvents(start, end) = {t \in Known : start <= t.time /\ t.time <= end}

\* Through late arrivals, moves, merges and refusals every trade is in exactly
\* one place, once, as long as prices parse and nothing was at its limit. (A
\* batch whose first price does not parse is lost: its error is ignored.) A
\* trade that was moved is never also answered from the ring, whatever else.
KeptExactlyOnce ==
  /\ {t.id : t \in InRing} \cap {t.id : t \in InBlocks} = {}
  /\ ~overflowed /\ (\A s \in stored : s.trade.price # Invalid) =>
       /\ Cardinality(InRing) + Cardinality(InBlocks) + Len(legacy) = Cardinality(stored)
       /\ hot.size = Cardinality(InRing)
       /\ {t.id : t \in InRing \cup InBlocks \cup ToSet(legacy)} = {s.trade.id : s \in stored}

\* The codec moves the time of a trade back, over and over as its block is
\* compressed again, but never forward and never before the block's oldest:
\* no cold answer shows a trade before some trade was made, or in the future.
TimesOnlyMoveBack ==
  \A b \in DOMAIN cold : \A t \in cold[b] :
    /\ t.time <= Original(t.id).time
    /\ \E o \in cold[b] : Original(o.id).time <= t.time

\* What is left of a trade however often its block is compressed again: each time
\* its price may move towards the base price, but not past it, so it stays among
\* the prices of the block - if all of them lie within one delta of each other -,
\* its quantity never grows, and its symbol survives if the block has no more
\* than fit the index. Prices and quantities themselves do not survive.
ColdTradesStayInRange ==
  \A b \in DOMAIN cold :
    LET originals == {Original(t.id) : t \in cold[b]} IN
    (\A s \in stored : Parsed(s.trade)) =>
      /\ (\A s, o \in originals : Fits(s.price - o.price)) =>
           \A t \in cold[b] : \E s, o \in originals : s.price <= t.price /\ t.price <= o.price
      /\ \A t \in cold[b] : t.quantity <= Original(t.id).quantity
      /\ Cardinality(Symbols(originals)) <= SymbolIndices =>
           \A t \in cold[b] : t.symbol = Original(t.id).symbol
=============================================================================
