--------------------------- MODULE DeltaCompressor --------------------------
(***************************************************************************)
(* The codec of internal/buffer/delta_compressor.go. Trades carry their    *)
(* time in milliseconds; the codec divides by a million, as if it were     *)
(* nanoseconds, and so keeps times to a thousand seconds (TimeStep).       *)
(*                                                                         *)
(* Prices and quantities are integers in a part of a millionth, of which   *)
(* the codec keeps whole millionths. Of floating point there is the one    *)
(* effect that decides what is kept: a product that should be whole may    *)
(* come out just below it, 8.2 * 1000000 for one, and is truncated.        *)
(*                                                                         *)
(* Exchange, market and side survive as they are and are left out, and so  *)
(* is the binary layout. The rebase of the time is out of reach within one *)
(* block.                                                                  *)
(***************************************************************************)
EXTENDS Integers, Sequences, FiniteSets

CONSTANTS
  Invalid,       \* a price or quantity that does not parse
  TimeStep,      \* 1000000
  Millionth,     \* how many of the unit of prices and quantities are one
  MaxDelta,      \* math.MaxInt16, in millionths
  VolumeModulus, \* 2^32, in millionths
  SymbolIndices  \* 256

ASSUME CodecAssumption ==
  {TimeStep, Millionth, MaxDelta, VolumeModulus, SymbolIndices} \subseteq Nat \ {0}

Parsed(trade) == trade.price # Invalid /\ trade.quantity # Invalid

\* A difference fits 16 bits.
Fits(delta) == -(MaxDelta + 1) * Millionth <= delta /\ delta <= MaxDelta * Millionth

\* The conversion of a float to an integer number of millionths: towards zero,
\* from a product that may have come out short of a whole number.
Truncated(value, short) ==
  LET size  == IF value < 0 THEN -value ELSE value
      whole == size \div Millionth
      kept  == IF short /\ whole > 0 THEN whole - 1 ELSE whole
  IN IF value < 0 THEN -kept ELSE kept

\* dc.basePrice when the i-th trade has been handled: it jumps to a price that
\* is too far from it.
BasePrices(trades) ==
  LET base[i \in 0..Len(trades)] ==
        IF i = 0 THEN trades[1].price
        ELSE IF Parsed(trades[i]) /\ ~Fits(trades[i].price - base[i - 1])
             THEN trades[i].price ELSE base[i - 1]
  IN base

\* Mutant: the time that is kept is that of the following step.
TimeDelta_Ceiling(time, baseTime) == (time - baseTime) \div TimeStep + 1

TimeDelta(time, baseTime) == (time - baseTime) \div TimeStep

\* Mutant: the difference is taken from the price before.
PriceDelta_FromLast(trades, i, short) ==
  IF i = 1 \/ ~Parsed(trades[i - 1]) THEN 0
  ELSE Truncated(trades[i].price - trades[i - 1].price, short)

PriceDelta(trades, i, short) == Truncated(trades[i].price - BasePrices(trades)[i], short)

Volume(quantity, short) == Truncated(quantity, short) % VolumeModulus

\* The products that are whole, and may come out short: of the difference in price
\* of the i-th trade, and of its quantity.
WholeProducts(trades) ==
  LET Factor(i, field) == IF field = "price" THEN trades[i].price - BasePrices(trades)[i]
                          ELSE trades[i].quantity
      Whole(i, field)  == Factor(i, field) # 0 /\ Factor(i, field) % Millionth = 0
  IN {p \in (DOMAIN trades) \X {"price", "quantity"} : Parsed(trades[p[1]]) /\ Whole(p[1], p[2])}

\* createSymbolMapping: the indices follow the order of a map, any order, and
\* start again at zero after 256 symbols.
SymbolIndex(symbols, symbol) ==
  ((CHOOSE k \in DOMAIN symbols : symbols[k] = symbol) - 1) % SymbolIndices

\* Compress, for trades in order of time, when these products come out short. Only
\* the last base price is kept. A trade that does not parse leaves zeros.
Compress(trades, symbols, short) ==
  [basePrice |-> BasePrices(trades)[Len(trades)],
   baseTime  |-> trades[1].time,
   symbols   |-> symbols,
   items     |-> [i \in DOMAIN trades |->
     LET t == trades[i] IN
     [id     |-> t.id,
      price  |-> IF Parsed(t) THEN PriceDelta(trades, i, <<i, "price">> \in short) ELSE 0,
      time   |-> IF Parsed(t) THEN TimeDelta(t.time, trades[1].time) ELSE 0,
      volume |-> IF Parsed(t) THEN Volume(t.quantity, <<i, "quantity">> \in short) ELSE 0,
      symbol |-> SymbolIndex(symbols, t.symbol)]]]

Decompress(data) ==
  {[id       |-> item.id,
    price    |-> data.basePrice + item.price * Millionth,
    time     |-> data.baseTime + item.time * TimeStep,
    quantity |-> item.volume * Millionth,
    symbol   |-> data.symbols[item.symbol + 1]] :
     item \in {data.items[i] : i \in DOMAIN data.items}}
=============================================================================
