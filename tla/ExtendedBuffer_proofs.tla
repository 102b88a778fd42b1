------------------------ MODULE ExtendedBuffer_proofs -------------------------
(***************************************************************************)
(* The extended buffer, for any capacities, durations, codec limits and    *)
(* kinds of trades: recent answers are exact, every trade is kept once,    *)
(* and what comes out of the cold blocks stays in the range of what went   *)
(* in, however often a block is merged, truncated and compressed           *)
(* again. The proof goes up in layers: the codec (the base price of a      *)
(* trade depends on all before it in its block), a block, all blocks, the  *)
(* ring, the slice, and then the invariant that the places these keep have *)
(* no trade in common and, until one is at its limit, all trades.          *)
(***************************************************************************)
EXTENDS ExtendedBuffer, FiniteSetTheorems, SequenceTheorems, TLAPS

-----------------------------------------------------------------------------
(* Induction, for sets of naturals *)

LEMMA LeastOfNaturals ==
  ASSUME NEW S \in SUBSET Nat, S # {}
  PROVE  \E n \in S : \A m \in S : n <= m
<1>1. IsWellFoundedOn(OpToRel(<, Nat), Nat)
  BY NatLessThanWellFounded
<1>2. PICK n \in S : \A m \in S : ~ (<<m, n>> \in OpToRel(<, Nat))
  BY <1>1, WFMin, Zenon
<1>3. \A m \in S : ~ (m < n)
  BY <1>2 DEF OpToRel
<1> QED
  BY <1>3

LEMMA SetInduction ==
  ASSUME NEW S, 0 \in S, \A n \in Nat : n \in S => n + 1 \in S
  PROVE  Nat \subseteq S
<1> SUFFICES ASSUME Nat \ S # {} PROVE FALSE
  OBVIOUS
<1>1. PICK n \in Nat \ S : \A m \in Nat \ S : n <= m
  BY LeastOfNaturals
<1>2. n - 1 \in Nat /\ n - 1 \in S
  BY <1>1
<1> QED
  BY <1>1, <1>2

LEMMA MaxOfBounded ==
  ASSUME NEW n \in Nat, NEW S \in SUBSET (0..n), S # {}
  PROVE  Max(S) \in S /\ \A x \in S : x <= Max(S)
<1> DEFINE T == {m \in 0..n : n - m \in S}
<1>1. T \in SUBSET Nat /\ T # {}
  <2>1. PICK x \in S : TRUE
    OBVIOUS
  <2>2. n - x \in 0..n /\ n - (n - x) = x
    OBVIOUS
  <2>3. n - x \in T
    BY <2>1, <2>2
  <2>4. T \subseteq Nat
    OBVIOUS
  <2> QED
    BY <2>3, <2>4
<1>2. PICK m \in T : \A k \in T : m <= k
  BY <1>1, LeastOfNaturals
<1>3. n - m \in S /\ \A x \in S : n - m >= x
  <2>1. ASSUME NEW x \in S
        PROVE  n - m >= x
    <3>1. n - x \in 0..n /\ n - (n - x) = x
      OBVIOUS
    <3>2. m <= n - x
      BY <1>2, <3>1
    <3> QED
      BY <1>2, <3>2
  <2> QED
    BY <1>2, <2>1
<1>4. Max(S) \in S /\ \A x \in S : Max(S) >= x
  BY <1>3 DEF Max
<1> QED
  BY <1>4

-----------------------------------------------------------------------------
(* The codec *)

IdsOf(S) == {t.id : t \in S}
UniqueIds(S) == \A t, u \in S : t.id = u.id => t = u

IsTrade(t) ==
  /\ t.time \in Nat \ {0}
  /\ t.price \in Int \union {Invalid} /\ t.quantity \in Nat \union {Invalid}

\* All are near each other.
CloseTo(S) == \A t, u \in S : Parsed(t) /\ Fits(t.price - u.price)

\* A permutation of a set has all its members.
LEMMA Permutation ==
  ASSUME NEW S, IsFiniteSet(S), NEW s \in SetToSeqs(S)
  PROVE  /\ Cardinality(S) \in Nat /\ s \in [1..Cardinality(S) -> S] /\ s \in Seq(S)
         /\ Len(s) = Cardinality(S) /\ DOMAIN s = 1..Len(s)
         /\ \A i, j \in 1..Len(s) : s[i] = s[j] => i = j
         /\ \A x \in S : \E i \in 1..Len(s) : s[i] = x
<1> DEFINE n == Cardinality(S)
<1>1. n \in Nat
  BY FS_CardinalityType
<1>2. s \in [1..n -> S] /\ \A i, j \in 1..n : i # j => s[i] # s[j]
  BY DEF SetToSeqs
<1>3. s \in Seq(S) /\ Len(s) = n /\ DOMAIN s = 1..n
  BY <1>1, <1>2
<1>4. IsFiniteSet(1..n) /\ Cardinality(1..n) = n
  BY <1>1, FS_Interval
<1>5. s \in Injection(1..n, S)
  BY <1>2 DEF Injection, IsInjective
<1>6. s \in Surjection(1..n, S)
  BY <1>4, <1>5, FS_Injection
<1> QED
  BY <1>1, <1>2, <1>3, <1>6 DEF Surjection

\* The base prices of a block whose first price parses are numbers.
IsBase(base, s) ==
  base = [i \in 0..Len(s) |->
    IF i = 0 THEN s[1].price
    ELSE IF Parsed(s[i]) /\ ~Fits(s[i].price - base[i - 1]) THEN s[i].price ELSE base[i - 1]]

NextBase(s, i, b) == IF Parsed(s[i]) /\ ~Fits(s[i].price - b) THEN s[i].price ELSE b

\* The base prices of the first n trades.
IsPartOfBase(f, s, n) ==
  /\ f = [i \in 0..n |-> f[i]] /\ f[0] = s[1].price
  /\ \A i \in 1..n : f[i] = NextBase(s, i, f[i - 1])

LEMMA BaseExists ==
  ASSUME NEW s, Len(s) \in Nat
  PROVE  \E base : IsBase(base, s)
<1> DEFINE E == {n \in Nat : \E f : IsPartOfBase(f, s, n)}
<1>1. 0 \in E
  <2>1. PICK f : f = [i \in 0..0 |-> s[1].price]
    OBVIOUS
  <2>2. f[0] = s[1].price /\ f = [i \in 0..0 |-> f[i]]
    BY <2>1
  <2>3. IsPartOfBase(f, s, 0)
    BY <2>2 DEF IsPartOfBase
  <2> QED
    BY <2>3
<1>2. ASSUME NEW n \in Nat, n \in E
      PROVE  n + 1 \in E
  <2>1. PICK f : IsPartOfBase(f, s, n)
    BY <1>2
  <2>2. PICK g : g = [i \in 0..(n + 1) |-> IF i = n + 1 THEN NextBase(s, n + 1, f[n]) ELSE f[i]]
    OBVIOUS
  <2>3. g[0] = f[0] /\ g[n + 1] = NextBase(s, n + 1, f[n]) /\ \A i \in 0..n : g[i] = f[i]
    BY <2>2
  <2>4. g = [i \in 0..(n + 1) |-> g[i]]
    BY <2>2
  <2>5. ASSUME NEW i \in 1..(n + 1)
        PROVE  g[i] = NextBase(s, i, g[i - 1])
    <3>1. CASE i = n + 1
      BY <2>3, <3>1
    <3>2. CASE i # n + 1
      <4>1. i \in 1..n /\ i \in 0..n /\ i - 1 \in 0..n
        BY <3>2
      <4>2. f[i] = NextBase(s, i, f[i - 1])
        BY <2>1, <4>1 DEF IsPartOfBase
      <4>3. g[i] = f[i] /\ g[i - 1] = f[i - 1]
        BY <2>3, <4>1
      <4> QED
        BY <4>2, <4>3
    <3> QED
      BY <3>1, <3>2
  <2>6. IsPartOfBase(g, s, n + 1)
    BY <2>1, <2>3, <2>4, <2>5 DEF IsPartOfBase
  <2> QED
    BY <2>6
<1>3. Len(s) \in E
  <2> HIDE DEF E
  <2> QED
    BY <1>1, <1>2, SetInduction
<1>4. PICK f : IsPartOfBase(f, s, Len(s))
  BY <1>3
<1>5. f = [i \in 0..Len(s) |->
    IF i = 0 THEN s[1].price
    ELSE IF Parsed(s[i]) /\ ~Fits(s[i].price - f[i - 1]) THEN s[i].price ELSE f[i - 1]]
  <2>1. \A i \in 0..Len(s) : i # 0 => i \in 1..Len(s)
    OBVIOUS
  <2>2. \A i \in 0..Len(s) : f[i] = IF i = 0 THEN s[1].price ELSE NextBase(s, i, f[i - 1])
    BY <1>4, <2>1 DEF IsPartOfBase
  <2>3. f = [i \in 0..Len(s) |-> f[i]]
    BY <1>4 DEF IsPartOfBase
  <2> QED
    BY <2>2, <2>3 DEF NextBase
<1> QED
  BY <1>5 DEF IsBase

LEMMA BaseIsBase ==
  ASSUME NEW s, Len(s) \in Nat
  PROVE  IsBase(BasePrices(s), s)
<1>1. \E base : IsBase(base, s)
  BY BaseExists
<1> QED
  BY <1>1 DEF IsBase, BasePrices

\* The base price stays a number, and where it is when no trade is far from the
\* others.
LEMMA BaseIsNumber ==
  ASSUME NEW s, Len(s) \in Nat, s[1].price \in Int,
         \A i \in 1..Len(s) : s[i].price \in Int \union {Invalid}
  PROVE  /\ \A i \in 0..Len(s) : BasePrices(s)[i] \in Int
         /\ (\A i \in 1..Len(s) : Parsed(s[i]) /\ Fits(s[i].price - s[1].price)) =>
              \A i \in 0..Len(s) : BasePrices(s)[i] = s[1].price
<1>1. PICK base : base = BasePrices(s)
  OBVIOUS
<1>2. /\ base[0] = s[1].price
      /\ \A i \in 1..Len(s) : base[i] = NextBase(s, i, base[i - 1])
  BY <1>1, BaseIsBase DEF IsBase, NextBase
<1>3. \A i \in 0..Len(s) : base[i] \in Int
  <2> DEFINE E == {i \in Nat : i <= Len(s) => base[i] \in Int}
  <2>1. 0 \in E
    BY <1>2
  <2>2. ASSUME NEW i \in Nat, i \in E
        PROVE  i + 1 \in E
    BY <1>2, <2>2 DEF NextBase, Parsed
  <2>3. Nat \subseteq E
    <3> HIDE DEF E
    <3> QED
      BY <2>1, <2>2, SetInduction
  <2> QED
    BY <2>3
<1>4. ASSUME \A i \in 1..Len(s) : Parsed(s[i]) /\ Fits(s[i].price - s[1].price)
      PROVE  \A i \in 0..Len(s) : base[i] = s[1].price
  <2> DEFINE E == {i \in Nat : i <= Len(s) => base[i] = s[1].price}
  <2>1. 0 \in E
    BY <1>2
  <2>2. ASSUME NEW i \in Nat, i \in E
        PROVE  i + 1 \in E
    BY <1>2, <1>4, <2>2 DEF NextBase
  <2>3. Nat \subseteq E
    <3> HIDE DEF E
    <3> QED
      BY <2>1, <2>2, SetInduction
  <2> QED
    BY <2>3
<1> QED
  BY <1>1, <1>3, <1>4

\* Trades in order of time: the first is the oldest.
LEMMA FirstIsOldest ==
  ASSUME NEW S, IsFiniteSet(S), \A t \in S : t.time \in Nat, NEW s \in InTimeOrder(S)
  PROVE  \A i \in 1..Len(s) : s[1].time <= s[i].time
<1> DEFINE E == {i \in Nat : i + 1 <= Len(s) => s[1].time <= s[i + 1].time}
<1>1. /\ s \in SetToSeqs(S) /\ \A i \in 1..Len(s) - 1 : s[i].time <= s[i + 1].time
  BY DEF InTimeOrder
<1>2. Len(s) \in Nat /\ \A i \in 1..Len(s) : s[i] \in S /\ s[i].time \in Nat
  BY <1>1, Permutation
<1>3. 0 \in E
  BY <1>2
<1>4. ASSUME NEW i \in Nat, i \in E
      PROVE  i + 1 \in E
  <2> SUFFICES ASSUME i + 2 <= Len(s) PROVE s[1].time <= s[i + 2].time
    OBVIOUS
  <2>1. s[1].time <= s[i + 1].time
    BY <1>4
  <2>2. s[i + 1].time <= s[i + 2].time
    BY <1>1, <1>2
  <2> QED
    BY <1>2, <2>1, <2>2
<1>5. Nat \subseteq E
  <2> HIDE DEF E
  <2> QED
    BY <1>3, <1>4, SetInduction
<1>6. ASSUME NEW i \in 1..Len(s)
      PROVE  s[1].time <= s[i].time
  <2>1. i - 1 \in E
    BY <1>5
  <2> QED
    BY <2>1
<1> QED
  BY <1>6

\* The image of a finite set under a field.
LEMMA SymbolsFinite ==
  ASSUME NEW S, IsFiniteSet(S)
  PROVE  IsFiniteSet(Symbols(S))
<1>1. PICK f : f = [t \in S |-> t.symbol]
  OBVIOUS
<1>2. f \in Surjection(S, Symbols(S))
  BY <1>1 DEF Surjection, Symbols
<1> QED
  BY <1>2, FS_Surjection

\* What comes out of a block of the i-th trade that went in.
DeltaOf(s, short, i) == IF Parsed(s[i]) THEN PriceDelta(s, i, <<i, "price">> \in short) ELSE 0
VolumeOf(s, short, i) ==
  IF Parsed(s[i]) THEN Volume(s[i].quantity, <<i, "quantity">> \in short) ELSE 0

Unpacked(s, symbols, short, i) ==
  [id       |-> s[i].id,
   price    |-> BasePrices(s)[Len(s)] + DeltaOf(s, short, i) * Millionth,
   time     |-> s[1].time + (IF Parsed(s[i]) THEN TimeDelta(s[i].time, s[1].time) ELSE 0) * TimeStep,
   quantity |-> VolumeOf(s, short, i) * Millionth,
   symbol   |-> symbols[SymbolIndex(symbols, s[i].symbol) + 1]]

LEMMA DecompressIsUnpacked ==
  ASSUME NEW s, NEW symbols, NEW short, DOMAIN s = 1..Len(s)
  PROVE  Decompress(Compress(s, symbols, short)) = {Unpacked(s, symbols, short, i) : i \in 1..Len(s)}
<1> DEFINE data == Compress(s, symbols, short)
<1>1. /\ data.basePrice = BasePrices(s)[Len(s)] /\ data.baseTime = s[1].time
      /\ data.symbols = symbols /\ DOMAIN data.items = 1..Len(s)
  BY DEF Compress
<1>2. ASSUME NEW i \in 1..Len(s)
      PROVE  /\ data.items[i].id = s[i].id
             /\ data.items[i].price = DeltaOf(s, short, i)
             /\ data.items[i].time = IF Parsed(s[i]) THEN TimeDelta(s[i].time, s[1].time) ELSE 0
             /\ data.items[i].volume = VolumeOf(s, short, i)
             /\ data.items[i].symbol = SymbolIndex(symbols, s[i].symbol)
  <2>1. PICK p, d, v, x :
          /\ p = DeltaOf(s, short, i)
          /\ d = IF Parsed(s[i]) THEN TimeDelta(s[i].time, s[1].time) ELSE 0
          /\ v = VolumeOf(s, short, i)
          /\ x = SymbolIndex(symbols, s[i].symbol)
    OBVIOUS
  <2>2. data.items[i] = [id |-> s[i].id, price |-> p, time |-> d, volume |-> v, symbol |-> x]
    BY <2>1, Zenon DEF Compress, DeltaOf, VolumeOf
  <2> QED
    BY <2>1, <2>2
<1> HIDE DEF data
<1>3. \A i \in 1..Len(s) :
        /\ data.items[i].id = s[i].id
        /\ data.items[i].price = DeltaOf(s, short, i)
        /\ data.items[i].time = IF Parsed(s[i]) THEN TimeDelta(s[i].time, s[1].time) ELSE 0
        /\ data.items[i].volume = VolumeOf(s, short, i)
        /\ data.items[i].symbol = SymbolIndex(symbols, s[i].symbol)
  BY <1>2
<1>4. Decompress(data) =
        {[id       |-> data.items[i].id,
          price    |-> data.basePrice + data.items[i].price * Millionth,
          time     |-> data.baseTime + data.items[i].time * TimeStep,
          quantity |-> data.items[i].volume * Millionth,
          symbol   |-> data.symbols[data.items[i].symbol + 1]] : i \in 1..Len(s)}
  BY <1>1 DEF Decompress
<1>5. \A i \in 1..Len(s) :
        Unpacked(s, symbols, short, i) =
         [id       |-> data.items[i].id,
          price    |-> data.basePrice + data.items[i].price * Millionth,
          time     |-> data.baseTime + data.items[i].time * TimeStep,
          quantity |-> data.items[i].volume * Millionth,
          symbol   |-> data.symbols[data.items[i].symbol + 1]]
  BY <1>1, <1>3 DEF Unpacked
<1>6. Decompress(data) = {Unpacked(s, symbols, short, i) : i \in 1..Len(s)}
  BY <1>4, <1>5
<1> QED
  BY <1>6 DEF data

\* Among the prices of these trades.
Among(price, S) == \E s, o \in S : s.price <= price /\ price <= o.price

\* u is what becomes of t when the trades S are compressed together.
CodedAs(u, t, S) ==
  /\ u.id = t.id /\ u.time \in Nat \ {0} /\ u.price \in Int /\ u.quantity \in Nat
  /\ u.time <= t.time /\ \E e \in S : e.time <= u.time
  /\ Parsed(t) => u.quantity <= t.quantity
  /\ CloseTo(S) => Among(u.price, S)
  /\ Cardinality(Symbols(S)) <= SymbolIndices => u.symbol = t.symbol

\* C is what becomes of S.
CodedFrom(C, S) ==
  /\ \A t \in S : \E u \in C : CodedAs(u, t, S)
  /\ \A u \in C : \E t \in S : CodedAs(u, t, S)

\* The step of time that a trade is moved back by.
LEMMA StepBack ==
  ASSUME NEW d \in Nat
  PROVE  (d \div TimeStep) * TimeStep \in 0..d
<1>1. TimeStep \in Nat \ {0}
  BY CodecAssumption
<1>2. d \div TimeStep \in Nat /\ d % TimeStep \in Nat
  BY <1>1
<1>3. d = TimeStep * (d \div TimeStep) + (d % TimeStep)
  BY <1>1
<1>4. TimeStep * (d \div TimeStep) \in Nat
  BY <1>1, <1>2
<1>5. TimeStep * (d \div TimeStep) = (d \div TimeStep) * TimeStep
  BY <1>1, <1>2
<1> QED
  BY <1>2, <1>3, <1>4, <1>5

LEMMA SymbolIsFound ==
  ASSUME NEW T, IsFiniteSet(T), NEW symbols \in SetToSeqs(T), NEW x \in T,
         Cardinality(T) <= SymbolIndices
  PROVE  symbols[SymbolIndex(symbols, x) + 1] = x
<1>1. PICK k : k = CHOOSE i \in DOMAIN symbols : symbols[i] = x
  OBVIOUS
<1>2. k \in 1..Cardinality(T) /\ symbols[k] = x /\ Cardinality(T) \in Nat
  BY <1>1, Permutation
<1>3. SymbolIndices \in Nat \ {0}
  BY CodecAssumption
<1>4. (k - 1) % SymbolIndices = k - 1
  BY <1>2, <1>3
<1>5. SymbolIndex(symbols, x) = (k - 1) % SymbolIndices
  BY <1>1 DEF SymbolIndex
<1> QED
  BY <1>2, <1>4, <1>5

\* What is cut off of a value is towards zero, and its whole millionths are not
\* more than it.
LEMMA Truncation ==
  ASSUME NEW value \in Int, NEW short
  PROVE  /\ Truncated(value, short) \in Int
         /\ Truncated(value, short) * Millionth \in Int
         /\ value >= 0 => /\ Truncated(value, short) \in Nat
                          /\ 0 <= Truncated(value, short) * Millionth
                          /\ Truncated(value, short) * Millionth <= value
         /\ value < 0 => /\ value <= Truncated(value, short) * Millionth
                         /\ Truncated(value, short) * Millionth <= 0
<1>1. PICK k \in Nat \ {0} : k = Millionth
  BY CodecAssumption
<1>2. PICK size \in Nat : size = IF value < 0 THEN -value ELSE value
  OBVIOUS
<1>3. PICK whole : whole = size \div k
  OBVIOUS
<1>4. whole \in Nat /\ k * whole \in Nat /\ k * whole <= size
  <2>1. whole \in Nat /\ size % k \in Nat
    BY <1>3
  <2>2. size = k * whole + (size % k)
    BY <1>3
  <2>3. k * whole \in Nat
    BY <2>1
  <2> QED
    BY <2>1, <2>2, <2>3
<1>5. PICK kept : kept = IF short /\ whole > 0 THEN whole - 1 ELSE whole
  OBVIOUS
<1>6. kept \in Nat /\ kept * k \in Nat /\ kept * k <= size
  <2>1. kept \in Nat /\ (kept = whole \/ kept = whole - 1)
    BY <1>4, <1>5
  <2>2. whole * k = k * whole
    BY <1>4
  <2>3. (whole - 1) * k = k * whole - k
    BY <1>4
  <2>4. kept * k \in Nat
    BY <2>1
  <2> QED
    BY <1>4, <2>1, <2>2, <2>3, <2>4
<1>7. Truncated(value, short) = IF value < 0 THEN -kept ELSE kept
  BY <1>1, <1>2, <1>3, <1>5 DEF Truncated
<1>8. (-kept) * k = -(kept * k)
  BY <1>6
<1>9. CASE value < 0
  <2>1. Truncated(value, short) = -kept /\ size = -value
    BY <1>2, <1>7, <1>9
  <2>2. PICK m \in Nat : m = kept * k
    BY <1>6
  <2>3. Truncated(value, short) * Millionth = -m
    BY <1>1, <1>8, <2>1, <2>2
  <2> QED
    BY <1>6, <1>9, <2>1, <2>2, <2>3
<1>10. CASE value >= 0
  <2>1. Truncated(value, short) = kept /\ size = value
    BY <1>2, <1>7, <1>10
  <2>2. PICK m \in Nat : m = kept * k
    BY <1>6
  <2>3. Truncated(value, short) * Millionth = m
    BY <1>1, <2>1, <2>2
  <2> QED
    BY <1>6, <1>10, <2>1, <2>2, <2>3
<1> QED
  BY <1>9, <1>10

LEMMA VolumeBounds ==
  ASSUME NEW n \in Nat, NEW short
  PROVE  Volume(n, short) * Millionth \in Nat /\ Volume(n, short) * Millionth <= n
<1>1. PICK v \in Nat : v = Truncated(n, short) /\ v * Millionth <= n
  BY Truncation
<1>2. PICK k \in Nat \ {0}, m \in Nat \ {0} : k = Millionth /\ m = VolumeModulus
  BY CodecAssumption
<1>3. PICK r, w \in Nat : r = v % m /\ w = v \div m
  BY <1>2
<1>4. v = m * w + r /\ m * w \in Nat
  BY <1>2, <1>3
<1>5. PICK e \in Nat : e = m * w
  BY <1>4
<1>6. v = e + r
  BY <1>4, <1>5
<1>7. v * k = e * k + r * k /\ e * k \in Nat /\ r * k \in Nat
  BY <1>2, <1>3, <1>5, <1>6
<1>8. Volume(n, short) = r
  BY <1>1, <1>2, <1>3 DEF Volume
<1>9. v * k <= n
  BY <1>1, <1>2
<1>10. PICK x, y, z \in Nat : x = v * k /\ y = e * k /\ z = r * k
  BY <1>2, <1>7
<1> QED
  BY <1>2, <1>7, <1>8, <1>9, <1>10

\* What comes out of the codec of one trade.
LEMMA UnpackedIsCoded ==
  ASSUME NEW S, IsFiniteSet(S), \A t \in S : IsTrade(t), Invalid \notin Int,
         NEW s \in InTimeOrder(S), s[1].price # Invalid,
         NEW symbols \in SetToSeqs(Symbols(S)), NEW short, NEW i \in 1..Len(s)
  PROVE  s[i] \in S /\ CodedAs(Unpacked(s, symbols, short, i), s[i], S)
<1>1. s \in SetToSeqs(S)
  BY DEF InTimeOrder
<1>2. Len(s) \in Nat \ {0} /\ s[1] \in S /\ s[i] \in S /\ \A j \in 1..Len(s) : s[j] \in S
  <2>1. Len(s) \in Nat /\ \A j \in 1..Len(s) : s[j] \in S
    BY <1>1, Permutation
  <2> QED
    BY <2>1
<1>3. IsTrade(s[1]) /\ IsTrade(s[i]) /\ s[1].time <= s[i].time
  <2>1. \A j \in 1..Len(s) : s[1].time <= s[j].time
    <3>1. \A t \in S : t.time \in Nat
      BY DEF IsTrade
    <3> QED
      BY <3>1, FirstIsOldest
  <2> QED
    BY <1>2, <2>1
<1>4. /\ \A j \in 0..Len(s) : BasePrices(s)[j] \in Int
      /\ (\A j \in 1..Len(s) : Parsed(s[j]) /\ Fits(s[j].price - s[1].price)) =>
           \A j \in 0..Len(s) : BasePrices(s)[j] = s[1].price
  <2>1. s[1].price \in Int /\ \A j \in 1..Len(s) : s[j].price \in Int \union {Invalid}
    BY <1>2 DEF IsTrade
  <2> QED
    BY <1>2, <2>1, BaseIsNumber
<1>5. PICK base : base = BasePrices(s)
  OBVIOUS
<1>6. PICK p, d, q, x :
        /\ p = base[Len(s)] + DeltaOf(s, short, i) * Millionth
        /\ d = s[1].time + (IF Parsed(s[i]) THEN (s[i].time - s[1].time) \div TimeStep ELSE 0) * TimeStep
        /\ q = VolumeOf(s, short, i) * Millionth
        /\ x = symbols[SymbolIndex(symbols, s[i].symbol) + 1]
  OBVIOUS
<1>7. Unpacked(s, symbols, short, i) = [id |-> s[i].id, price |-> p, time |-> d, quantity |-> q, symbol |-> x]
  BY <1>5, <1>6 DEF Unpacked, TimeDelta
<1>8. base[Len(s)] \in Int /\ base[i] \in Int
  BY <1>2, <1>4, <1>5
<1>9. p \in Int
  <2>1. DeltaOf(s, short, i) \in Int
    <3>1. CASE Parsed(s[i])
      <4>1. s[i].price - base[i] \in Int
        BY <1>3, <1>8, <3>1 DEF IsTrade, Parsed
      <4>2. Truncated(s[i].price - base[i], <<i, "price">> \in short) \in Int
        BY <4>1, Truncation
      <4> QED
        BY <1>5, <3>1, <4>2 DEF DeltaOf, PriceDelta
    <3>2. CASE ~ Parsed(s[i])
      BY <3>2 DEF DeltaOf
    <3> QED
      BY <3>1, <3>2
  <2>2. PICK n \in Int, k \in Nat : n = DeltaOf(s, short, i) /\ k = Millionth
    BY <2>1, CodecAssumption
  <2>3. n * k \in Int
    BY <2>2
  <2> QED
    BY <1>6, <1>8, <2>2, <2>3
<1>10. q \in Nat /\ (Parsed(s[i]) => q <= s[i].quantity)
  <2>1. CASE Parsed(s[i])
    <3>1. PICK n \in Nat : n = s[i].quantity
      BY <1>3, <2>1 DEF IsTrade, Parsed
    <3>2. q = Volume(n, <<i, "quantity">> \in short) * Millionth
      BY <1>6, <2>1, <3>1 DEF VolumeOf
    <3> QED
      BY <3>1, <3>2, VolumeBounds
  <2>2. CASE ~ Parsed(s[i])
    <3>1. q = 0 * Millionth
      BY <1>6, <2>2 DEF VolumeOf
    <3>2. Millionth \in Nat
      BY CodecAssumption
    <3> QED
      BY <2>2, <3>1, <3>2
  <2> QED
    BY <2>1, <2>2
<1>11. d \in Nat \ {0} /\ s[1].time <= d /\ d <= s[i].time
  <2>1. PICK a, b \in Nat \ {0} : a = s[1].time /\ b = s[i].time
    BY <1>3 DEF IsTrade
  <2>2. b - a \in Nat
    BY <1>3, <2>1
  <2>3. ((b - a) \div TimeStep) * TimeStep \in 0..(b - a)
    BY <2>2, StepBack
  <2>4. TimeStep \in Nat
    BY CodecAssumption
  <2>5. CASE Parsed(s[i])
    <3>1. d = a + ((b - a) \div TimeStep) * TimeStep
      BY <1>6, <2>1, <2>5
    <3>2. PICK e \in 0..(b - a) : e = ((b - a) \div TimeStep) * TimeStep
      BY <2>3
    <3>3. a + e \in Nat \ {0} /\ a <= a + e /\ a + e <= b
      BY <2>2
    <3> QED
      BY <2>1, <3>1, <3>2, <3>3
  <2>6. CASE ~ Parsed(s[i])
    <3>1. d = a + 0 * TimeStep
      BY <1>6, <2>1, <2>6
    <3> QED
      BY <1>3, <2>1, <2>4, <3>1
  <2> QED
    BY <2>5, <2>6
<1>12. CloseTo(S) => \E e, f \in S : e.price <= p /\ p <= f.price
  <2> SUFFICES ASSUME CloseTo(S) PROVE \E e, f \in S : e.price <= p /\ p <= f.price
    OBVIOUS
  <2>1. \A j \in 1..Len(s) : Parsed(s[j]) /\ Fits(s[j].price - s[1].price)
    BY <1>2 DEF CloseTo
  <2>2. base[Len(s)] = s[1].price /\ base[i] = s[1].price
    BY <1>2, <1>4, <1>5, <2>1
  <2>3. Parsed(s[i]) /\ s[i].price \in Int /\ s[1].price \in Int
    BY <1>2, <1>3, <2>1 DEF Parsed, IsTrade
  <2>4. PICK a, b \in Int : a = s[1].price /\ b = s[i].price
    BY <2>3
  <2>5. PICK n : n = Truncated(b - a, <<i, "price">> \in short) * Millionth
    OBVIOUS
  <2>6. p = a + n
    BY <1>5, <1>6, <2>2, <2>3, <2>4, <2>5 DEF DeltaOf, PriceDelta
  <2>7. /\ n \in Int
        /\ b - a >= 0 => 0 <= n /\ n <= b - a
        /\ b - a < 0 => b - a <= n /\ n <= 0
    <3>1. PICK c, h : c \in Int /\ c = b - a /\ h = (<<i, "price">> \in short)
      OBVIOUS
    <3>2. n = Truncated(c, h) * Millionth
      BY <2>5, <3>1
    <3> QED
      BY <3>1, <3>2, Truncation
  <2>8. CASE b - a >= 0
    <3>1. a <= p /\ p <= b
      BY <2>6, <2>7, <2>8
    <3> QED
      BY <1>2, <2>4, <3>1
  <2>9. CASE b - a < 0
    <3>1. b <= p /\ p <= a
      BY <2>6, <2>7, <2>9
    <3> QED
      BY <1>2, <2>4, <3>1
  <2> QED
    BY <2>8, <2>9
<1>13. Cardinality(Symbols(S)) <= SymbolIndices => x = s[i].symbol
  <2>1. IsFiniteSet(Symbols(S)) /\ s[i].symbol \in Symbols(S)
    BY <1>2, SymbolsFinite DEF Symbols
  <2> QED
    BY <1>6, <2>1, SymbolIsFound
<1>14. PICK u : u = Unpacked(s, symbols, short, i)
  OBVIOUS
<1>15. u.id = s[i].id /\ u.price = p /\ u.time = d /\ u.quantity = q /\ u.symbol = x
  BY <1>7, <1>14
<1>16. CodedAs(u, s[i], S)
  BY <1>2, <1>9, <1>10, <1>11, <1>12, <1>13, <1>15 DEF CodedAs, Among
<1> QED
  BY <1>2, <1>14, <1>16

\* What comes out of the codec of a block.
LEMMA Codec ==
  ASSUME NEW S, IsFiniteSet(S), \A t \in S : IsTrade(t), UniqueIds(S), Invalid \notin Int,
         NEW s \in InTimeOrder(S), s[1].price # Invalid,
         NEW symbols \in SetToSeqs(Symbols(S)), NEW short,
         NEW B, B = Decompress(Compress(s, symbols, short))
  PROVE  CodedFrom(B, S) /\ UniqueIds(B) /\ IsFiniteSet(B)
<1>1. s \in SetToSeqs(S)
  BY DEF InTimeOrder
<1>2. /\ Len(s) \in Nat /\ DOMAIN s = 1..Len(s)
      /\ \A i, j \in 1..Len(s) : s[i] = s[j] => i = j
      /\ \A t \in S : \E i \in 1..Len(s) : s[i] = t
  BY <1>1, Permutation
<1>3. B = {Unpacked(s, symbols, short, i) : i \in 1..Len(s)}
  BY <1>2, DecompressIsUnpacked
<1>4. \A i \in 1..Len(s) : s[i] \in S /\ CodedAs(Unpacked(s, symbols, short, i), s[i], S)
  BY UnpackedIsCoded
<1>5. \A t \in S : \E u \in B : CodedAs(u, t, S)
  <2> TAKE t \in S
  <2>1. PICK i \in 1..Len(s) : s[i] = t
    BY <1>2
  <2> QED
    BY <1>3, <1>4, <2>1
<1>6. \A u \in B : \E t \in S : CodedAs(u, t, S)
  BY <1>3, <1>4
<1>7. UniqueIds(B)
  <2> SUFFICES ASSUME NEW t \in B, NEW u \in B, t.id = u.id PROVE t = u
    BY DEF UniqueIds
  <2>1. PICK i \in 1..Len(s), j \in 1..Len(s) :
          t = Unpacked(s, symbols, short, i) /\ u = Unpacked(s, symbols, short, j)
    BY <1>3
  <2>2. s[i].id = s[j].id /\ s[i] \in S /\ s[j] \in S
    BY <1>4, <2>1 DEF CodedAs
  <2>3. i = j
    BY <1>2, <2>2 DEF UniqueIds
  <2> QED
    BY <2>1, <2>3
<1>8. IsFiniteSet(B)
  <2>1. PICK f : f = [i \in 1..Len(s) |-> Unpacked(s, symbols, short, i)]
    OBVIOUS
  <2>2. f \in Surjection(1..Len(s), B)
    BY <1>3, <2>1 DEF Surjection
  <2>3. IsFiniteSet(1..Len(s))
    BY <1>2, FS_Interval
  <2> QED
    BY <2>2, <2>3, FS_Surjection
<1> QED
  BY <1>5, <1>6, <1>7, <1>8 DEF CodedFrom

-----------------------------------------------------------------------------
(* The blocks *)

\* The trade that was made under an id.
Of(M, id) == CHOOSE t \in M : t.id = id

Genuine(M) == UniqueIds(M) /\ \A t \in M : IsTrade(t)

LEMMA OfItself ==
  ASSUME NEW M, UniqueIds(M), NEW t \in M
  PROVE  Of(M, t.id) = t
  BY DEF Of, UniqueIds

Originals(B, M) == {Of(M, u.id) : u \in B}

TimesAreRight(B, M) ==
  \A u \in B :
    /\ u.time <= Of(M, u.id).time
    /\ \E o \in B : Of(M, o.id).time <= u.time

PricesAreRight(B, M) ==
  (\A s, o \in Originals(B, M) : Fits(s.price - o.price)) =>
    \A u \in B : Among(u.price, Originals(B, M))

QuantitiesAreRight(B, M) == \A u \in B : u.quantity <= Of(M, u.id).quantity

SymbolsAreRight(B, M) ==
  Cardinality(Symbols(Originals(B, M))) <= SymbolIndices =>
    \A u \in B : u.symbol = Of(M, u.id).symbol

\* What a block shows of the trades that were made.
BlockIsRight(B, M) ==
  /\ IsFiniteSet(B) /\ UniqueIds(B) /\ IdsOf(B) \subseteq IdsOf(M)
  /\ \A u \in B : u.time \in Nat \ {0} /\ u.price \in Int /\ u.quantity \in Nat
  /\ TimesAreRight(B, M)
  /\ (\A t \in M : Parsed(t)) =>
       PricesAreRight(B, M) /\ QuantitiesAreRight(B, M) /\ SymbolsAreRight(B, M)

\* More trades change nothing for a block.
LEMMA OfMore ==
  ASSUME NEW M, NEW K, M \subseteq K, UniqueIds(K), NEW id \in IdsOf(M)
  PROVE  Of(K, id) = Of(M, id) /\ Of(M, id) \in M /\ Of(M, id).id = id
<1>1. PICK t \in M : t.id = id
  BY DEF IdsOf
<1>2. UniqueIds(M)
  BY DEF UniqueIds
<1>3. Of(K, t.id) = t /\ Of(M, t.id) = t
  BY <1>1, <1>2, OfItself
<1> QED
  BY <1>1, <1>3

LEMMA BlockAmongMore ==
  ASSUME NEW M, NEW K, M \subseteq K, UniqueIds(K), NEW B, BlockIsRight(B, M)
  PROVE  BlockIsRight(B, K)
<1>1. \A u \in B : Of(K, u.id) = Of(M, u.id)
  <2> TAKE u \in B
  <2>1. u.id \in IdsOf(M)
    BY DEF BlockIsRight, IdsOf
  <2> QED
    BY <2>1, OfMore
<1>2. Originals(B, K) = Originals(B, M)
  BY <1>1 DEF Originals
<1>3. IdsOf(B) \subseteq IdsOf(K)
  BY DEF BlockIsRight, IdsOf
<1>4. TimesAreRight(B, K)
  BY <1>1 DEF BlockIsRight, TimesAreRight
<1>5. ASSUME \A t \in K : Parsed(t)
      PROVE  PricesAreRight(B, K) /\ QuantitiesAreRight(B, K) /\ SymbolsAreRight(B, K)
  <2>1. PricesAreRight(B, M) /\ QuantitiesAreRight(B, M) /\ SymbolsAreRight(B, M)
    BY <1>5 DEF BlockIsRight
  <2>2. PricesAreRight(B, K)
    BY <1>1, <1>2, <2>1 DEF PricesAreRight
  <2>3. QuantitiesAreRight(B, K)
    BY <1>1, <2>1 DEF QuantitiesAreRight
  <2>4. SymbolsAreRight(B, K)
    BY <1>1, <1>2, <2>1 DEF SymbolsAreRight
  <2> QED
    BY <2>2, <2>3, <2>4
<1> QED
  BY <1>3, <1>4, <1>5 DEF BlockIsRight

\* No trade of a set was moved before all of them had been made.
Grounded(S, M) == \A t \in S : \E o \in S : Of(M, o.id).time <= t.time

\* What a merge has to do with the trades that were made.
LEMMA Merged ==
  ASSUME NEW M, Genuine(M), Invalid \notin Int, NEW B, BlockIsRight(B, M),
         NEW N \in SUBSET M, IsFiniteSet(N), IdsOf(N) \cap IdsOf(B) = {}
  PROVE  /\ IsFiniteSet(B \cup N) /\ UniqueIds(B \cup N)
         /\ \A t \in B \cup N : IsTrade(t) /\ Of(M, t.id) \in M
         /\ \A t \in B \cup N : t.time <= Of(M, t.id).time
         /\ Grounded(B \cup N, M)
<1>1. \A t \in N : Of(M, t.id) = t
  BY OfItself DEF Genuine
<1>2. IsFiniteSet(B \cup N)
  BY FS_Union DEF BlockIsRight
<1>3. UniqueIds(B \cup N)
  <2> SUFFICES ASSUME NEW t \in B \cup N, NEW u \in B \cup N, t.id = u.id PROVE t = u
    BY DEF UniqueIds
  <2>1. CASE t \in B /\ u \in B
    BY <2>1 DEF BlockIsRight, UniqueIds
  <2>2. CASE t \in N /\ u \in N
    BY <2>2 DEF Genuine, UniqueIds
  <2>3. ~ (t \in B /\ u \in N) /\ ~ (t \in N /\ u \in B)
    BY DEF IdsOf
  <2> QED
    BY <2>1, <2>2, <2>3
<1>4. \A t \in B : IsTrade(t) /\ Of(M, t.id) \in M
  <2> TAKE t \in B
  <2>1. t.id \in IdsOf(M)
    BY DEF BlockIsRight, IdsOf
  <2>2. IsTrade(t)
    BY DEF BlockIsRight, IsTrade
  <2> QED
    BY <2>1, <2>2, OfMore DEF Genuine
<1>5. \A t \in N : IsTrade(t) /\ Of(M, t.id) \in M
  BY <1>1 DEF Genuine
<1>6. \A t \in N : t.time <= Of(M, t.id).time /\ Of(M, t.id).time <= t.time
  <2> TAKE t \in N
  <2>1. t.time \in Nat
    BY <1>5 DEF IsTrade
  <2> QED
    BY <1>1, <2>1
<1>7. \A t \in B : t.time <= Of(M, t.id).time /\ \E o \in B : Of(M, o.id).time <= t.time
  BY DEF BlockIsRight, TimesAreRight
<1> QED
  BY <1>2, <1>3, <1>4, <1>5, <1>6, <1>7 DEF Grounded

\* What a block becomes shows the trades as a block has to.
LEMMA MergeIsRight ==
  ASSUME NEW M, Genuine(M), Invalid \notin Int, NEW B, BlockIsRight(B, M),
         NEW N \in SUBSET M, IsFiniteSet(N), IdsOf(N) \cap IdsOf(B) = {},
         NEW C, IsFiniteSet(C), UniqueIds(C), CodedFrom(C, B \cup N)
  PROVE  BlockIsRight(C, M) /\ IdsOf(C) = IdsOf(B) \cup IdsOf(N)
<1> DEFINE S == B \cup N
<1>1. /\ IsFiniteSet(S) /\ UniqueIds(S)
      /\ \A t \in S : IsTrade(t) /\ Of(M, t.id) \in M
      /\ \A t \in S : t.time <= Of(M, t.id).time
      /\ \A t \in S : \E o \in S : Of(M, o.id).time <= t.time
  <2> USE Merged
  <2>1. IsFiniteSet(S) /\ UniqueIds(S)
    OBVIOUS
  <2>2. \A t \in S : IsTrade(t) /\ Of(M, t.id) \in M
    OBVIOUS
  <2>3. \A t \in S : t.time <= Of(M, t.id).time
    OBVIOUS
  <2>4. Grounded(S, M)
    OBVIOUS
  <2> QED
    BY <2>1, <2>2, <2>3, <2>4 DEF Grounded
<1>2. \A t \in S : \E u \in C : CodedAs(u, t, S)
  BY DEF CodedFrom
<1>3. \A u \in C : \E t \in S : CodedAs(u, t, S)
  BY DEF CodedFrom
<1>4. \A t \in N : Of(M, t.id) = t
  BY OfItself DEF Genuine
<1>5. IdsOf(C) = IdsOf(B) \cup IdsOf(N)
  <2>1. \A u \in C : \E t \in S : u.id = t.id
    BY <1>3 DEF CodedAs
  <2>2. \A t \in S : \E u \in C : u.id = t.id
    BY <1>2 DEF CodedAs
  <2>3. IdsOf(C) = IdsOf(S)
    BY <2>1, <2>2 DEF IdsOf
  <2> QED
    BY <2>3 DEF IdsOf
<1>6. IdsOf(C) \subseteq IdsOf(M)
  BY <1>5 DEF BlockIsRight, IdsOf
<1>7. \A u \in C : u.time \in Nat \ {0} /\ u.price \in Int /\ u.quantity \in Nat
  BY <1>3 DEF CodedAs
<1>8. \A t \in M : t.time \in Nat
  BY DEF Genuine, IsTrade
<1>9. Originals(C, M) = {Of(M, t.id) : t \in S}
  BY <1>2, <1>3 DEF Originals, CodedAs
<1>10. TimesAreRight(C, M)
  <2> SUFFICES ASSUME NEW u \in C
               PROVE  /\ u.time <= Of(M, u.id).time
                      /\ \E o \in C : Of(M, o.id).time <= u.time
    BY DEF TimesAreRight
  <2>1. PICK t \in S : CodedAs(u, t, S)
    BY <1>3
  <2>2. PICK e \in S : e.time <= u.time
    BY <2>1 DEF CodedAs
  <2>3. PICK d \in S : Of(M, d.id).time <= e.time
    BY <1>1
  <2>4. PICK o \in C : CodedAs(o, d, S)
    BY <1>2
  <2>5. /\ u.time \in Nat /\ t.time \in Nat /\ e.time \in Nat
        /\ Of(M, t.id).time \in Nat /\ Of(M, d.id).time \in Nat
    BY <1>1, <1>7, <1>8 DEF IsTrade
  <2>6. u.id = t.id /\ u.time <= t.time /\ o.id = d.id
    BY <2>1, <2>4 DEF CodedAs
  <2>7. t.time <= Of(M, t.id).time
    BY <1>1
  <2>8. u.time <= Of(M, u.id).time
    BY <2>5, <2>6, <2>7
  <2>9. Of(M, o.id).time <= u.time
    BY <2>2, <2>3, <2>5, <2>6
  <2> QED
    BY <2>8, <2>9
<1> SUFFICES ASSUME \A t \in M : Parsed(t)
             PROVE  PricesAreRight(C, M) /\ QuantitiesAreRight(C, M) /\ SymbolsAreRight(C, M)
  BY <1>5, <1>6, <1>7, <1>10 DEF BlockIsRight
<1>11. PricesAreRight(B, M) /\ QuantitiesAreRight(B, M) /\ SymbolsAreRight(B, M)
  BY DEF BlockIsRight
<1>12. \A t \in S : Parsed(t)
  <2>1. \A t \in B : Parsed(t)
    BY DEF BlockIsRight, Parsed
  <2> QED
    BY <2>1
<1>13. Originals(B, M) \subseteq Originals(C, M)
  BY <1>9 DEF Originals
<1>14. PricesAreRight(C, M)
  <2> DEFINE O == Originals(C, M)
  <2> SUFFICES ASSUME \A s, o \in O : Fits(s.price - o.price), NEW u \in C
               PROVE  Among(u.price, O)
    BY DEF PricesAreRight
  <2>1. \A t \in B : Among(t.price, O)
    BY <1>11, <1>13 DEF PricesAreRight, Among
  <2>2. \A t \in N : Among(t.price, O)
    <3> TAKE t \in N
    <3>1. t \in O /\ t.price \in Int
      <4>1. Of(M, t.id) \in O /\ Of(M, t.id) = t
        BY <1>4, <1>9
      <4> QED
        BY <1>12, <4>1, <1>1 DEF IsTrade, Parsed
    <3>2. t.price <= t.price
      BY <3>1
    <3> QED
      BY <3>1, <3>2 DEF Among
  <2>3. \A t \in S : Among(t.price, O)
    BY <2>1, <2>2
  <2>4. \A o \in O : o.price \in Int
    <3> TAKE o \in O
    <3>1. o \in M
      BY <1>1, <1>9
    <3> QED
      BY <3>1 DEF Genuine, IsTrade, Parsed
  <2>5. \A t \in S : t.price \in Int
    BY <1>1, <1>12 DEF IsTrade, Parsed
  <2> HIDE DEF O
  <2>6. CloseTo(S)
    <3> SUFFICES ASSUME NEW t \in S, NEW e \in S PROVE Fits(t.price - e.price)
      BY <1>12 DEF CloseTo
    <3>1. PICK a, b \in O : a.price <= t.price /\ t.price <= b.price
      BY <2>3 DEF Among
    <3>2. PICK c, d \in O : c.price <= e.price /\ e.price <= d.price
      BY <2>3 DEF Among
    <3>3. PICK w, x, y, z \in Int : w = a.price /\ x = b.price /\ y = c.price /\ z = d.price
      BY <2>4
    <3>4. PICK f, g \in Int : f = t.price /\ g = e.price
      BY <2>5
    <3>5. Fits(w - z) /\ Fits(x - y)
      BY <3>3
    <3>6. PICK low, high \in Int : low = -(MaxDelta + 1) * Millionth /\ high = MaxDelta * Millionth
      <4>1. PICK m, k \in Nat : m = MaxDelta /\ k = Millionth
        BY CodecAssumption
      <4>2. -(m + 1) * k \in Int /\ m * k \in Int
        BY <4>1
      <4> QED
        BY <4>1, <4>2
    <3>7. low <= w - z /\ x - y <= high
      BY <3>5, <3>6 DEF Fits
    <3>8. low <= f - g /\ f - g <= high
      BY <3>1, <3>2, <3>3, <3>4, <3>7
    <3> QED
      BY <3>4, <3>6, <3>8 DEF Fits
  <2>7. PICK t \in S : CodedAs(u, t, S)
    BY <1>3
  <2>8. PICK e, f \in S : e.price <= u.price /\ u.price <= f.price
    BY <2>6, <2>7 DEF CodedAs, Among
  <2>9. PICK a \in O : a.price <= e.price
    BY <2>3 DEF Among
  <2>10. PICK b \in O : f.price <= b.price
    BY <2>3 DEF Among
  <2>11. u.price \in Int
    BY <1>7
  <2>12. a.price <= u.price /\ u.price <= b.price
    BY <2>4, <2>5, <2>8, <2>9, <2>10, <2>11
  <2> QED
    BY <2>12 DEF Among
<1>15. QuantitiesAreRight(C, M)
  <2> SUFFICES ASSUME NEW u \in C
               PROVE  u.quantity <= Of(M, u.id).quantity
    BY DEF QuantitiesAreRight
  <2>1. PICK t \in S : CodedAs(u, t, S)
    BY <1>3
  <2>2. u.id = t.id /\ u.quantity <= t.quantity
    BY <1>12, <2>1 DEF CodedAs
  <2>3. t.quantity \in Nat /\ u.quantity \in Nat /\ Of(M, t.id).quantity \in Nat
    <3>1. Of(M, t.id) \in M /\ IsTrade(t) /\ Parsed(t)
      BY <1>1, <1>12
    <3>2. IsTrade(Of(M, t.id)) /\ Parsed(Of(M, t.id))
      BY <3>1 DEF Genuine
    <3> QED
      BY <1>7, <3>1, <3>2 DEF IsTrade, Parsed
  <2>4. t.quantity <= Of(M, t.id).quantity
    BY <1>4, <1>11, <2>3 DEF QuantitiesAreRight
  <2> QED
    BY <2>2, <2>3, <2>4
<1>16. SymbolsAreRight(C, M)
  <2> SUFFICES ASSUME Cardinality(Symbols(Originals(C, M))) <= SymbolIndices, NEW u \in C
               PROVE  u.symbol = Of(M, u.id).symbol
    BY DEF SymbolsAreRight
  <2>1. PICK all : all = Symbols(Originals(C, M))
    OBVIOUS
  <2>2. IsFiniteSet(all) /\ Cardinality(all) \in Nat /\ SymbolIndices \in Nat
    <3>1. PICK f : f = [v \in C |-> Of(M, v.id)]
      OBVIOUS
    <3>2. f \in Surjection(C, Originals(C, M))
      BY <3>1 DEF Surjection, Originals
    <3>3. IsFiniteSet(Originals(C, M))
      BY <3>2, FS_Surjection
    <3> QED
      BY <2>1, <3>3, SymbolsFinite, FS_CardinalityType, CodecAssumption
  <2>3. PICK old : old = Symbols(Originals(B, M))
    OBVIOUS
  <2>4. old \subseteq all
    BY <1>13, <2>1, <2>3 DEF Symbols
  <2>5. Cardinality(old) <= SymbolIndices
    <3>1. Cardinality(old) <= Cardinality(all) /\ Cardinality(old) \in Nat
      BY <2>2, <2>4, FS_Subset, FS_CardinalityType
    <3> QED
      BY <2>1, <2>2, <3>1
  <2>6. \A t \in B : t.symbol = Of(M, t.id).symbol
    BY <1>11, <2>3, <2>5 DEF SymbolsAreRight
  <2>7. \A t \in S : t.symbol = Of(M, t.id).symbol
    BY <1>4, <2>6
  <2>8. Symbols(S) = all
    BY <1>9, <2>1, <2>7 DEF Symbols
  <2>9. PICK t \in S : CodedAs(u, t, S)
    BY <1>3
  <2>10. u.id = t.id /\ u.symbol = t.symbol
    BY <2>1, <2>8, <2>9 DEF CodedAs
  <2> QED
    BY <2>7, <2>10
<1> QED
  BY <1>14, <1>15, <1>16

\* What a cleared slot of the ring holds is sorted to the front, and refused.
NoTradeIsRefused == NoTrade.id = 0 /\ NoTrade.time = 0 /\ NoTrade.price = Invalid

\* compressAndStoreInBlock
LEMMA StoredInBlock ==
  ASSUME NEW M, Genuine(M), Invalid \notin Int, NoTradeIsRefused, NEW B, BlockIsRight(B, M),
         NEW N \in SUBSET (M \cup {NoTrade}), IsFiniteSet(N), N # {}, IdsOf(N) \cap IdsOf(B) = {},
         NEW r \in compressAndStoreInBlock(B, N)
  PROVE  /\ ~r.ok => r.block = B
         /\ r.ok => N \subseteq M /\ BlockIsRight(r.block, M) /\ IdsOf(r.block) = IdsOf(B) \cup IdsOf(N)
         /\ N \subseteq M /\ (\A t \in N : t.price # Invalid) => r.ok
<1> DEFINE S == B \cup N
<1> DEFINE Results(s) ==
      IF s[1].price = Invalid THEN {[ok |-> FALSE, block |-> B]}
      ELSE {[ok |-> TRUE, block |-> Decompress(Compress(s, symbols, short))] :
              symbols \in SetToSeqs(Symbols(S)), short \in SUBSET WholeProducts(s)}
<1>0. compressAndStoreInBlock(B, N) = UNION {Results(s) : s \in InTimeOrder(S)}
  BY DEF compressAndStoreInBlock
<1> HIDE DEF Results
<1>4. ASSUME N \subseteq M, NEW C, IsFiniteSet(C), UniqueIds(C), CodedFrom(C, B \cup N)
      PROVE  BlockIsRight(C, M) /\ IdsOf(C) = IdsOf(B) \cup IdsOf(N)
  <2>1. N \in SUBSET M
    BY <1>4
  <2> HIDE DEF S
  <2> QED
    BY <1>4, <2>1, MergeIsRight
<1>1. PICK s \in InTimeOrder(S) : r \in Results(s)
  BY <1>0
<1>2. CASE s[1].price = Invalid
  <2>1. r = [ok |-> FALSE, block |-> B]
    BY <1>1, <1>2 DEF Results
  <2>2. ~r.ok /\ r.block = B
    BY <2>1
  <2>3. s \in SetToSeqs(S) /\ IsFiniteSet(S) /\ S # {}
    BY FS_Union DEF InTimeOrder, BlockIsRight
  <2>4. Len(s) \in Nat /\ \E i \in 1..Len(s) : TRUE
    BY <2>3, Permutation
  <2>5. 1 \in 1..Len(s)
    BY <2>4
  <2>6. s[1] \in S
    BY <2>3, <2>5, Permutation
  <2>7. \A t \in B : t.price # Invalid
    BY DEF BlockIsRight
  <2> QED
    BY <1>2, <2>2, <2>6, <2>7
<1>3. CASE s[1].price # Invalid
  <2>1. PICK symbols \in SetToSeqs(Symbols(S)), short \in SUBSET WholeProducts(s) :
          r = [ok |-> TRUE, block |-> Decompress(Compress(s, symbols, short))]
    BY <1>1, <1>3 DEF Results
  <2>2. PICK C : C = Decompress(Compress(s, symbols, short))
    OBVIOUS
  <2>3. r.ok /\ r.block = C
    BY <2>1, <2>2
  <2>4. s \in SetToSeqs(S) /\ IsFiniteSet(S)
    BY FS_Union DEF InTimeOrder, BlockIsRight
  <2>5. N \subseteq M
    <3> SUFFICES ASSUME NoTrade \in N PROVE FALSE
      OBVIOUS
    <3>1. \A t \in S : t.time \in Nat /\ (t.time <= 0 => t = NoTrade)
      BY DEF BlockIsRight, Genuine, IsTrade, NoTradeIsRefused
    <3>2. \A i \in 1..Len(s) : s[1].time <= s[i].time
      BY <2>4, <3>1, FirstIsOldest
    <3>3. PICK i \in 1..Len(s) : s[i] = NoTrade
      BY <2>4, Permutation
    <3>4. Len(s) \in Nat
      BY <2>4, Permutation
    <3>5. 1 \in 1..Len(s)
      BY <3>3, <3>4
    <3>6. s[1] \in S
      BY <2>4, <3>5, Permutation
    <3>7. s[1].time <= 0
      BY <3>2, <3>3 DEF NoTradeIsRefused
    <3> QED
      BY <1>3, <3>1, <3>6, <3>7 DEF NoTradeIsRefused
  <2>6. UniqueIds(S) /\ \A t \in S : IsTrade(t)
    <3>1. N \in SUBSET M
      BY <2>5
    <3> QED
      BY <3>1, Merged
  <2>7. CodedFrom(C, S) /\ UniqueIds(C) /\ IsFiniteSet(C)
    <3> HIDE DEF S
    <3> QED
      BY <1>3, <2>2, <2>4, <2>6, Codec
  <2>8. BlockIsRight(C, M) /\ IdsOf(C) = IdsOf(B) \cup IdsOf(N)
    <3>1. CodedFrom(C, B \cup N) /\ UniqueIds(C) /\ IsFiniteSet(C)
      BY <2>7
    <3> HIDE DEF S
    <3> QED
      BY <1>4, <2>5, <3>1
  <2> QED
    BY <2>3, <2>5, <2>8
<1> QED
  BY <1>2, <1>3

\* getBlockIndex
LEMMA BlockIndex ==
  ASSUME NEW time \in Nat
  PROVE  getBlockIndex(time) \in 0..Blocks - 1
<1>1. BlockSpan \in Nat \ {0} /\ Blocks \in Nat \ {0}
  BY BlockAssumption
<1>2. time \div BlockSpan \in Nat
  BY <1>1
<1> QED
  BY <1>1, <1>2 DEF getBlockIndex

BlockIndexes == 0..Blocks - 1

\* Every block is right, and no trade is in two.
BlocksAreRight(blocks, M) ==
  /\ blocks = [b \in BlockIndexes |-> blocks[b]]
  /\ \A b \in BlockIndexes : BlockIsRight(blocks[b], M)
  /\ \A b, c \in BlockIndexes : b # c => IdsOf(blocks[b]) \cap IdsOf(blocks[c]) = {}

BlockIds(blocks) == UNION {IdsOf(blocks[b]) : b \in BlockIndexes}

GroupOf(N, b) == {t \in N : getBlockIndex(t.time) = b}

\* The blocks after some of them have been merged with their groups of N.
GroupsMerged(blocks, after, into, N, M) ==
  /\ into \subseteq BlockIndexes
  /\ after = [b \in BlockIndexes |-> after[b]]
  /\ \A b \in into : /\ BlockIsRight(after[b], M)
                     /\ IdsOf(after[b]) = IdsOf(blocks[b]) \cup IdsOf(GroupOf(N, b))
  /\ \A b \in BlockIndexes \ into : after[b] = blocks[b]

LEMMA MergedBlocksAreRight ==
  ASSUME NEW M, NEW blocks, BlocksAreRight(blocks, M), NEW N, UniqueIds(N),
         IdsOf(N) \cap BlockIds(blocks) = {},
         NEW after, NEW into, GroupsMerged(blocks, after, into, N, M)
  PROVE  /\ BlocksAreRight(after, M)
         /\ BlockIds(after) \subseteq BlockIds(blocks) \cup IdsOf(N)
         /\ (\A t \in N : getBlockIndex(t.time) \in into) =>
              BlockIds(after) = BlockIds(blocks) \cup IdsOf(N)
<1>1. \A b \in BlockIndexes : BlockIsRight(after[b], M)
  BY DEF BlocksAreRight, GroupsMerged
<1>2. \A b \in BlockIndexes : IdsOf(GroupOf(N, b)) \subseteq IdsOf(N)
  BY DEF IdsOf, GroupOf
<1>3. \A b \in BlockIndexes : IdsOf(blocks[b]) \subseteq BlockIds(blocks)
  BY DEF BlockIds
<1>4. \A b \in BlockIndexes : \/ IdsOf(after[b]) = IdsOf(blocks[b])
                              \/ IdsOf(after[b]) = IdsOf(blocks[b]) \cup IdsOf(GroupOf(N, b))
  BY DEF GroupsMerged
<1>5. ASSUME NEW b \in BlockIndexes, NEW c \in BlockIndexes, b # c
      PROVE  IdsOf(after[b]) \cap IdsOf(after[c]) = {}
  <2>1. IdsOf(blocks[b]) \cap IdsOf(blocks[c]) = {}
    BY <1>5 DEF BlocksAreRight
  <2>2. IdsOf(GroupOf(N, b)) \cap IdsOf(GroupOf(N, c)) = {}
    <3> SUFFICES ASSUME NEW t \in GroupOf(N, b), NEW u \in GroupOf(N, c), t.id = u.id
                 PROVE  FALSE
      BY DEF IdsOf
    <3>1. t = u
      BY DEF GroupOf, UniqueIds
    <3> QED
      BY <1>5, <3>1 DEF GroupOf
  <2> QED
    BY <1>2, <1>3, <1>4, <2>1, <2>2
<1>6. \A b \in BlockIndexes : IdsOf(after[b]) \subseteq BlockIds(blocks) \cup IdsOf(N)
  BY <1>2, <1>3, <1>4
<1>7. BlockIds(after) \subseteq BlockIds(blocks) \cup IdsOf(N)
  BY <1>6 DEF BlockIds
<1>8. BlocksAreRight(after, M)
  BY <1>1, <1>5 DEF BlocksAreRight, GroupsMerged
<1>9. ASSUME \A t \in N : getBlockIndex(t.time) \in into
      PROVE  BlockIds(blocks) \cup IdsOf(N) \subseteq BlockIds(after)
  <2>1. \A b \in BlockIndexes : IdsOf(blocks[b]) \subseteq IdsOf(after[b])
    BY <1>4
  <2>2. BlockIds(blocks) \subseteq BlockIds(after)
    BY <2>1 DEF BlockIds
  <2>3. ASSUME NEW t \in N
        PROVE  t.id \in BlockIds(after)
    <3>1. PICK b \in into : getBlockIndex(t.time) = b
      BY <1>9
    <3>2. t.id \in IdsOf(GroupOf(N, b))
      BY <3>1 DEF GroupOf, IdsOf
    <3>3. b \in BlockIndexes /\ t.id \in IdsOf(after[b])
      BY <3>2 DEF GroupsMerged
    <3> QED
      BY <3>3 DEF BlockIds
  <2> QED
    BY <2>2, <2>3 DEF IdsOf
<1> QED
  BY <1>7, <1>8, <1>9

\* Store of the compressed ring
LEMMA ColdStored ==
  ASSUME NEW M, Genuine(M), Invalid \notin Int, NoTradeIsRefused,
         NEW blocks, BlocksAreRight(blocks, M),
         NEW trade \in M, trade.id \notin BlockIds(blocks), NEW r \in ColdStore(blocks, trade)
  PROVE  /\ ~r.ok => r.blocks = blocks
         /\ r.ok => BlocksAreRight(r.blocks, M) /\ BlockIds(r.blocks) = BlockIds(blocks) \cup {trade.id}
         /\ trade.price # Invalid => r.ok
<1>1. PICK b : b = getBlockIndex(trade.time)
  OBVIOUS
<1>2. b \in BlockIndexes
  BY <1>1, BlockIndex DEF BlockIndexes, Genuine, IsTrade
<1>3. PICK q \in compressAndStoreInBlock(blocks[b], {trade}) :
        r = [ok |-> q.ok, blocks |-> [blocks EXCEPT ![b] = q.block]]
  BY <1>1 DEF ColdStore
<1>4. IsFiniteSet({trade}) /\ {trade} # {} /\ IdsOf({trade}) = {trade.id}
  <2>1. IsFiniteSet({trade})
    BY FS_Singleton
  <2>2. IdsOf({trade}) = {trade.id}
    BY DEF IdsOf
  <2> QED
    BY <2>1, <2>2
<1>5. IdsOf({trade}) \cap IdsOf(blocks[b]) = {}
  BY <1>2, <1>4 DEF BlockIds
<1>6. {trade} \in SUBSET (M \cup {NoTrade}) /\ {trade} \subseteq M /\ BlockIsRight(blocks[b], M)
  BY <1>2 DEF BlocksAreRight
<1>7. /\ ~q.ok => q.block = blocks[b]
      /\ q.ok => /\ BlockIsRight(q.block, M)
                 /\ IdsOf(q.block) = IdsOf(blocks[b]) \cup IdsOf({trade})
      /\ trade.price # Invalid => q.ok
  <2>1. PICK N : N = {trade}
    OBVIOUS
  <2>2. /\ ~q.ok => q.block = blocks[b]
        /\ q.ok => /\ N \subseteq M /\ BlockIsRight(q.block, M)
                   /\ IdsOf(q.block) = IdsOf(blocks[b]) \cup IdsOf(N)
        /\ N \subseteq M /\ (\A t \in N : t.price # Invalid) => q.ok
    <3>1. PICK B : B = blocks[b]
      OBVIOUS
    <3>2. /\ N \in SUBSET (M \cup {NoTrade}) /\ IsFiniteSet(N) /\ N # {}
          /\ IdsOf(N) \cap IdsOf(B) = {} /\ BlockIsRight(B, M)
          /\ q \in compressAndStoreInBlock(B, N)
      BY <1>3, <1>4, <1>5, <1>6, <2>1, <3>1
    <3> QED
      BY <3>1, <3>2, StoredInBlock
  <2> QED
    BY <1>6, <2>1, <2>2
<1>8. PICK after : after = [blocks EXCEPT ![b] = q.block]
  OBVIOUS
<1>9. /\ after = [c \in BlockIndexes |-> after[c]] /\ after[b] = q.block
      /\ \A c \in BlockIndexes \ {b} : after[c] = blocks[c]
  BY <1>2, <1>8 DEF BlocksAreRight
<1>10. r.ok = q.ok /\ r.blocks = after
  BY <1>3, <1>8
<1>11. ASSUME ~q.ok
       PROVE  after = blocks
  BY <1>7, <1>9, <1>11 DEF BlocksAreRight
<1>12. ASSUME q.ok
       PROVE  BlocksAreRight(after, M) /\ BlockIds(after) = BlockIds(blocks) \cup {trade.id}
  <2>1. GroupOf({trade}, b) = {trade}
    BY <1>1 DEF GroupOf
  <2>2. UniqueIds({trade})
    BY DEF UniqueIds
  <2>3. IdsOf({trade}) \cap BlockIds(blocks) = {}
    BY <1>4
  <2>4. \A c \in {b} : /\ BlockIsRight(after[c], M)
                       /\ IdsOf(after[c]) = IdsOf(blocks[c]) \cup IdsOf(GroupOf({trade}, c))
    BY <1>7, <1>9, <1>12, <2>1
  <2>5. \A t \in {trade} : getBlockIndex(t.time) \in {b}
    BY <1>1
  <2>6. GroupsMerged(blocks, after, {b}, {trade}, M)
    BY <1>2, <1>9, <2>4 DEF GroupsMerged
  <2>7. /\ BlocksAreRight(after, M)
        /\ BlockIds(after) = BlockIds(blocks) \cup IdsOf({trade})
    <3> PICK N : N = {trade}
      OBVIOUS
    <3> QED
      BY <2>2, <2>3, <2>5, <2>6, MergedBlocksAreRight
  <2> QED
    BY <1>4, <2>7
<1> QED
  BY <1>7, <1>10, <1>11, <1>12

\* CompressAndStore
LEMMA ColdCompressed ==
  ASSUME NEW M, Genuine(M), Invalid \notin Int, NoTradeIsRefused,
         NEW blocks, BlocksAreRight(blocks, M),
         NEW N \in SUBSET (M \cup {NoTrade}), IsFiniteSet(N), UniqueIds(N),
         IdsOf(N) \cap BlockIds(blocks) = {}, NEW after \in CompressAndStore(blocks, N)
  PROVE  /\ BlocksAreRight(after, M)
         /\ BlockIds(after) \subseteq BlockIds(blocks) \cup IdsOf(N)
         /\ N \subseteq M /\ (\A t \in N : t.price # Invalid) =>
              BlockIds(after) = BlockIds(blocks) \cup IdsOf(N)
<1> DEFINE groups == {b \in DOMAIN blocks : GroupOf(N, b) # {}}
<1>1. PICK o : /\ \A b \in groups : o[b] \in compressAndStoreInBlock(blocks[b], GroupOf(N, b))
               /\ after \in {[b \in DOMAIN blocks |-> IF b \in into THEN o[b].block ELSE blocks[b]] :
                    into \in IF {b \in groups : o[b].ok} = groups THEN {groups}
                             ELSE SUBSET {b \in groups : o[b].ok}}
  BY Zenon DEF CompressAndStore, GroupOf
<1>2. PICK into : /\ into \in IF {b \in groups : o[b].ok} = groups THEN {groups}
                              ELSE SUBSET {b \in groups : o[b].ok}
                  /\ after = [b \in DOMAIN blocks |-> IF b \in into THEN o[b].block ELSE blocks[b]]
  BY <1>1
<1>3. DOMAIN blocks = BlockIndexes
  BY DEF BlocksAreRight
<1>4. /\ into \subseteq groups /\ \A b \in into : o[b].ok
      /\ (\A b \in groups : o[b].ok) => into = groups
  BY <1>2
<1>5. ASSUME NEW b \in groups
      PROVE  /\ o[b].ok => /\ BlockIsRight(o[b].block, M)
                           /\ IdsOf(o[b].block) = IdsOf(blocks[b]) \cup IdsOf(GroupOf(N, b))
             /\ N \subseteq M /\ (\A t \in N : t.price # Invalid) => o[b].ok
  <2>1. PICK G : G = GroupOf(N, b)
    OBVIOUS
  <2>2. G \subseteq N /\ G # {} /\ IsFiniteSet(G)
    BY <2>1, FS_Subset DEF GroupOf
  <2>3. BlockIsRight(blocks[b], M) /\ b \in BlockIndexes
    BY <1>3 DEF BlocksAreRight
  <2>4. IdsOf(G) \cap IdsOf(blocks[b]) = {}
    BY <2>2, <2>3 DEF BlockIds, IdsOf
  <2>5. o[b] \in compressAndStoreInBlock(blocks[b], G)
    BY <1>1, <2>1
  <2>6. PICK r : r = o[b]
    OBVIOUS
  <2>7. /\ r.ok => /\ G \subseteq M /\ BlockIsRight(r.block, M)
                   /\ IdsOf(r.block) = IdsOf(blocks[b]) \cup IdsOf(G)
        /\ G \subseteq M /\ (\A t \in G : t.price # Invalid) => r.ok
    <3>1. G \in SUBSET (M \cup {NoTrade})
      BY <2>2
    <3> QED
      BY <2>2, <2>3, <2>4, <2>5, <2>6, <3>1, StoredInBlock
  <2> QED
    BY <2>1, <2>2, <2>6, <2>7
<1>6. /\ after = [b \in BlockIndexes |-> after[b]]
      /\ \A b \in into : after[b] = o[b].block
      /\ \A b \in BlockIndexes \ into : after[b] = blocks[b]
  BY <1>2, <1>3, <1>4
<1>7. /\ BlocksAreRight(after, M)
      /\ BlockIds(after) \subseteq BlockIds(blocks) \cup IdsOf(N)
      /\ (\A t \in N : getBlockIndex(t.time) \in into) =>
           BlockIds(after) = BlockIds(blocks) \cup IdsOf(N)
  <2>1. into \subseteq BlockIndexes
    BY <1>3, <1>4
  <2>2. \A b \in into : /\ BlockIsRight(after[b], M)
                        /\ IdsOf(after[b]) = IdsOf(blocks[b]) \cup IdsOf(GroupOf(N, b))
    BY <1>4, <1>5, <1>6
  <2>3. GroupsMerged(blocks, after, into, N, M)
    BY <1>6, <2>1, <2>2 DEF GroupsMerged
  <2> QED
    BY <2>3, MergedBlocksAreRight
<1>8. ASSUME N \subseteq M, \A t \in N : t.price # Invalid, NEW t \in N
      PROVE  getBlockIndex(t.time) \in into
  <2>1. getBlockIndex(t.time) \in BlockIndexes
    BY <1>8, BlockIndex DEF BlockIndexes, Genuine, IsTrade
  <2>2. getBlockIndex(t.time) \in groups
    BY <1>3, <2>1 DEF GroupOf
  <2>3. into = groups
    BY <1>4, <1>5, <1>8
  <2> QED
    BY <2>2, <2>3
<1> QED
  BY <1>7, <1>8

-----------------------------------------------------------------------------
(* The ring *)

Positions == 0..Capacity - 1

\* What the ring holds, wherever its positions are.
Slots(ring) == {ring.data[p] : p \in Positions} \ {NoTrade}

\* No trade is in two slots.
RingIsRight(ring, M) ==
  /\ ring = [data |-> ring.data, write |-> ring.write, read |-> ring.read,
             full |-> ring.full, size |-> ring.size]
  /\ ring.data = [p \in Positions |-> ring.data[p]]
  /\ ring.write \in Positions /\ ring.read \in Positions
  /\ ring.size \in Nat /\ ring.full \in BOOLEAN
  /\ Slots(ring) \subseteq M
  /\ \A p, q \in Positions : ring.data[p] = ring.data[q] /\ ring.data[p] # NoTrade => p = q

\* Until the ring has been full, the slots in use are those from the read
\* position to the write position.
RingIsExact(ring) ==
  /\ ring.full = FALSE /\ ring.size < Capacity /\ ring.write = At(ring, ring.size)
  /\ \A i \in 0..ring.size - 1 : ring.data[At(ring, i)] # NoTrade
  /\ \A p \in Positions : ring.data[p] # NoTrade => \E i \in 0..ring.size - 1 : p = At(ring, i)

\* One lap at most.
LEMMA Lap ==
  ASSUME NEW r \in Positions, NEW i \in 0..Capacity
  PROVE  (r + i) % Capacity = IF r + i < Capacity THEN r + i ELSE r + i - Capacity
<1>1. Capacity \in Nat \ {0, 1}
  BY CapacityAssumption
<1> QED
  BY <1>1 DEF Positions

LEMMA AtIsPosition ==
  ASSUME NEW ring, ring.read \in Positions, NEW i \in Nat
  PROVE  At(ring, i) \in Positions
  BY CapacityAssumption DEF At, Positions

LEMMA AtIsOne ==
  ASSUME NEW ring, ring.read \in Positions, NEW i \in Positions, NEW j \in Positions,
         At(ring, i) = At(ring, j)
  PROVE  i = j
<1>1. Capacity \in Nat \ {0, 1}
  BY CapacityAssumption
<1>2. i \in 0..Capacity /\ j \in 0..Capacity
  BY <1>1 DEF Positions
<1>3. PICK r \in Positions : r = ring.read
  OBVIOUS
<1>4. (r + i) % Capacity = (r + j) % Capacity
  BY <1>3 DEF At
<1>5. /\ (r + i) % Capacity = IF r + i < Capacity THEN r + i ELSE r + i - Capacity
      /\ (r + j) % Capacity = IF r + j < Capacity THEN r + j ELSE r + j - Capacity
  BY <1>2, Lap
<1> QED
  BY <1>1, <1>4, <1>5 DEF Positions

\* Going on from a position.
LEMMA AtOnward ==
  ASSUME NEW ring, ring.read \in Positions, NEW i \in Nat, NEW j \in Nat, i + j <= Capacity
  PROVE  (At(ring, i) + j) % Capacity = At(ring, i + j)
<1>1. Capacity \in Nat \ {0, 1}
  BY CapacityAssumption
<1>2. i \in 0..Capacity /\ j \in 0..Capacity /\ i + j \in 0..Capacity
  BY <1>1
<1>3. PICK r \in Positions : r = ring.read
  OBVIOUS
<1>4. PICK p \in Positions : p = At(ring, i)
  BY AtIsPosition
<1>5. p = IF r + i < Capacity THEN r + i ELSE r + i - Capacity
  BY <1>2, <1>3, <1>4, Lap DEF At
<1>6. (p + j) % Capacity = IF p + j < Capacity THEN p + j ELSE p + j - Capacity
  BY <1>2, Lap
<1>7. PICK k : k = i + j
  OBVIOUS
<1>8. (r + k) % Capacity = IF r + k < Capacity THEN r + k ELSE r + k - Capacity
  BY <1>2, <1>7, Lap
<1>9. At(ring, k) = IF r + k < Capacity THEN r + k ELSE r + k - Capacity
  BY <1>3, <1>8 DEF At
<1> QED
  BY <1>1, <1>2, <1>4, <1>5, <1>6, <1>7, <1>9 DEF Positions

LEMMA EmptyRingIsRight ==
  ASSUME NEW M
  PROVE  RingIsRight(EmptyRing, M) /\ RingIsExact(EmptyRing) /\ Slots(EmptyRing) = {}
<1>1. PICK ring : ring = EmptyRing
  OBVIOUS
<1>2. /\ ring.data = [p \in Positions |-> NoTrade] /\ ring.write = 0 /\ ring.read = 0
      /\ ring.full = FALSE /\ ring.size = 0
      /\ ring = [data |-> ring.data, write |-> ring.write, read |-> ring.read,
                 full |-> ring.full, size |-> ring.size]
  BY <1>1 DEF EmptyRing, Positions
<1>3. 0 \in Positions /\ Capacity \in Nat \ {0, 1}
  BY CapacityAssumption DEF Positions
<1>4. ring.data = [p \in Positions |-> ring.data[p]] /\ \A p \in Positions : ring.data[p] = NoTrade
  BY <1>2
<1>5. Slots(ring) = {}
  BY <1>4 DEF Slots
<1>6. At(ring, 0) = 0
  BY <1>2, <1>3 DEF At
<1>7. RingIsRight(ring, M)
  <2>1. ring.write \in Positions /\ ring.read \in Positions /\ ring.size \in Nat /\ ring.full \in BOOLEAN
    <3>1. ring.write \in Positions /\ ring.read \in Positions /\ ring.size \in Nat
      BY <1>2, <1>3
    <3>2. ring.full \in BOOLEAN
      BY <1>2, Zenon
    <3> QED
      BY <3>1, <3>2, Zenon
  <2>2. \A p, q \in Positions : ring.data[p] = ring.data[q] /\ ring.data[p] # NoTrade => p = q
    BY <1>4
  <2>3. Slots(ring) \subseteq M
    BY <1>5
  <2>4. ring.data = [p \in Positions |-> ring.data[p]]
    BY <1>4
  <2> QED
    BY <1>2, <2>1, <2>2, <2>3, <2>4, Zenon DEF RingIsRight
<1>8. RingIsExact(ring)
  BY <1>2, <1>3, <1>4, <1>6 DEF RingIsExact
<1> QED
  BY <1>1, <1>5, <1>7, <1>8

\* Store
LEMMA RingStored ==
  ASSUME NEW M, NEW ring, RingIsRight(ring, M), NEW trade \in M,
         trade # NoTrade, trade \notin Slots(ring), NEW after, after = Store(ring, trade)
  PROVE  /\ RingIsRight(after, M)
         /\ Slots(after) \subseteq Slots(ring) \cup {trade}
         /\ RingIsExact(ring) /\ ~after.full =>
              RingIsExact(after) /\ Slots(after) = Slots(ring) \cup {trade}
<1>1. Capacity \in Nat \ {0, 1}
  BY CapacityAssumption
<1>2. PICK w, r \in Positions, n \in Nat, full \in BOOLEAN :
        w = ring.write /\ r = ring.read /\ n = ring.size /\ full = ring.full
  BY DEF RingIsRight
<1>3. PICK next : next = (w + 1) % Capacity
  OBVIOUS
<1>4. PICK met \in BOOLEAN : met = (next = r)
  OBVIOUS
<1>5. next \in Positions /\ (r + 1) % Capacity \in Positions
  BY <1>1, <1>3 DEF Positions
<1>6. ring.data = [p \in Positions |-> ring.data[p]]
  BY DEF RingIsRight
<1>7. PICK data : data = [ring.data EXCEPT ![w] = trade]
  OBVIOUS
<1>8. /\ data = [p \in Positions |-> data[p]] /\ data[w] = trade
      /\ \A p \in Positions \ {w} : data[p] = ring.data[p]
  BY <1>2, <1>6, <1>7
<1>9. after = [ring EXCEPT !.data = data, !.write = next,
                 !.read = IF met /\ full THEN (r + 1) % Capacity ELSE r,
                 !.full = full \/ met, !.size = IF full \/ met THEN n ELSE n + 1]
  BY <1>2, <1>3, <1>4, <1>7 DEF Store
<1>10. ring = [data |-> ring.data, write |-> w, read |-> r, full |-> full, size |-> n]
  BY <1>2 DEF RingIsRight
<1>11. /\ after.data = data /\ after.write = next
       /\ after.read = IF met /\ full THEN (r + 1) % Capacity ELSE r
       /\ after.full = (full \/ met) /\ after.size = IF full \/ met THEN n ELSE n + 1
       /\ after = [data |-> after.data, write |-> after.write, read |-> after.read,
                   full |-> after.full, size |-> after.size]
  BY <1>9, <1>10
<1>12. after.read \in Positions /\ after.size \in Nat /\ after.full \in BOOLEAN
  BY <1>2, <1>4, <1>5, <1>11
<1>13. Slots(after) \subseteq Slots(ring) \cup {trade}
  BY <1>8, <1>11 DEF Slots
<1>14. \A p \in Positions : ring.data[p] # trade
  BY DEF Slots
<1>15. \A p, q \in Positions : data[p] = data[q] /\ data[p] # NoTrade => p = q
  BY <1>8, <1>14 DEF RingIsRight
<1>16. Slots(after) \subseteq M
  BY <1>13 DEF RingIsRight
<1>17. RingIsRight(after, M)
  BY <1>5, <1>8, <1>11, <1>12, <1>15, <1>16 DEF RingIsRight
<1>18. ASSUME RingIsExact(ring), ~after.full
       PROVE  RingIsExact(after) /\ Slots(after) = Slots(ring) \cup {trade}
  <2>1. full = FALSE /\ n < Capacity /\ w = At(ring, n)
    BY <1>2, <1>18 DEF RingIsExact
  <2>2. met = FALSE /\ next # r
    BY <1>4, <1>11, <1>18
  <2>3. after.read = r /\ after.size = n + 1 /\ after.full = FALSE
    BY <1>2, <1>11, <2>1, <2>2
  <2>4. \A i \in Nat : At(after, i) = At(ring, i)
    BY <1>2, <2>3 DEF At
  <2>5. next = At(ring, n + 1)
    BY <1>1, <1>2, <1>3, <2>1, AtOnward
  <2>6. n + 1 < Capacity
    <3> SUFFICES ASSUME n + 1 = Capacity PROVE FALSE
      BY <1>1, <2>1
    <3>1. (r + Capacity) % Capacity = r
      <4>1. (r + Capacity) % Capacity =
              IF r + Capacity < Capacity THEN r + Capacity ELSE r + Capacity - Capacity
        BY <1>1, Lap
      <4> QED
        BY <1>1, <4>1 DEF Positions
    <3> QED
      BY <1>2, <2>2, <2>5, <3>1 DEF At
  <2>7. ring.data[w] = NoTrade
    <3> SUFFICES ASSUME NEW i \in 0..n - 1, w = At(ring, i) PROVE FALSE
      BY <1>2, <1>18 DEF RingIsExact
    <3>1. i \in Positions /\ n \in Positions /\ i # n
      BY <1>1, <2>1 DEF Positions
    <3> QED
      BY <1>2, <2>1, <3>1, AtIsOne
  <2>8. \A i \in 0..n : data[At(ring, i)] # NoTrade
    <3> TAKE i \in 0..n
    <3>1. CASE i = n
      BY <1>8, <2>1, <3>1
    <3>2. CASE i # n
      <4>1. i \in 0..n - 1
        BY <3>2
      <4>2. ring.data[At(ring, i)] # NoTrade /\ At(ring, i) \in Positions
        BY <1>2, <1>18, <4>1, AtIsPosition DEF RingIsExact
      <4> QED
        BY <1>8, <4>2
    <3> QED
      BY <3>1, <3>2
  <2>9. \A p \in Positions : data[p] # NoTrade => \E i \in 0..n : p = At(ring, i)
    <3> TAKE p \in Positions
    <3>1. CASE p = w
      BY <2>1, <3>1
    <3>2. CASE p # w
      BY <1>2, <1>8, <1>18, <3>2 DEF RingIsExact
    <3> QED
      BY <3>1, <3>2
  <2>10. RingIsExact(after)
    <3>1. 0..after.size - 1 = 0..n
      BY <2>3
    <3>2. after.write = At(after, after.size)
      BY <1>11, <2>3, <2>4, <2>5
    <3> QED
      BY <1>11, <2>3, <2>4, <2>6, <2>8, <2>9, <3>1, <3>2 DEF RingIsExact
  <2>11. Slots(ring) \cup {trade} \subseteq Slots(after)
    BY <1>2, <1>8, <1>11, <2>7 DEF Slots
  <2> QED
    BY <1>13, <2>10, <2>11
<1> QED
  BY <1>13, <1>17, <1>18

\* OldTrades
LEMMA OldTradesAreOld ==
  ASSUME NEW M, NEW ring, RingIsRight(ring, M), NEW cutoff
  PROVE  /\ OldTrades(ring, cutoff) \in 0..ring.size
         /\ \A i \in 0..OldTrades(ring, cutoff) - 1 :
              i >= Capacity \/ ring.data[At(ring, i)].time < cutoff
<1>1. PICK n \in Nat : n = ring.size
  BY DEF RingIsRight
<1>2. PICK S : S = {k \in 0..n : \A i \in 0..k - 1 :
                      i >= Capacity \/ ring.data[At(ring, i)].time < cutoff}
  OBVIOUS
<1>3. 0 \in S /\ S \in SUBSET (0..n)
  BY <1>2
<1>4. Max(S) \in S
  BY <1>3, MaxOfBounded
<1>5. OldTrades(ring, cutoff) = Max(S)
  BY <1>1, <1>2 DEF OldTrades
<1> QED
  BY <1>1, <1>2, <1>4, <1>5

\* What ExtractOldTrades returns.
LEMMA ExtractedIsOld ==
  ASSUME NEW M, NEW ring, RingIsRight(ring, M), NEW cutoff
  PROVE  /\ IsFiniteSet(Extracted(ring, cutoff))
         /\ \A t \in Extracted(ring, cutoff) : t = NoTrade \/ (t \in Slots(ring) /\ t.time < cutoff)
<1>1. PICK old : old = OldTrades(ring, cutoff)
  OBVIOUS
<1>2. old \in 0..ring.size /\ ring.size \in Nat
  BY <1>1, OldTradesAreOld DEF RingIsRight
<1>3. \A i \in 0..old - 1 : i >= Capacity \/ ring.data[At(ring, i)].time < cutoff
  BY <1>1, OldTradesAreOld
<1>4. Extracted(ring, cutoff) =
        {IF i < Capacity THEN ring.data[At(ring, i)] ELSE NoTrade : i \in 0..old - 1}
  BY <1>1 DEF Extracted
<1>5. IsFiniteSet(Extracted(ring, cutoff))
  <2>1. IsFiniteSet(0..old - 1)
    BY <1>2, FS_Interval
  <2>2. PICK f : f = [i \in 0..old - 1 |-> IF i < Capacity THEN ring.data[At(ring, i)] ELSE NoTrade]
    OBVIOUS
  <2>3. f \in Surjection(0..old - 1, Extracted(ring, cutoff))
    BY <1>4, <2>2 DEF Surjection
  <2> QED
    BY <2>1, <2>3, FS_Surjection
<1>6. ASSUME NEW t \in Extracted(ring, cutoff), t # NoTrade
      PROVE  t \in Slots(ring) /\ t.time < cutoff
  <2>1. PICK i \in 0..old - 1 : t = IF i < Capacity THEN ring.data[At(ring, i)] ELSE NoTrade
    BY <1>4
  <2>2. i < Capacity /\ t = ring.data[At(ring, i)]
    BY <1>6, <2>1
  <2>3. i \in Nat /\ ~ (i >= Capacity)
    BY <2>2, CapacityAssumption
  <2>4. At(ring, i) \in Positions
    BY <2>3, AtIsPosition DEF RingIsRight
  <2> QED
    BY <1>3, <1>6, <2>2, <2>3, <2>4 DEF Slots
<1> QED
  BY <1>5, <1>6

\* What ExtractOldTrades leaves.
LEMMA RemainingIsRest ==
  ASSUME NEW M, NEW ring, RingIsRight(ring, M), NEW cutoff, NEW after, after = Remaining(ring, cutoff)
  PROVE  /\ RingIsRight(after, M)
         /\ Slots(after) \subseteq Slots(ring) \ Extracted(ring, cutoff)
         /\ RingIsExact(ring) =>
              /\ RingIsExact(after) /\ NoTrade \notin Extracted(ring, cutoff)
              /\ Slots(ring) = Slots(after) \cup Extracted(ring, cutoff)
<1>1. Capacity \in Nat \ {0, 1}
  BY CapacityAssumption
<1>2. PICK old : old = OldTrades(ring, cutoff)
  OBVIOUS
<1>3. PICK n \in Nat : n = ring.size
  BY DEF RingIsRight
<1>4. old \in 0..n
  BY <1>2, <1>3, OldTradesAreOld
<1>5. Extracted(ring, cutoff) =
        {IF i < Capacity THEN ring.data[At(ring, i)] ELSE NoTrade : i \in 0..old - 1}
  BY <1>2 DEF Extracted
<1>6. CASE n = 0
  <2>1. after = ring
    BY <1>3, <1>6 DEF Remaining
  <2>2. Extracted(ring, cutoff) = {}
    BY <1>4, <1>5, <1>6
  <2> QED
    BY <2>1, <2>2
<1>7. CASE n # 0
  <2>1. PICK data : data = [p \in Positions |-> IF \E i \in 0..old - 1 : At(ring, i) = p
                                                THEN NoTrade ELSE ring.data[p]]
    OBVIOUS
  <2>2. ring.data = [p \in Positions |-> ring.data[p]]
    BY DEF RingIsRight
  <2>3. after = [ring EXCEPT !.data = data, !.read = At(ring, old), !.size = n - old,
                             !.full = ring.full /\ n - old >= Capacity]
    <3>1. DOMAIN ring.data = Positions
      BY <2>2
    <3> QED
      BY <1>2, <1>3, <1>7, <2>1, <3>1 DEF Remaining
  <2>4. ring = [data |-> ring.data, write |-> ring.write, read |-> ring.read,
                full |-> ring.full, size |-> ring.size]
    BY DEF RingIsRight
  <2>5. /\ after.data = data /\ after.write = ring.write /\ after.read = At(ring, old)
        /\ after.size = n - old /\ after.full = (ring.full /\ n - old >= Capacity)
        /\ after = [data |-> after.data, write |-> after.write, read |-> after.read,
                    full |-> after.full, size |-> after.size]
    BY <2>3, <2>4
  <2>6. after.read \in Positions /\ after.size \in Nat /\ after.full \in BOOLEAN
    <3>1. At(ring, old) \in Positions
      BY <1>4, AtIsPosition DEF RingIsRight
    <3> QED
      BY <1>4, <2>5, <3>1
  <2>7. \A p \in Positions : \/ data[p] = NoTrade /\ \E i \in 0..old - 1 : At(ring, i) = p
                             \/ data[p] = ring.data[p] /\ ~ \E i \in 0..old - 1 : At(ring, i) = p
    BY <2>1
  <2>8. Slots(after) \subseteq Slots(ring)
    BY <2>5, <2>7 DEF Slots
  <2>9. ASSUME NEW t \in Slots(after), t \in Extracted(ring, cutoff)
        PROVE  FALSE
    <3>1. PICK p \in Positions : t = data[p] /\ t # NoTrade
      BY <2>5 DEF Slots
    <3>2. data[p] = ring.data[p] /\ ~ \E i \in 0..old - 1 : At(ring, i) = p
      BY <2>7, <3>1
    <3>3. PICK i \in 0..old - 1 : t = IF i < Capacity THEN ring.data[At(ring, i)] ELSE NoTrade
      BY <1>5, <2>9
    <3>4. t = ring.data[At(ring, i)] /\ At(ring, i) \in Positions
      BY <1>4, <3>1, <3>3, AtIsPosition DEF RingIsRight
    <3>5. p = At(ring, i)
      BY <3>1, <3>2, <3>4 DEF RingIsRight
    <3> QED
      BY <3>2, <3>5
  <2>10. RingIsRight(after, M)
    <3>1. after.data = [p \in Positions |-> after.data[p]]
      BY <2>1, <2>5
    <3>2. \A p, q \in Positions : data[p] = data[q] /\ data[p] # NoTrade => p = q
      BY <2>7 DEF RingIsRight
    <3>3. Slots(after) \subseteq M /\ after.write \in Positions
      BY <2>5, <2>8 DEF RingIsRight
    <3> QED
      BY <2>5, <2>6, <3>1, <3>2, <3>3, Zenon DEF RingIsRight
  <2>11. ASSUME RingIsExact(ring)
         PROVE  /\ RingIsExact(after) /\ NoTrade \notin Extracted(ring, cutoff)
                /\ Slots(ring) \subseteq Slots(after) \cup Extracted(ring, cutoff)
                /\ Extracted(ring, cutoff) \subseteq Slots(ring)
    <3>1. /\ ring.full = FALSE /\ n < Capacity /\ ring.write = At(ring, n)
          /\ \A i \in 0..n - 1 : ring.data[At(ring, i)] # NoTrade
          /\ \A p \in Positions : ring.data[p] # NoTrade => \E i \in 0..n - 1 : p = At(ring, i)
      BY <1>3, <2>11 DEF RingIsExact
    <3>2. ring.read \in Positions
      BY DEF RingIsRight
    <3>3. \A i \in 0..n - old : At(after, i) = At(ring, old + i)
      <4> TAKE i \in 0..n - old
      <4>1. old \in Nat /\ i \in Nat /\ old + i <= Capacity
        BY <1>1, <1>4, <3>1
      <4> QED
        BY <2>5, <3>2, <4>1, AtOnward DEF At
    <3>4. Extracted(ring, cutoff) = {ring.data[At(ring, i)] : i \in 0..old - 1}
      <4>1. \A i \in 0..old - 1 : i < Capacity
        BY <1>1, <1>4, <3>1
      <4> QED
        BY <1>5, <4>1
    <3>5. \A i \in 0..old - 1 : i \in 0..n - 1 /\ At(ring, i) \in Positions
      BY <1>4, <3>2, AtIsPosition
    <3>6. NoTrade \notin Extracted(ring, cutoff) /\ Extracted(ring, cutoff) \subseteq Slots(ring)
      BY <3>1, <3>4, <3>5 DEF Slots
    <3>7. Slots(ring) \subseteq Slots(after) \cup Extracted(ring, cutoff)
      <4> SUFFICES ASSUME NEW p \in Positions, ring.data[p] # NoTrade,
                          ring.data[p] \notin Extracted(ring, cutoff)
                   PROVE  ring.data[p] \in Slots(after)
        BY DEF Slots
      <4>1. data[p] = ring.data[p]
        BY <2>7, <3>4
      <4> QED
        BY <2>5, <4>1 DEF Slots
    <3>8. \A i \in 0..n - old - 1 : data[At(ring, old + i)] # NoTrade
      <4> TAKE i \in 0..n - old - 1
      <4>1. old + i \in 0..n - 1 /\ old + i \in Positions
        BY <1>1, <1>4, <3>1 DEF Positions
      <4>2. At(ring, old + i) \in Positions
        BY <3>2, <4>1, AtIsPosition
      <4>3. ASSUME NEW j \in 0..old - 1, At(ring, j) = At(ring, old + i)
            PROVE  FALSE
        <5>1. j \in Positions /\ j # old + i
          BY <1>1, <1>4, <3>1 DEF Positions
        <5>2. PICK k \in Positions : k = old + i
          BY <4>1
        <5> QED
          BY <3>2, <4>3, <5>1, <5>2, AtIsOne
      <4> QED
        BY <2>7, <3>1, <4>1, <4>2, <4>3
    <3>9. ASSUME NEW p \in Positions, data[p] # NoTrade
          PROVE  \E i \in 0..n - old - 1 : p = At(after, i)
      <4>1. data[p] = ring.data[p] /\ ~ \E i \in 0..old - 1 : At(ring, i) = p
        BY <2>7, <3>9
      <4>2. PICK i \in 0..n - 1 : p = At(ring, i)
        BY <3>1, <3>9, <4>1
      <4>3. ~ (i \in 0..old - 1)
        BY <4>1, <4>2
      <4>4. PICK j : j = i - old
        OBVIOUS
      <4>5. j \in 0..n - old - 1 /\ j \in 0..n - old /\ old + j = i
        BY <1>4, <4>3, <4>4
      <4>6. p = At(after, j)
        BY <3>3, <4>2, <4>5
      <4> QED
        BY <4>5, <4>6
    <3>10. after.write = At(after, after.size)
      <4>1. n - old \in 0..n - old /\ old + (n - old) = n
        BY <1>4
      <4> QED
        BY <2>5, <3>1, <3>3, <4>1
    <3>11. after.full = FALSE /\ after.size < Capacity
      <4>1. after.full = FALSE
        BY <2>5, <3>1, Zenon
      <4>2. after.size < Capacity
        BY <1>1, <1>4, <2>5, <3>1
      <4> QED
        BY <4>1, <4>2, Zenon
    <3>12. \A i \in 0..after.size - 1 : after.data[At(after, i)] # NoTrade
      <4> TAKE i \in 0..after.size - 1
      <4>1. i \in 0..n - old - 1 /\ i \in 0..n - old
        BY <1>4, <2>5
      <4> QED
        BY <2>5, <3>3, <3>8, <4>1
    <3>13. RingIsExact(after)
      BY <2>5, <3>9, <3>10, <3>11, <3>12 DEF RingIsExact
    <3> QED
      BY <3>6, <3>7, <3>13
  <2> QED
    BY <2>8, <2>9, <2>10, <2>11
<1> QED
  BY <1>6, <1>7

-----------------------------------------------------------------------------
(* The slice *)

LegacyIds(slice) == {slice[i].id : i \in 1..Len(slice)}

SliceIsRight(slice, M) ==
  /\ slice \in Seq(M)
  /\ \A i, j \in 1..Len(slice) : slice[i].id = slice[j].id => i = j

SliceAfter(slice, trade) ==
  Append(IF Len(slice) >= LegacyCap THEN SubSeq(slice, RemoveCount + 1, Len(slice)) ELSE slice, trade)

\* storeInLegacyBuffer
LEMMA SliceStored ==
  ASSUME NEW M, NEW slice, SliceIsRight(slice, M), NEW trade \in M, trade.id \notin LegacyIds(slice),
         NEW after, after = SliceAfter(slice, trade)
  PROVE  /\ SliceIsRight(after, M)
         /\ LegacyIds(after) \subseteq LegacyIds(slice) \cup {trade.id}
         /\ ~ (Len(slice) >= LegacyCap) => LegacyIds(after) = LegacyIds(slice) \cup {trade.id}
<1>1. LegacyCap \in Nat /\ RemoveCount \in 1..LegacyCap
  BY BufferAssumption
<1>2. slice \in Seq(M) /\ Len(slice) \in Nat
  BY DEF SliceIsRight
<1>3. PICK cut \in Nat : cut = IF Len(slice) >= LegacyCap THEN RemoveCount ELSE 0
  BY <1>1
<1>4. cut <= Len(slice)
  BY <1>1, <1>2, <1>3
<1>5. PICK rest : rest = IF Len(slice) >= LegacyCap
                         THEN SubSeq(slice, RemoveCount + 1, Len(slice)) ELSE slice
  OBVIOUS
<1>6. /\ rest \in Seq(M) /\ Len(rest) = Len(slice) - cut
      /\ \A i \in 1..Len(rest) : i + cut \in 1..Len(slice) /\ rest[i] = slice[i + cut]
  <2>1. CASE Len(slice) >= LegacyCap
    <3>1. rest = SubSeq(slice, cut + 1, Len(slice))
      BY <1>3, <1>5, <2>1
    <3>2. rest \in Seq(M) /\ Len(rest) = Len(slice) - cut
      BY <1>2, <1>4, <3>1
    <3>3. ASSUME NEW i \in 1..Len(rest)
          PROVE  i + cut \in 1..Len(slice) /\ rest[i] = slice[i + cut]
      BY <1>2, <1>4, <3>1, <3>2
    <3> QED
      BY <3>2, <3>3
  <2>2. CASE ~ (Len(slice) >= LegacyCap)
    <3>1. rest = slice /\ cut = 0
      BY <1>3, <1>5, <2>2
    <3> QED
      BY <1>2, <3>1
  <2> QED
    BY <2>1, <2>2
<1>7. PICK n \in Nat : n = Len(rest)
  <2>1. rest \in Seq(M)
    BY <1>6
  <2> QED
    BY <2>1
<1>8. after = Append(rest, trade)
  BY <1>5 DEF SliceAfter
<1>9. /\ after \in Seq(M) /\ Len(after) = n + 1 /\ after[n + 1] = trade
      /\ \A i \in 1..n : after[i] = rest[i]
  <2>1. rest \in Seq(M)
    BY <1>6
  <2>2. /\ Append(rest, trade) \in Seq(M) /\ Len(Append(rest, trade)) = Len(rest) + 1
        /\ \A i \in 1..Len(rest) : Append(rest, trade)[i] = rest[i]
        /\ Append(rest, trade)[Len(rest) + 1] = trade
    BY <2>1, AppendProperties
  <2> QED
    BY <1>7, <1>8, <2>2
<1>10. ASSUME NEW i \in 1..n
       PROVE  after[i].id \in LegacyIds(slice)
  <2>1. after[i] = rest[i]
    BY <1>9
  <2>2. i + cut \in 1..Len(slice) /\ rest[i] = slice[i + cut]
    BY <1>6, <1>7
  <2>3. after[i].id = slice[i + cut].id
    BY <2>1, <2>2
  <2> QED
    BY <2>2, <2>3 DEF LegacyIds
<1>11. \A i, j \in 1..Len(after) : after[i].id = after[j].id => i = j
  <2> SUFFICES ASSUME NEW i \in 1..n + 1, NEW j \in 1..n + 1, after[i].id = after[j].id
               PROVE  i = j
    BY <1>9
  <2>1. CASE i \in 1..n /\ j \in 1..n
    <3>1. slice[i + cut].id = slice[j + cut].id /\ i + cut \in 1..Len(slice) /\ j + cut \in 1..Len(slice)
      BY <1>6, <1>7, <1>9, <2>1
    <3>2. i + cut = j + cut
      BY <3>1 DEF SliceIsRight
    <3> QED
      BY <3>2
  <2>2. CASE i = n + 1 /\ j \in 1..n
    BY <1>9, <1>10, <2>2
  <2>3. CASE j = n + 1 /\ i \in 1..n
    BY <1>9, <1>10, <2>3
  <2> QED
    BY <2>1, <2>2, <2>3
<1>12. LegacyIds(after) \subseteq LegacyIds(slice) \cup {trade.id}
  <2> SUFFICES ASSUME NEW i \in 1..n + 1 PROVE after[i].id \in LegacyIds(slice) \cup {trade.id}
    BY <1>9 DEF LegacyIds
  <2> QED
    BY <1>9, <1>10
<1>13. ASSUME ~ (Len(slice) >= LegacyCap)
       PROVE  LegacyIds(slice) \cup {trade.id} \subseteq LegacyIds(after)
  <2>1. rest = slice /\ Len(slice) = n
    BY <1>5, <1>7, <1>13
  <2>2. \A i \in 1..n : slice[i].id \in LegacyIds(after)
    BY <1>9, <2>1 DEF LegacyIds
  <2>3. n + 1 \in 1..Len(after)
    BY <1>9
  <2>4. trade.id \in LegacyIds(after)
    BY <1>9, <2>3 DEF LegacyIds
  <2> QED
    BY <2>1, <2>2, <2>4 DEF LegacyIds
<1>14. SliceIsRight(after, M)
  BY <1>9, <1>11 DEF SliceIsRight
<1> QED
  BY <1>12, <1>13, <1>14

-----------------------------------------------------------------------------
(* The invariant *)

Made == {s.trade : s \in stored}

\* The ids are those given so far.
StoredIsRight ==
  /\ clock \in Nat /\ clock >= StartTime
  /\ IsFiniteSet(stored)
  /\ \A s \in stored : IsTrade(s.trade) /\ s.trade.id \in 1..Cardinality(stored)
  /\ \A s, u \in stored : s.trade.id = u.trade.id => s = u

PlacesAreRight ==
  /\ RingIsRight(hot, Known) /\ BlocksAreRight(cold, Made) /\ SliceIsRight(legacy, Made)
  /\ IdsOf(Slots(hot)) \cap BlockIds(cold) = {}
  /\ IdsOf(Slots(hot)) \cap LegacyIds(legacy) = {}
  /\ BlockIds(cold) \cap LegacyIds(legacy) = {}

\* What has not been too much for the ring.
RecentsAreInRing ==
  /\ RingIsExact(hot)
  /\ \A t \in Known : t.time >= hotStart => t \in Slots(hot)

NoneIsMissing == IdsOf(Made) \subseteq IdsOf(Slots(hot)) \cup BlockIds(cold) \cup LegacyIds(legacy)

AllParse == \A t \in Made : t.price # Invalid

Inv ==
  /\ StoredIsRight /\ PlacesAreRight
  /\ ~overflowed => RecentsAreInRing
  /\ ~overflowed /\ AllParse => NoneIsMissing

LEMMA MadeIsGenuine ==
  ASSUME StoredIsRight
  PROVE  Genuine(Made) /\ Known \subseteq Made
<1>1. Known \subseteq Made
  BY DEF Known, Made
<1>2. UniqueIds(Made)
  BY DEF StoredIsRight, Made, UniqueIds
<1> QED
  BY <1>1, <1>2 DEF StoredIsRight, Made, Genuine

LEMMA NoTradeFact == NoTradeIsRefused /\ Invalid \notin Int
  BY BufferAssumption DEF NoTradeIsRefused

LEMMA InvInit ==
  ASSUME Init
  PROVE  Inv
<1>1. stored = {} /\ clock = StartTime /\ hot = EmptyRing /\ cold = EmptyBlocks /\ legacy = <<>>
  BY DEF Init
<1>2. StartTime \in Nat
  BY BufferAssumption
<1>3. StoredIsRight
  BY <1>1, <1>2, FS_EmptySet DEF StoredIsRight
<1>4. Made = {} /\ Known = {}
  BY <1>1 DEF Made, Known
<1>5. RingIsRight(hot, Known) /\ RingIsExact(hot) /\ Slots(hot) = {}
  BY <1>1, EmptyRingIsRight
<1>6. \A b \in BlockIndexes : cold[b] = {}
  BY <1>1 DEF EmptyBlocks, BlockIndexes
<1>7. cold = [b \in BlockIndexes |-> cold[b]]
  BY <1>1 DEF EmptyBlocks, BlockIndexes
<1>8. BlockIsRight({}, Made)
  BY <1>4, FS_EmptySet
     DEF BlockIsRight, UniqueIds, IdsOf, TimesAreRight, PricesAreRight, QuantitiesAreRight, SymbolsAreRight
<1>9. BlocksAreRight(cold, Made) /\ BlockIds(cold) = {}
  <2>1. IdsOf({}) = {}
    BY DEF IdsOf
  <2> QED
    BY <1>6, <1>7, <1>8, <2>1 DEF BlocksAreRight, BlockIds
<1>10. SliceIsRight(legacy, Made) /\ LegacyIds(legacy) = {}
  BY <1>1 DEF SliceIsRight, LegacyIds
<1>11. PlacesAreRight
  <2>1. IdsOf(Slots(hot)) = {}
    BY <1>5 DEF IdsOf
  <2> QED
    BY <1>5, <1>9, <1>10, <2>1 DEF PlacesAreRight
<1>12. RecentsAreInRing
  BY <1>4, <1>5 DEF RecentsAreInRing
<1>13. NoneIsMissing
  BY <1>4 DEF NoneIsMissing, IdsOf
<1> QED
  BY <1>3, <1>11, <1>12, <1>13 DEF Inv

-----------------------------------------------------------------------------
(* The steps *)

\* What a step that stores a trade does to the history.
Stores(trade, key) ==
  /\ StoredIsRight' /\ Made' = Made \cup {trade}
  /\ Known' = IF key = "known" THEN Known \cup {trade} ELSE Known
  /\ trade.id \notin IdsOf(Made) /\ trade # NoTrade /\ UNCHANGED clock

LEMMA TradeStored ==
  ASSUME StoredIsRight, UNCHANGED clock, NEW kind \in Kinds, NEW trade,
         trade = [id |-> Cardinality(stored) + 1, time |-> clock - kind.lag, price |-> kind.price,
                  quantity |-> kind.quantity, symbol |-> kind.symbol],
         stored' = stored \cup {[key |-> kind.key, trade |-> trade]}
  PROVE  Stores(trade, kind.key)
<1>1. PICK n \in Nat : n = Cardinality(stored)
  BY FS_CardinalityType DEF StoredIsRight
<1>2. /\ trade.id = n + 1 /\ trade.time = clock - kind.lag
      /\ trade.price = kind.price /\ trade.quantity = kind.quantity
  BY <1>1
<1>3. IsTrade(trade)
  <2>1. /\ kind.lag \in 0..StartTime - 1 /\ StartTime \in Nat
        /\ kind.price \in Int \cup {Invalid} /\ kind.quantity \in Nat \cup {Invalid}
    BY BufferAssumption
  <2>2. clock \in Nat /\ clock >= StartTime
    BY DEF StoredIsRight
  <2>3. clock - kind.lag \in Nat \ {0}
    BY <2>1, <2>2
  <2> QED
    BY <1>2, <2>1, <2>3 DEF IsTrade
<1>4. PICK new : new = [key |-> kind.key, trade |-> trade]
  OBVIOUS
<1>5. new.key = kind.key /\ new.trade = trade /\ stored' = stored \cup {new}
  BY <1>4
<1>6. \A s \in stored : s.trade.id \in 1..n
  BY <1>1 DEF StoredIsRight
<1>7. new \notin stored
  BY <1>2, <1>5, <1>6
<1>8. IsFiniteSet(stored') /\ Cardinality(stored') = n + 1
  <2>1. IsFiniteSet(stored)
    BY DEF StoredIsRight
  <2>2. IsFiniteSet(stored \cup {new}) /\ Cardinality(stored \cup {new}) = Cardinality(stored) + 1
    BY <1>7, <2>1, FS_AddElement
  <2> QED
    BY <1>1, <1>5, <2>2
<1>9. StoredIsRight'
  <2>1. \A s \in stored' : IsTrade(s.trade) /\ s.trade.id \in 1..n + 1
    BY <1>2, <1>3, <1>5, <1>6 DEF StoredIsRight
  <2>2. \A s, u \in stored' : s.trade.id = u.trade.id => s = u
    <3> SUFFICES ASSUME NEW s \in stored', NEW u \in stored', s.trade.id = u.trade.id PROVE s = u
      OBVIOUS
    <3>1. CASE s \in stored /\ u \in stored
      BY <3>1 DEF StoredIsRight
    <3>2. CASE s = new /\ u \in stored
      BY <1>2, <1>5, <1>6, <3>2
    <3>3. CASE u = new /\ s \in stored
      BY <1>2, <1>5, <1>6, <3>3
    <3> QED
      BY <1>5, <3>1, <3>2, <3>3
  <2> QED
    BY <1>8, <2>1, <2>2 DEF StoredIsRight
<1>10. Made' = Made \cup {trade}
  BY <1>5 DEF Made
<1>11. Known' = IF kind.key = "known" THEN Known \cup {trade} ELSE Known
  BY <1>5 DEF Known
<1>12. trade.id \notin IdsOf(Made)
  BY <1>2, <1>6 DEF IdsOf, Made
<1>13. trade # NoTrade
  BY <1>1, <1>2, NoTradeFact DEF NoTradeIsRefused
<1> QED
  BY <1>9, <1>10, <1>11, <1>12, <1>13 DEF Stores

\* The ids in the three places are those of trades that were made.
LEMMA PlacesHaveMade ==
  ASSUME StoredIsRight, PlacesAreRight
  PROVE  /\ IdsOf(Slots(hot)) \subseteq IdsOf(Made) /\ BlockIds(cold) \subseteq IdsOf(Made)
         /\ LegacyIds(legacy) \subseteq IdsOf(Made)
<1>1. Slots(hot) \subseteq Made
  BY MadeIsGenuine DEF PlacesAreRight, RingIsRight
<1>2. IdsOf(Slots(hot)) \subseteq IdsOf(Made)
  BY <1>1 DEF IdsOf
<1>3. BlockIds(cold) \subseteq IdsOf(Made)
  BY DEF BlockIds, PlacesAreRight, BlocksAreRight, BlockIsRight
<1>4. \A i \in 1..Len(legacy) : legacy[i] \in Made
  BY DEF PlacesAreRight, SliceIsRight
<1>5. LegacyIds(legacy) \subseteq IdsOf(Made)
  BY <1>4 DEF LegacyIds, IdsOf
<1> QED
  BY <1>2, <1>3, <1>5

\* A trade that is stored leaves the places as they are.
LEMMA PlacesAmongMore ==
  ASSUME StoredIsRight, PlacesAreRight, NEW trade, NEW key, Stores(trade, key)
  PROVE  /\ RingIsRight(hot, Known') /\ BlocksAreRight(cold, Made') /\ SliceIsRight(legacy, Made')
         /\ Genuine(Made') /\ trade \in Made' /\ trade.id \notin BlockIds(cold)
         /\ trade.id \notin LegacyIds(legacy) /\ trade \notin Slots(hot)
<1>1. Made \subseteq Made' /\ Known \subseteq Known' /\ trade \in Made' /\ trade.id \notin IdsOf(Made)
  BY DEF Stores
<1>2. Genuine(Made')
  <2>1. UniqueIds(Made')
    BY DEF Stores, StoredIsRight, Made, UniqueIds
  <2>2. \A t \in Made' : IsTrade(t)
    BY DEF Stores, StoredIsRight, Made
  <2> QED
    BY <2>1, <2>2 DEF Genuine
<1>3. RingIsRight(hot, Known')
  BY <1>1 DEF PlacesAreRight, RingIsRight
<1>4. BlocksAreRight(cold, Made')
  <2>1. \A b \in BlockIndexes : BlockIsRight(cold[b], Made')
    BY <1>1, <1>2, BlockAmongMore DEF PlacesAreRight, BlocksAreRight, Genuine
  <2> QED
    BY <2>1 DEF PlacesAreRight, BlocksAreRight
<1>5. SliceIsRight(legacy, Made')
  BY <1>1 DEF PlacesAreRight, SliceIsRight
<1>6. trade.id \notin IdsOf(Slots(hot)) /\ trade.id \notin BlockIds(cold) /\ trade.id \notin LegacyIds(legacy)
  BY <1>1, PlacesHaveMade
<1>7. trade \notin Slots(hot)
  BY <1>6 DEF IdsOf
<1> QED
  BY <1>1, <1>2, <1>3, <1>4, <1>5, <1>6, <1>7

\* storeInHotBuffer
LEMMA HotKeeps ==
  ASSUME Inv, NEW trade, Stores(trade, "known"), storeInHotBuffer(trade)
  PROVE  Inv'
<1>1. StoredIsRight /\ PlacesAreRight
  BY DEF Inv
<1>2. /\ hot' = Store(hot, trade) /\ overflowed' = (overflowed \/ hot'.full)
      /\ cold' = cold /\ legacy' = legacy /\ clock' = clock
  BY DEF storeInHotBuffer, Stores
<1>3. Known' = Known \cup {trade} /\ Made' = Made \cup {trade} /\ trade # NoTrade
  BY DEF Stores
<1>4. /\ RingIsRight(hot, Known') /\ BlocksAreRight(cold, Made') /\ SliceIsRight(legacy, Made')
      /\ trade.id \notin BlockIds(cold) /\ trade.id \notin LegacyIds(legacy) /\ trade \notin Slots(hot)
  BY <1>1, PlacesAmongMore
<1>5. /\ RingIsRight(hot', Known')
      /\ Slots(hot') \subseteq Slots(hot) \cup {trade}
      /\ RingIsExact(hot) /\ ~hot'.full => RingIsExact(hot') /\ Slots(hot') = Slots(hot) \cup {trade}
  <2>1. PICK M, after : M = Known' /\ after = hot'
    OBVIOUS
  <2>2. /\ RingIsRight(after, M)
        /\ Slots(after) \subseteq Slots(hot) \cup {trade}
        /\ RingIsExact(hot) /\ ~after.full => RingIsExact(after) /\ Slots(after) = Slots(hot) \cup {trade}
    BY <1>2, <1>3, <1>4, <2>1, RingStored
  <2> QED
    BY <2>1, <2>2
<1>6. BlocksAreRight(cold', Made') /\ SliceIsRight(legacy', Made')
  BY <1>2, <1>4
<1>7. IdsOf(Slots(hot')) \subseteq IdsOf(Slots(hot)) \cup {trade.id}
  BY <1>5 DEF IdsOf
<1>8. PlacesAreRight'
  <2>1. IdsOf(Slots(hot')) \cap BlockIds(cold') = {}
    BY <1>1, <1>2, <1>4, <1>7 DEF PlacesAreRight
  <2>2. IdsOf(Slots(hot')) \cap LegacyIds(legacy') = {}
    BY <1>1, <1>2, <1>4, <1>7 DEF PlacesAreRight
  <2>3. BlockIds(cold') \cap LegacyIds(legacy') = {}
    BY <1>1, <1>2 DEF PlacesAreRight
  <2> QED
    BY <1>5, <1>6, <2>1, <2>2, <2>3 DEF PlacesAreRight
<1>9. ASSUME ~overflowed'
      PROVE  ~overflowed /\ RecentsAreInRing /\ RingIsExact(hot') /\ Slots(hot') = Slots(hot) \cup {trade}
  <2>1. ~overflowed /\ ~hot'.full
    BY <1>2, <1>9
  <2>2. RecentsAreInRing
    BY <2>1 DEF Inv
  <2> QED
    BY <1>5, <2>1, <2>2 DEF RecentsAreInRing
<1>10. ~overflowed' => RecentsAreInRing'
  BY <1>2, <1>3, <1>9 DEF RecentsAreInRing, hotStart
<1>11. ~overflowed' /\ AllParse' => NoneIsMissing'
  <2> SUFFICES ASSUME ~overflowed', AllParse' PROVE NoneIsMissing'
    OBVIOUS
  <2>1. AllParse
    BY <1>3 DEF AllParse
  <2>2. NoneIsMissing
    BY <1>9, <2>1 DEF Inv
  <2>3. IdsOf(Slots(hot')) = IdsOf(Slots(hot)) \cup {trade.id} /\ IdsOf(Made') = IdsOf(Made) \cup {trade.id}
    BY <1>3, <1>9 DEF IdsOf
  <2>4. BlockIds(cold') = BlockIds(cold) /\ LegacyIds(legacy') = LegacyIds(legacy)
    BY <1>2
  <2> QED
    BY <2>2, <2>3, <2>4 DEF NoneIsMissing
<1> QED
  BY <1>8, <1>10, <1>11 DEF Inv, Stores

\* storeInLegacyBuffer, of a trade of an unknown market or one that a block has
\* refused.
LEMMA LegacyKeeps ==
  ASSUME Inv, NEW trade, NEW key, Stores(trade, key), storeInLegacyBuffer(trade), UNCHANGED cold,
         key = "known" => trade.time < hotStart
  PROVE  Inv'
<1>1. StoredIsRight /\ PlacesAreRight
  BY DEF Inv
<1>2. /\ overflowed' = (overflowed \/ Len(legacy) >= LegacyCap)
      /\ hot' = hot /\ cold' = cold /\ clock' = clock
  BY DEF storeInLegacyBuffer, Stores
<1>3. /\ Known' = IF key = "known" THEN Known \cup {trade} ELSE Known
      /\ Made' = Made \cup {trade} /\ trade.id \notin IdsOf(Made)
  BY DEF Stores
<1>4. /\ RingIsRight(hot, Known') /\ BlocksAreRight(cold, Made') /\ SliceIsRight(legacy, Made')
      /\ trade \in Made' /\ trade.id \notin LegacyIds(legacy)
  BY <1>1, PlacesAmongMore
<1>5. /\ SliceIsRight(legacy', Made')
      /\ LegacyIds(legacy') \subseteq LegacyIds(legacy) \cup {trade.id}
      /\ ~ (Len(legacy) >= LegacyCap) => LegacyIds(legacy') = LegacyIds(legacy) \cup {trade.id}
  <2>1. PICK M, after : M = Made' /\ after = legacy'
    OBVIOUS
  <2>2. after = SliceAfter(legacy, trade)
    BY <2>1 DEF storeInLegacyBuffer, SliceAfter
  <2>3. SliceIsRight(legacy, M) /\ trade \in M /\ trade.id \notin LegacyIds(legacy)
    BY <1>4, <2>1
  <2>4. /\ SliceIsRight(after, M)
        /\ LegacyIds(after) \subseteq LegacyIds(legacy) \cup {trade.id}
        /\ ~ (Len(legacy) >= LegacyCap) => LegacyIds(after) = LegacyIds(legacy) \cup {trade.id}
    BY <2>2, <2>3, SliceStored
  <2> QED
    BY <2>1, <2>4
<1>6. trade.id \notin IdsOf(Slots(hot)) /\ trade.id \notin BlockIds(cold)
  BY <1>1, <1>3, PlacesHaveMade
<1>7. PlacesAreRight'
  <2>1. IdsOf(Slots(hot')) \cap BlockIds(cold') = {}
    BY <1>1, <1>2 DEF PlacesAreRight
  <2>2. IdsOf(Slots(hot')) \cap LegacyIds(legacy') = {}
    BY <1>1, <1>2, <1>5, <1>6 DEF PlacesAreRight
  <2>3. BlockIds(cold') \cap LegacyIds(legacy') = {}
    BY <1>1, <1>2, <1>5, <1>6 DEF PlacesAreRight
  <2> QED
    BY <1>2, <1>4, <1>5, <2>1, <2>2, <2>3 DEF PlacesAreRight
<1>8. ASSUME ~overflowed'
      PROVE  ~overflowed /\ RecentsAreInRing /\ LegacyIds(legacy') = LegacyIds(legacy) \cup {trade.id}
  BY <1>2, <1>5, <1>8 DEF Inv
<1>9. ASSUME ~overflowed'
      PROVE  RecentsAreInRing'
  <2>1. \A t \in Known' : t.time >= hotStart => t \in Slots(hot)
    <3> SUFFICES ASSUME NEW t \in Known', t.time >= hotStart PROVE t \in Slots(hot)
      OBVIOUS
    <3>1. t \in Known \/ (key = "known" /\ t = trade)
      BY <1>3
    <3>2. ~ (key = "known" /\ t = trade)
      <4>1. trade.time \in Int /\ hotStart \in Int
        <5>1. IsTrade(trade)
          BY <1>1, <1>4, PlacesAmongMore DEF Genuine
        <5>2. clock \in Nat /\ HotDuration \in Nat
          BY <1>1, BufferAssumption DEF StoredIsRight
        <5> QED
          BY <5>1, <5>2 DEF IsTrade, hotStart
      <4> QED
        BY <4>1
    <3> QED
      BY <1>8, <1>9, <3>1, <3>2 DEF RecentsAreInRing
  <2> QED
    BY <1>2, <1>8, <1>9, <2>1 DEF RecentsAreInRing, hotStart
<1>10. ASSUME ~overflowed', AllParse'
       PROVE  NoneIsMissing'
  <2>1. NoneIsMissing
    <3>1. AllParse
      BY <1>3, <1>10 DEF AllParse
    <3> QED
      BY <1>8, <1>10, <3>1 DEF Inv
  <2>2. IdsOf(Made') = IdsOf(Made) \cup {trade.id}
    BY <1>3 DEF IdsOf
  <2>3. Slots(hot') = Slots(hot) /\ BlockIds(cold') = BlockIds(cold)
    BY <1>2
  <2> QED
    BY <1>8, <1>10, <2>1, <2>2, <2>3 DEF NoneIsMissing
<1> QED
  BY <1>7, <1>9, <1>10 DEF Inv, Stores

\* moveToColdbuffer
LEMMA ColdKeeps ==
  ASSUME Inv, NEW trade, Stores(trade, "known"), moveToColdbuffer(trade)
  PROVE  Inv'
<1>1. StoredIsRight /\ PlacesAreRight
  BY DEF Inv
<1>2. PICK r \in ColdStore(cold, trade) :
        /\ cold' = r.blocks
        /\ IF r.ok THEN UNCHANGED <<hot, legacy, overflowed>> ELSE storeInLegacyBuffer(trade)
  BY DEF moveToColdbuffer
<1>3. trade.time < hotStart
  BY DEF moveToColdbuffer
<1>4. Known' = Known \cup {trade} /\ Made' = Made \cup {trade} /\ clock' = clock
  BY DEF Stores
<1>5. /\ RingIsRight(hot, Known') /\ BlocksAreRight(cold, Made') /\ SliceIsRight(legacy, Made')
      /\ Genuine(Made') /\ trade \in Made' /\ trade.id \notin BlockIds(cold)
      /\ trade.id \notin LegacyIds(legacy) /\ trade \notin Slots(hot)
  BY <1>1, PlacesAmongMore
<1>6. /\ ~r.ok => r.blocks = cold
      /\ r.ok => BlocksAreRight(r.blocks, Made') /\ BlockIds(r.blocks) = BlockIds(cold) \cup {trade.id}
      /\ trade.price # Invalid => r.ok
  <2>1. PICK M : M = Made'
    OBVIOUS
  <2>2. /\ ~r.ok => r.blocks = cold
        /\ r.ok => BlocksAreRight(r.blocks, M) /\ BlockIds(r.blocks) = BlockIds(cold) \cup {trade.id}
        /\ trade.price # Invalid => r.ok
    <3>1. Genuine(M) /\ BlocksAreRight(cold, M) /\ trade \in M /\ trade.id \notin BlockIds(cold)
      BY <1>5, <2>1
    <3> QED
      BY <3>1, NoTradeFact, ColdStored
  <2> QED
    BY <2>1, <2>2
<1>7. CASE ~r.ok
  <2>1. UNCHANGED cold /\ storeInLegacyBuffer(trade)
    BY <1>2, <1>6, <1>7
  <2> QED
    BY <1>3, <2>1, LegacyKeeps
<1>8. CASE r.ok
  <2>1. hot' = hot /\ legacy' = legacy /\ overflowed' = overflowed
    BY <1>2, <1>8
  <2>2. BlocksAreRight(cold', Made') /\ BlockIds(cold') = BlockIds(cold) \cup {trade.id}
    BY <1>2, <1>6, <1>8
  <2>3. trade.id \notin IdsOf(Slots(hot)) /\ trade.id \notin LegacyIds(legacy)
    BY <1>1, <1>5, PlacesHaveMade DEF Stores
  <2>4. PlacesAreRight'
    <3>1. IdsOf(Slots(hot')) \cap BlockIds(cold') = {}
      BY <1>1, <2>1, <2>2, <2>3 DEF PlacesAreRight
    <3>2. IdsOf(Slots(hot')) \cap LegacyIds(legacy') = {}
      BY <1>1, <2>1 DEF PlacesAreRight
    <3>3. BlockIds(cold') \cap LegacyIds(legacy') = {}
      BY <1>1, <2>1, <2>2, <2>3 DEF PlacesAreRight
    <3> QED
      BY <1>5, <2>1, <2>2, <3>1, <3>2, <3>3 DEF PlacesAreRight
  <2>5. ASSUME ~overflowed'
        PROVE  RecentsAreInRing'
    <3>1. RecentsAreInRing
      BY <2>1, <2>5 DEF Inv
    <3>2. ~ (trade.time >= hotStart)
      <4>1. trade.time \in Int
        BY <1>5 DEF Genuine, IsTrade
      <4>2. hotStart \in Int
        BY <1>1, BufferAssumption DEF StoredIsRight, hotStart
      <4> QED
        BY <1>3, <4>1, <4>2
    <3> QED
      BY <1>4, <2>1, <3>1, <3>2 DEF RecentsAreInRing, hotStart
  <2>6. ASSUME ~overflowed', AllParse'
        PROVE  NoneIsMissing'
    <3>1. NoneIsMissing
      <4>1. AllParse
        BY <1>4, <2>6 DEF AllParse
      <4> QED
        BY <2>1, <2>6, <4>1 DEF Inv
    <3>2. IdsOf(Made') = IdsOf(Made) \cup {trade.id}
      BY <1>4 DEF IdsOf
    <3> QED
      BY <2>1, <2>2, <3>1, <3>2 DEF NoneIsMissing
  <2> QED
    BY <2>4, <2>5, <2>6 DEF Inv, Stores
<1> QED
  BY <1>7, <1>8

\* performMaintenance
LEMMA MaintenanceKeeps ==
  ASSUME Inv, performMaintenance
  PROVE  Inv'
<1>1. StoredIsRight /\ PlacesAreRight
  BY DEF Inv
<1>2. PICK N : N = Extracted(hot, hotStart)
  OBVIOUS
<1>3. /\ hot' = Remaining(hot, hotStart)
      /\ cold' \in IF N = {} THEN {cold} ELSE CompressAndStore(cold, N)
      /\ clock' = clock /\ legacy' = legacy /\ stored' = stored /\ overflowed' = overflowed
  BY <1>2 DEF performMaintenance
<1>4. Made' = Made /\ Known' = Known /\ hotStart' = hotStart
  BY <1>3 DEF Made, Known, hotStart
<1>5. Genuine(Made) /\ Known \subseteq Made
  BY <1>1, MadeIsGenuine
<1>6. RingIsRight(hot, Known)
  BY <1>1 DEF PlacesAreRight
<1>7. IsFiniteSet(N) /\ \A t \in N : t = NoTrade \/ (t \in Slots(hot) /\ t.time < hotStart)
  BY <1>2, <1>6, ExtractedIsOld
<1>8. /\ RingIsRight(hot', Known) /\ Slots(hot') \subseteq Slots(hot) \ N
      /\ RingIsExact(hot) =>
           RingIsExact(hot') /\ NoTrade \notin N /\ Slots(hot) = Slots(hot') \cup N
  <2>1. PICK after : after = hot'
    OBVIOUS
  <2>2. after = Remaining(hot, hotStart)
    BY <1>3, <2>1
  <2>3. /\ RingIsRight(after, Known) /\ Slots(after) \subseteq Slots(hot) \ N
        /\ RingIsExact(hot) =>
             RingIsExact(after) /\ NoTrade \notin N /\ Slots(hot) = Slots(after) \cup N
    BY <1>2, <1>6, <2>2, RemainingIsRest
  <2> QED
    BY <2>1, <2>3
<1>9. Slots(hot) \subseteq Made
  BY <1>5, <1>6 DEF RingIsRight
<1>10. N \subseteq Made \cup {NoTrade} /\ 0 \notin IdsOf(Made) /\ NoTrade.id = 0
  BY <1>1, <1>7, <1>9, NoTradeFact DEF StoredIsRight, Made, IdsOf, NoTradeIsRefused
<1>11. UniqueIds(N)
  <2> SUFFICES ASSUME NEW t \in N, NEW u \in N, t.id = u.id PROVE t = u
    BY DEF UniqueIds
  <2>1. CASE t \in Made /\ u \in Made
    BY <1>5, <2>1 DEF Genuine, UniqueIds
  <2>2. CASE t = NoTrade /\ u = NoTrade
    BY <2>2
  <2>3. ~ (t \in Made /\ u = NoTrade) /\ ~ (t = NoTrade /\ u \in Made)
    BY <1>10 DEF IdsOf
  <2> QED
    BY <1>10, <2>1, <2>2, <2>3
<1>12. IdsOf(N) \subseteq IdsOf(Slots(hot)) \cup {0}
  BY <1>7, <1>10 DEF IdsOf
<1>13. IdsOf(N) \cap BlockIds(cold) = {}
  <2>1. IdsOf(Slots(hot)) \cap BlockIds(cold) = {} /\ 0 \notin BlockIds(cold)
    BY <1>1, <1>10, PlacesHaveMade DEF PlacesAreRight
  <2> QED
    BY <1>12, <2>1
<1>14. /\ BlocksAreRight(cold', Made)
       /\ BlockIds(cold') \subseteq BlockIds(cold) \cup IdsOf(N)
       /\ N \subseteq Made /\ (\A t \in N : t.price # Invalid) =>
            BlockIds(cold') = BlockIds(cold) \cup IdsOf(N)
  <2>1. BlocksAreRight(cold, Made)
    BY <1>1 DEF PlacesAreRight
  <2>2. CASE N = {}
    <3>1. cold' = cold /\ IdsOf(N) = {}
      BY <1>3, <2>2 DEF IdsOf
    <3> QED
      BY <2>1, <3>1
  <2>3. CASE N # {}
    <3>1. PICK after : after = cold'
      OBVIOUS
    <3>2. after \in CompressAndStore(cold, N)
      BY <1>3, <2>3, <3>1
    <3>3. /\ BlocksAreRight(after, Made)
          /\ BlockIds(after) \subseteq BlockIds(cold) \cup IdsOf(N)
          /\ N \subseteq Made /\ (\A t \in N : t.price # Invalid) =>
               BlockIds(after) = BlockIds(cold) \cup IdsOf(N)
      <4>1. N \in SUBSET (Made \cup {NoTrade})
        BY <1>10
      <4> QED
        BY <1>5, <1>7, <1>11, <1>13, <2>1, <3>2, <4>1, NoTradeFact, ColdCompressed
    <3> QED
      BY <3>1, <3>3
  <2> QED
    BY <2>2, <2>3
<1>15. IdsOf(Slots(hot')) \subseteq IdsOf(Slots(hot)) /\ IdsOf(Slots(hot')) \cap IdsOf(N) = {}
  <2>1. IdsOf(Slots(hot')) \subseteq IdsOf(Slots(hot))
    BY <1>8 DEF IdsOf
  <2>2. ASSUME NEW t \in Slots(hot'), NEW u \in N, t.id = u.id
        PROVE  FALSE
    <3>1. t \in Made /\ t \notin N
      BY <1>8, <1>9
    <3>2. u \in Made
      BY <1>10, <2>2, <3>1 DEF IdsOf
    <3>3. t = u
      BY <1>5, <2>2, <3>1, <3>2 DEF Genuine, UniqueIds
    <3> QED
      BY <3>1, <3>3
  <2> QED
    BY <2>1, <2>2 DEF IdsOf
<1>16. 0 \notin LegacyIds(legacy)
  BY <1>1, <1>10, PlacesHaveMade
<1>17. PlacesAreRight'
  <2>1. IdsOf(Slots(hot')) \cap BlockIds(cold') = {}
    BY <1>1, <1>14, <1>15 DEF PlacesAreRight
  <2>2. IdsOf(Slots(hot')) \cap LegacyIds(legacy') = {}
    BY <1>1, <1>3, <1>15 DEF PlacesAreRight
  <2>3. BlockIds(cold') \cap LegacyIds(legacy') = {}
    BY <1>1, <1>3, <1>12, <1>14, <1>16 DEF PlacesAreRight
  <2> QED
    BY <1>1, <1>3, <1>4, <1>8, <1>14, <2>1, <2>2, <2>3 DEF PlacesAreRight
<1>18. ASSUME ~overflowed'
       PROVE  /\ RecentsAreInRing /\ RingIsExact(hot') /\ NoTrade \notin N
              /\ Slots(hot) = Slots(hot') \cup N
  <2>1. RecentsAreInRing
    BY <1>3, <1>18 DEF Inv
  <2> QED
    BY <1>8, <2>1 DEF RecentsAreInRing
<1>19. ASSUME ~overflowed'
       PROVE  RecentsAreInRing'
  <2>1. \A t \in Known : t.time >= hotStart => t \in Slots(hot')
    <3> SUFFICES ASSUME NEW t \in Known, t.time >= hotStart PROVE t \in Slots(hot')
      OBVIOUS
    <3>1. t \in Slots(hot)
      BY <1>18, <1>19 DEF RecentsAreInRing
    <3>2. t \notin N
      <4>1. t.time \in Int
        BY <1>5 DEF Genuine, IsTrade
      <4>2. hotStart \in Int
        BY <1>1, BufferAssumption DEF StoredIsRight, hotStart
      <4>3. ~ (t.time < hotStart)
        BY <4>1, <4>2
      <4> QED
        BY <1>7, <1>18, <1>19, <4>3
    <3> QED
      BY <1>18, <1>19, <3>1, <3>2
  <2> QED
    BY <1>4, <1>18, <1>19, <2>1 DEF RecentsAreInRing
<1>20. ASSUME ~overflowed', AllParse'
       PROVE  NoneIsMissing'
  <2>1. AllParse
    BY <1>4, <1>20 DEF AllParse
  <2>2. NoneIsMissing
    BY <1>3, <1>20, <2>1 DEF Inv
  <2>3. N \subseteq Made /\ \A t \in N : t.price # Invalid
    BY <1>10, <1>18, <1>20, <2>1 DEF AllParse
  <2>4. BlockIds(cold') = BlockIds(cold) \cup IdsOf(N)
    BY <1>14, <2>3
  <2>5. IdsOf(Slots(hot)) \subseteq IdsOf(Slots(hot')) \cup IdsOf(N)
    BY <1>18, <1>20 DEF IdsOf
  <2>6. LegacyIds(legacy') = LegacyIds(legacy) /\ IdsOf(Made') = IdsOf(Made)
    BY <1>3, <1>4
  <2> QED
    BY <2>2, <2>4, <2>5, <2>6 DEF NoneIsMissing
<1>21. StoredIsRight'
  BY <1>1, <1>3 DEF StoredIsRight
<1> QED
  BY <1>17, <1>19, <1>20, <1>21 DEF Inv

LEMMA InvNext ==
  ASSUME Inv, [Next]_vars
  PROVE  Inv'
<1>1. CASE Tick
  <2>1. /\ clock' = clock + 1 /\ stored' = stored /\ hot' = hot /\ cold' = cold
        /\ legacy' = legacy /\ overflowed' = overflowed
    BY <1>1 DEF Tick
  <2>2. Made' = Made /\ Known' = Known
    BY <2>1 DEF Made, Known
  <2>3. StoredIsRight'
    <3>1. clock \in Nat /\ StartTime \in Nat
      BY BufferAssumption DEF Inv, StoredIsRight
    <3> QED
      BY <2>1, <3>1 DEF Inv, StoredIsRight
  <2>4. PlacesAreRight'
    BY <2>1, <2>2 DEF Inv, PlacesAreRight
  <2>5. ASSUME RecentsAreInRing
        PROVE  RecentsAreInRing'
    <3> SUFFICES ASSUME NEW t \in Known, t.time >= hotStart' PROVE t \in Slots(hot)
      BY <2>1, <2>2, <2>5 DEF RecentsAreInRing
    <3>1. t.time \in Int /\ clock \in Int /\ HotDuration \in Int
      BY MadeIsGenuine, BufferAssumption DEF Inv, StoredIsRight, Genuine, IsTrade
    <3>2. t.time >= hotStart
      BY <2>1, <3>1 DEF hotStart
    <3> QED
      BY <2>5, <3>2 DEF RecentsAreInRing
  <2>6. AllParse' = AllParse /\ NoneIsMissing' = NoneIsMissing
    BY <2>1, <2>2 DEF AllParse, NoneIsMissing
  <2> QED
    BY <2>1, <2>3, <2>4, <2>5, <2>6 DEF Inv
<1>2. ASSUME NEW k \in Kinds, StoreTradeEvent(k)
      PROVE  Inv'
  <2>1. PICK trade : trade = [id |-> Cardinality(stored) + 1, time |-> clock - k.lag, price |-> k.price,
                              quantity |-> k.quantity, symbol |-> k.symbol]
    OBVIOUS
  <2>2. /\ stored' = stored \cup {[key |-> k.key, trade |-> trade]} /\ UNCHANGED clock
        /\ IF k.key = "known" THEN storeInHotBuffer(trade) \/ moveToColdbuffer(trade)
           ELSE storeInLegacyBuffer(trade) /\ UNCHANGED cold
    BY <1>2, <2>1 DEF StoreTradeEvent
  <2>3. Stores(trade, k.key)
    BY <2>1, <2>2, TradeStored DEF Inv
  <2>4. CASE k.key = "known"
    <3>1. Stores(trade, "known")
      BY <2>3, <2>4
    <3>2. storeInHotBuffer(trade) \/ moveToColdbuffer(trade)
      BY <2>2, <2>4
    <3> QED
      BY <3>1, <3>2, HotKeeps, ColdKeeps
  <2>5. CASE k.key # "known"
    BY <2>2, <2>3, <2>5, LegacyKeeps
  <2> QED
    BY <2>4, <2>5
<1>3. CASE performMaintenance
  BY <1>3, MaintenanceKeeps
<1>4. CASE Close \/ UNCHANGED vars
  <2>1. UNCHANGED <<clock, hot, cold, legacy, stored, overflowed>>
    BY <1>4 DEF Close, vars
  <2>2. Made' = Made /\ Known' = Known /\ hotStart' = hotStart
    BY <2>1 DEF Made, Known, hotStart
  <2>3. StoredIsRight' /\ PlacesAreRight'
    BY <2>1, <2>2 DEF Inv, StoredIsRight, PlacesAreRight
  <2>4. AllParse' = AllParse /\ NoneIsMissing' = NoneIsMissing /\ RecentsAreInRing' = RecentsAreInRing
    BY <2>1, <2>2 DEF AllParse, NoneIsMissing, RecentsAreInRing
  <2> QED
    BY <2>1, <2>3, <2>4 DEF Inv
<1> QED
  BY <1>1, <1>2, <1>3, <1>4 DEF Next

\* The places are right, and hold what they should, in every state.
THEOREM InvTheorem == Spec => []Inv
<1> QED
  BY InvInit, InvNext, PTL DEF Spec

-----------------------------------------------------------------------------
(* What follows *)

LEMMA RingHolds ==
  ASSUME Inv
  PROVE  /\ InRing \subseteq Slots(hot)
         /\ RingIsExact(hot) => InRing = Slots(hot)
<1>1. RingIsRight(hot, Known)
  BY DEF Inv, PlacesAreRight
<1>2. \A i \in 0..hot.size - 1 : At(hot, i) \in Positions
  BY <1>1, AtIsPosition DEF RingIsRight
<1>3. InRing \subseteq Slots(hot)
  BY <1>2 DEF InRing, Slots
<1>4. ASSUME RingIsExact(hot)
      PROVE  Slots(hot) \subseteq InRing
  BY <1>4 DEF RingIsExact, InRing, Slots
<1> QED
  BY <1>3, <1>4

\* A query for the last two minutes returns exactly the trades stored in its
\* range, until the ring or the slice has been full.
THEOREM RecentTheorem == Spec => []RecentAnswersAreExact
<1>1. ASSUME Inv
      PROVE  RecentAnswersAreExact
  <2> SUFFICES ASSUME ~overflowed, NEW start \in hotStart..clock, NEW end \in start..clock, end > hotStart
               PROVE  GetTradeEvents(start, end) = {t \in Known : start <= t.time /\ t.time <= end}
    BY DEF RecentAnswersAreExact
  <2>1. clock \in Int /\ hotStart \in Int
    BY <1>1, BufferAssumption DEF Inv, StoredIsRight, hotStart
  <2>2. Latest(start, hotStart) = start /\ ~ (start < hotStart)
    BY <2>1 DEF Latest
  <2>3. GetTradeEvents(start, end) = HotRange(hot, start, end)
    BY <2>2 DEF GetTradeEvents
  <2>4. RecentsAreInRing /\ InRing = Slots(hot)
    BY <1>1, RingHolds DEF Inv, RecentsAreInRing
  <2>5. {hot.data[At(hot, i)] : i \in 0..hot.size - 1} = Slots(hot)
    <3>1. NoTrade \notin {hot.data[At(hot, i)] : i \in 0..hot.size - 1}
      BY <2>4 DEF RecentsAreInRing, RingIsExact
    <3> QED
      BY <2>4, <3>1 DEF InRing
  <2>6. HotRange(hot, start, end) = {t \in Slots(hot) : start <= t.time /\ t.time <= end}
    BY <2>5 DEF HotRange
  <2>7. Slots(hot) \subseteq Known
    BY <1>1 DEF Inv, PlacesAreRight, RingIsRight
  <2>8. \A t \in Known : start <= t.time => t \in Slots(hot)
    <3> TAKE t \in Known
    <3>1. t.time \in Int
      BY <1>1, MadeIsGenuine DEF Inv, Genuine, IsTrade
    <3>2. start <= t.time => t.time >= hotStart
      BY <2>1, <3>1
    <3> QED
      BY <2>4, <3>2 DEF RecentsAreInRing
  <2> QED
    BY <2>3, <2>6, <2>7, <2>8
<1> QED
  BY <1>1, InvTheorem, PTL

LEMMA OriginalIsOf ==
  ASSUME NEW id
  PROVE  Original(id) = Of(Made, id)
  BY DEF Original, Of, Made

LEMMA BlockOfCold ==
  ASSUME Inv
  PROVE  DOMAIN cold = BlockIndexes /\ \A b \in BlockIndexes : BlockIsRight(cold[b], Made)
  BY DEF Inv, PlacesAreRight, BlocksAreRight

\* A cold trade is never shown later than it was made, nor before all of its
\* block were made.
THEOREM TimesTheorem == Spec => []TimesOnlyMoveBack
<1>1. ASSUME Inv
      PROVE  TimesOnlyMoveBack
  <2> SUFFICES ASSUME NEW b \in DOMAIN cold, NEW t \in cold[b]
               PROVE  /\ t.time <= Of(Made, t.id).time
                      /\ \E o \in cold[b] : Of(Made, o.id).time <= t.time
    BY OriginalIsOf DEF TimesOnlyMoveBack
  <2> QED
    BY <1>1, BlockOfCold DEF BlockIsRight, TimesAreRight
<1> QED
  BY <1>1, InvTheorem, PTL

\* However often its block is compressed again, truncating prices and quantities
\* each time: a cold trade's price stays among those its block's trades had, its
\* quantity never grows, and its symbol stays, within the limits of the codec.
THEOREM RangeTheorem == Spec => []ColdTradesStayInRange
<1>1. ASSUME Inv
      PROVE  ColdTradesStayInRange
  <2> SUFFICES ASSUME NEW b \in DOMAIN cold, \A s \in stored : Parsed(s.trade),
                      NEW O, O = {Of(Made, t.id) : t \in cold[b]}
               PROVE  /\ (\A s, o \in O : Fits(s.price - o.price)) =>
                           \A t \in cold[b] : \E s, o \in O : s.price <= t.price /\ t.price <= o.price
                      /\ \A t \in cold[b] : t.quantity <= Of(Made, t.id).quantity
                      /\ Cardinality(Symbols(O)) <= SymbolIndices =>
                           \A t \in cold[b] : t.symbol = Of(Made, t.id).symbol
    BY OriginalIsOf DEF ColdTradesStayInRange
  <2>1. \A t \in Made : Parsed(t)
    BY DEF Made
  <2>2. PricesAreRight(cold[b], Made) /\ QuantitiesAreRight(cold[b], Made) /\ SymbolsAreRight(cold[b], Made)
    BY <1>1, <2>1, BlockOfCold DEF BlockIsRight
  <2>3. O = Originals(cold[b], Made)
    BY DEF Originals
  <2> QED
    BY <2>2, <2>3 DEF PricesAreRight, QuantitiesAreRight, SymbolsAreRight, Among
<1> QED
  BY <1>1, InvTheorem, PTL

LEMMA DisjointUnion ==
  ASSUME NEW S, IsFiniteSet(S), NEW T, IsFiniteSet(T), S \cap T = {}
  PROVE  IsFiniteSet(S \cup T) /\ Cardinality(S \cup T) = Cardinality(S) + Cardinality(T)
<1>1. /\ IsFiniteSet(S \cup T)
      /\ Cardinality(S \cup T) = Cardinality(S) + Cardinality(T) - Cardinality(S \cap T)
  BY FS_Union
<1>2. Cardinality(S \cap T) = 0
  BY FS_EmptySet
<1>3. Cardinality(S) \in Nat /\ Cardinality(T) \in Nat
  BY FS_CardinalityType
<1> QED
  BY <1>1, <1>2, <1>3

\* There are as many trades as ids.
LEMMA IdsCounted ==
  ASSUME NEW S, IsFiniteSet(S), UniqueIds(S)
  PROVE  IsFiniteSet(IdsOf(S)) /\ Cardinality(IdsOf(S)) = Cardinality(S)
<1>1. PICK f : f = [t \in S |-> t.id]
  OBVIOUS
<1>2. f \in Bijection(S, IdsOf(S))
  BY <1>1 DEF Bijection, Injection, IsInjective, Surjection, UniqueIds, IdsOf
<1> QED
  BY <1>2, FS_Bijection DEF ExistsBijection

LEMMA SliceCounted ==
  ASSUME NEW M, NEW slice, SliceIsRight(slice, M)
  PROVE  IsFiniteSet(LegacyIds(slice)) /\ Cardinality(LegacyIds(slice)) = Len(slice)
<1>1. Len(slice) \in Nat
  BY DEF SliceIsRight
<1>2. PICK f : f = [i \in 1..Len(slice) |-> slice[i].id]
  OBVIOUS
<1>3. f \in Bijection(1..Len(slice), LegacyIds(slice))
  <2>1. f \in [1..Len(slice) -> LegacyIds(slice)]
    BY <1>2 DEF LegacyIds
  <2>2. f \in Injection(1..Len(slice), LegacyIds(slice))
    BY <1>2, <2>1 DEF Injection, IsInjective, SliceIsRight
  <2>3. f \in Surjection(1..Len(slice), LegacyIds(slice))
    BY <1>2, <2>1 DEF Surjection, LegacyIds
  <2> QED
    BY <2>2, <2>3 DEF Bijection
<1>4. IsFiniteSet(1..Len(slice)) /\ Cardinality(1..Len(slice)) = Len(slice)
  <2>1. PICK n \in Nat : n = Len(slice)
    BY <1>1
  <2>2. IsFiniteSet(1..n) /\ Cardinality(1..n) = n
    BY FS_Interval
  <2> QED
    BY <2>1, <2>2
<1> QED
  BY <1>3, <1>4, FS_Bijection DEF ExistsBijection

LEMMA RingCounted ==
  ASSUME NEW M, NEW ring, RingIsRight(ring, M), RingIsExact(ring)
  PROVE  IsFiniteSet(Slots(ring)) /\ Cardinality(Slots(ring)) = ring.size
<1>1. PICK n \in Nat : n = ring.size
  BY DEF RingIsRight
<1>2. n < Capacity /\ Capacity \in Nat
  BY <1>1, CapacityAssumption DEF RingIsExact
<1>3. \A i \in 0..n - 1 : i \in Positions /\ At(ring, i) \in Positions
  <2>1. TAKE i \in 0..n - 1
  <2>2. i \in Nat /\ i \in Positions
    BY <1>2 DEF Positions
  <2>3. ring.read \in Positions
    BY DEF RingIsRight
  <2> QED
    BY <2>2, <2>3, AtIsPosition
<1>4. PICK f : f = [i \in 0..n - 1 |-> ring.data[At(ring, i)]]
  OBVIOUS
<1>5. f \in Surjection(0..n - 1, Slots(ring))
  <2>1. \A i \in 0..n - 1 : f[i] \in Slots(ring)
    BY <1>1, <1>3, <1>4 DEF RingIsExact, Slots
  <2>2. \A t \in Slots(ring) : \E i \in 0..n - 1 : f[i] = t
    BY <1>1, <1>4 DEF RingIsExact, Slots
  <2> QED
    BY <1>4, <2>1, <2>2 DEF Surjection
<1>6. \A i, j \in 0..n - 1 : f[i] = f[j] => i = j
  <2> SUFFICES ASSUME NEW i \in 0..n - 1, NEW j \in 0..n - 1, f[i] = f[j] PROVE i = j
    OBVIOUS
  <2>1. ring.data[At(ring, i)] = ring.data[At(ring, j)] /\ ring.data[At(ring, i)] # NoTrade
    BY <1>1, <1>4 DEF RingIsExact
  <2>2. At(ring, i) = At(ring, j)
    BY <1>3, <2>1 DEF RingIsRight
  <2> QED
    BY <1>3, <2>2, AtIsOne DEF RingIsRight
<1>7. f \in Bijection(0..n - 1, Slots(ring))
  BY <1>5, <1>6 DEF Bijection, Injection, IsInjective, Surjection
<1>8. IsFiniteSet(0..n - 1) /\ Cardinality(0..n - 1) = n
  BY FS_Interval
<1> QED
  BY <1>1, <1>7, <1>8, FS_Bijection DEF ExistsBijection

LEMMA ColdCounted ==
  ASSUME Inv
  PROVE  IsFiniteSet(InBlocks) /\ UniqueIds(InBlocks) /\ IdsOf(InBlocks) = BlockIds(cold)
<1>1. InBlocks = UNION {cold[b] : b \in BlockIndexes}
  BY BlockOfCold DEF InBlocks
<1>2. IsFiniteSet(InBlocks)
  <2>1. IsFiniteSet(BlockIndexes)
    BY BlockAssumption, FS_Interval DEF BlockIndexes
  <2>2. PICK f : f = [b \in BlockIndexes |-> cold[b]]
    OBVIOUS
  <2>3. f \in Surjection(BlockIndexes, {cold[b] : b \in BlockIndexes})
    BY <2>2 DEF Surjection
  <2>4. IsFiniteSet({cold[b] : b \in BlockIndexes})
    BY <2>1, <2>3, FS_Surjection
  <2>5. \A B \in {cold[b] : b \in BlockIndexes} : IsFiniteSet(B)
    BY BlockOfCold DEF BlockIsRight
  <2> QED
    BY <1>1, <2>4, <2>5, FS_UNION
<1>3. UniqueIds(InBlocks)
  <2> SUFFICES ASSUME NEW b \in BlockIndexes, NEW c \in BlockIndexes,
                      NEW t \in cold[b], NEW u \in cold[c], t.id = u.id
               PROVE  t = u
    BY <1>1 DEF UniqueIds
  <2>1. CASE b = c
    BY <2>1, BlockOfCold DEF BlockIsRight, UniqueIds
  <2>2. CASE b # c
    <3>1. IdsOf(cold[b]) \cap IdsOf(cold[c]) = {}
      BY <2>2 DEF Inv, PlacesAreRight, BlocksAreRight
    <3> QED
      BY <3>1 DEF IdsOf
  <2> QED
    BY <2>1, <2>2
<1>4. IdsOf(InBlocks) = BlockIds(cold)
  BY <1>1 DEF IdsOf, BlockIds
<1> QED
  BY <1>2, <1>3, <1>4

\* Every trade is in exactly one place, once, as long as prices parse and
\* nothing was at its limit; and no moved trade is answered from the ring.
THEOREM KeptTheorem == Spec => []KeptExactlyOnce
<1>1. ASSUME Inv
      PROVE  KeptExactlyOnce
  <2>1. PlacesAreRight /\ StoredIsRight
    BY <1>1 DEF Inv
  <2>2. {t.id : t \in InRing} = IdsOf(InRing) /\ {t.id : t \in InBlocks} = IdsOf(InBlocks)
    BY DEF IdsOf
  <2>3. IdsOf(InRing) \cap IdsOf(InBlocks) = {}
    <3>1. IdsOf(InRing) \subseteq IdsOf(Slots(hot)) /\ IdsOf(InBlocks) = BlockIds(cold)
      BY <1>1, RingHolds, ColdCounted DEF IdsOf
    <3> QED
      BY <2>1, <3>1 DEF PlacesAreRight
  <2>4. ASSUME ~overflowed, \A s \in stored : s.trade.price # Invalid
        PROVE  /\ Cardinality(InRing) + Cardinality(InBlocks) + Len(legacy) = Cardinality(stored)
               /\ hot.size = Cardinality(InRing)
               /\ {t.id : t \in InRing \cup InBlocks \cup ToSet(legacy)} = {s.trade.id : s \in stored}
    <3>1. AllParse /\ RecentsAreInRing /\ NoneIsMissing
      <4>1. AllParse
        BY <2>4 DEF AllParse, Made
      <4> QED
        BY <1>1, <2>4, <4>1 DEF Inv
    <3>2. InRing = Slots(hot) /\ RingIsExact(hot) /\ RingIsRight(hot, Known)
      BY <1>1, <2>1, <3>1, RingHolds DEF RecentsAreInRing, PlacesAreRight
    <3>3. PICK H, B, L : H = IdsOf(InRing) /\ B = IdsOf(InBlocks) /\ L = LegacyIds(legacy)
      OBVIOUS
    <3>4. B = BlockIds(cold)
      BY <1>1, <3>3, ColdCounted
    <3>5. H \cap B = {} /\ H \cap L = {} /\ B \cap L = {}
      BY <2>1, <3>2, <3>3, <3>4 DEF PlacesAreRight
    <3>6. H \cup B \cup L = IdsOf(Made)
      BY <2>1, <3>1, <3>2, <3>3, <3>4, PlacesHaveMade DEF NoneIsMissing
    <3>7. IsFiniteSet(H) /\ Cardinality(H) = Cardinality(InRing) /\ Cardinality(InRing) = hot.size
      <4>1. IsFiniteSet(InRing) /\ Cardinality(InRing) = hot.size
        BY <3>2, RingCounted
      <4>2. UniqueIds(InRing)
        BY <2>1, <3>2, MadeIsGenuine DEF RingIsRight, Genuine, UniqueIds
      <4> QED
        BY <3>3, <4>1, <4>2, IdsCounted
    <3>8. IsFiniteSet(B) /\ Cardinality(B) = Cardinality(InBlocks)
      BY <1>1, <3>3, ColdCounted, IdsCounted
    <3>9. IsFiniteSet(L) /\ Cardinality(L) = Len(legacy)
      BY <2>1, <3>3, SliceCounted DEF PlacesAreRight
    <3>10. Cardinality(IdsOf(Made)) = Cardinality(stored)
      <4>1. PICK f : f = [s \in stored |-> s.trade.id]
        OBVIOUS
      <4>2. f \in Bijection(stored, IdsOf(Made))
        BY <2>1, <4>1 DEF Bijection, Injection, IsInjective, Surjection, StoredIsRight, Made, IdsOf
      <4> QED
        BY <2>1, <4>2, FS_Bijection DEF ExistsBijection, StoredIsRight
    <3>11. IsFiniteSet(H \cup B) /\ Cardinality(H \cup B) = Cardinality(H) + Cardinality(B)
      BY <3>5, <3>7, <3>8, DisjointUnion
    <3>12. Cardinality(H \cup B \cup L) = Cardinality(H \cup B) + Cardinality(L)
      <4>1. (H \cup B) \cap L = {}
        BY <3>5
      <4> QED
        BY <3>9, <3>11, <4>1, DisjointUnion
    <3>13. Cardinality(InRing) + Cardinality(InBlocks) + Len(legacy) = Cardinality(stored)
      BY <3>6, <3>7, <3>8, <3>9, <3>10, <3>11, <3>12
    <3>14. {s.trade.id : s \in stored} = IdsOf(Made)
      BY DEF IdsOf, Made
    <3>15. {t.id : t \in InRing \cup InBlocks \cup ToSet(legacy)} = H \cup B \cup L
      <4>1. {t.id : t \in ToSet(legacy)} = L
        <5>1. DOMAIN legacy = 1..Len(legacy)
          BY <2>1 DEF PlacesAreRight, SliceIsRight
        <5> QED
          BY <3>3, <5>1 DEF ToSet, LegacyIds
      <4> QED
        BY <2>2, <3>3, <4>1
    <3> QED
      BY <3>6, <3>7, <3>13, <3>14, <3>15
  <2> QED
    BY <2>2, <2>3, <2>4 DEF KeptExactlyOnce
<1> QED
  BY <1>1, InvTheorem, PTL
=============================================================================
