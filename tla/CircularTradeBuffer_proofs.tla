--------------------- MODULE CircularTradeBuffer_proofs ---------------------
(***************************************************************************)
(* For any trades, exchanges, number of buckets and length of a second: a  *)
(* scan of the ring is exact, queries keep the contract of TradeQuery, and *)
(* an orderly restart loses nothing.                                       *)
(***************************************************************************)
EXTENDS CircularTradeBuffer, Sequences, TLAPS

\* The trades of a ring.
TradesOf(ring) == UNION {ring[i] : i \in Indexes}

\* Each trade is in the bucket of its second.
RingIsRight(ring) ==
  /\ ring \in [Indexes -> SUBSET Trades]
  /\ \A i \in Indexes : \A t \in ring[i] : GetBucketIndex(TsOf[t]) = i

Entries == [trades : SUBSET Trades, lastUsed : Nat, takenAt : Nat, among : SUBSET Trades]

\* An entry of the hot cache is of a refreshed exchange and has trades of it that
\* the buffer holds, among them all that the snapshot had of the time a refresh
\* looks back.
EntryIsRight(entry, key, trades) ==
  /\ entry \in Entries /\ key \in ActiveKeys
  /\ \A t \in entry.trades : t \in trades /\ KeyOf[t] = key
  /\ \A t \in entry.among :
       KeyOf[t] = key /\ InRange(t, entry.takenAt - HotMs, entry.takenAt) => t \in entry.trades

HotIsRight(cache, trades) ==
  \A k \in Keys : cache[k] # None => EntryIsRight(cache[k], k, trades)

\* A refresh has begun with trades that are still held.
ScanIsRight ==
  /\ scan # None => scan.from \in Nat /\ scan.seen \subseteq Contents
  /\ phase = "down" => scan = None

\* A backup is as good as the buffer it was made from.
FileIsRight ==
  file.kind = "ok" =>
    /\ file.time \in Nat
    /\ RingIsRight(file.buckets) /\ HotIsRight(file.hot, TradesOf(file.buckets))

\* What is owed to the next start is still in memory, where no refresh changes
\* the hot cache, or is in the file.
DebtIsRight ==
  /\ phase = "open" => owed = NoDebt
  /\ phase = "saving" =>
       /\ scan = None /\ owed.time \in Nat
       /\ owed.trades \subseteq Contents /\ HotIsRight(hot, owed.trades)
  /\ phase \in {"saved", "closed", "down"} =>
       \/ owed.trades = {}
       \/ /\ file.kind = "ok" /\ file.time = owed.time
          /\ owed.trades \subseteq TradesOf(file.buckets)

Inv ==
  /\ now \in Nat
  /\ phase \in {"open", "saving", "saved", "closed", "down"}
  /\ RingIsRight(buckets) /\ HotIsRight(hot, Contents)
  /\ ScanIsRight /\ FileIsRight /\ DebtIsRight

-----------------------------------------------------------------------------
(* Arithmetic of the ring *)

\* What the provers need to know of / and %: quotient and remainder.
LEMMA Division ==
  ASSUME NEW a \in Int, NEW d \in Nat \ {0}
  PROVE  /\ a \div d \in Int /\ a % d \in 0..(d - 1)
         /\ a = d * (a \div d) + (a % d)
<1>1. a % d \in 0..(d - 1) /\ a \div d \in Int
  OBVIOUS
<1>2. a = d * (a \div d) + (a % d)
  OBVIOUS
<1> QED
  BY <1>1, <1>2

\* A product with a larger factor is larger.
LEMMA Product ==
  ASSUME NEW a \in Int, NEW b \in Int, NEW d \in Nat \ {0}
  PROVE  /\ d * a \in Int /\ d * (a + b) = d * a + d * b /\ d * (a - b) = d * a - d * b
         /\ d * (a + 1) = d * a + d
         /\ a <= b => d * a <= d * b
         /\ d * a < d * b => a < b
<1>1. d * a \in Int /\ d * (a + b) = d * a + d * b /\ d * (a + 1) = d * a + d
  OBVIOUS
<1>2. d * (a - b) = d * a - d * b
  OBVIOUS
<1>3. a <= b => d * a <= d * b
  OBVIOUS
<1>4. b <= a => d * b <= d * a
  OBVIOUS
<1> QED
  BY <1>1, <1>2, <1>3, <1>4

\* Quotient and remainder are the only such numbers.
LEMMA DivisionIsUnique ==
  ASSUME NEW d \in Nat \ {0}, NEW q \in Int, NEW r \in 0..(d - 1), NEW a \in Int, a = d * q + r
  PROVE  a \div d = q /\ a % d = r
<1>1. PICK p \in Int, m \in 0..(d - 1) : p = a \div d /\ m = a % d /\ a = d * p + m
  BY Division
<1>2. d * p \in Int /\ d * q \in Int /\ d * (p + 1) = d * p + d /\ d * (q + 1) = d * q + d
  BY Product
<1>3. d * p < d * (q + 1) /\ d * q < d * (p + 1)
  BY <1>1, <1>2
<1>4. p < q + 1 /\ q < p + 1
  <2>1. p + 1 \in Int /\ q + 1 \in Int
    OBVIOUS
  <2> QED
    BY <1>3, <2>1, Product
<1> QED
  BY <1>1, <1>2, <1>4

\* A later millisecond is in the same second or a later one.
LEMMA DivisionIsMonotonic ==
  ASSUME NEW d \in Nat \ {0}, NEW a \in Int, NEW b \in Int, a <= b
  PROVE  a \div d <= b \div d
<1>1. PICK p \in Int, m \in 0..(d - 1) : p = a \div d /\ m = a % d /\ a = d * p + m
  BY Division
<1>2. PICK q \in Int, n \in 0..(d - 1) : q = b \div d /\ n = b % d /\ b = d * q + n
  BY Division
<1>3. d * p \in Int /\ d * q \in Int /\ d * (q + 1) = d * q + d
  BY Product
<1>4. d * p < d * (q + 1)
  BY <1>1, <1>2, <1>3
<1>5. p < q + 1
  <2>1. q + 1 \in Int
    OBVIOUS
  <2> QED
    BY <1>4, <2>1, Product
<1> QED
  BY <1>1, <1>2, <1>5

\* How far it is from one bucket to another, forward around the ring.
LEMMA DistanceAround ==
  ASSUME NEW d \in Nat \ {0}, NEW a \in Int, NEW x \in Int, a <= x, x - a < d
  PROVE  ((x % d) - (a % d)) % d = x - a
<1>1. PICK p \in Int, m \in 0..(d - 1) : p = a \div d /\ m = a % d /\ a = d * p + m
  BY Division
<1>2. PICK q \in Int, n \in 0..(d - 1) : q = x \div d /\ n = x % d /\ x = d * q + n
  BY Division
<1>3. d * p \in Int /\ d * q \in Int /\ d * (p - q) = d * p - d * q
  BY Product
<1>4. n - m = d * (p - q) + (x - a)
  BY <1>1, <1>2, <1>3
<1>5. p - q \in Int /\ x - a \in 0..(d - 1) /\ n - m \in Int
  OBVIOUS
<1>6. (n - m) % d = x - a
  <2>1. PICK q1 \in Int, r1 \in 0..(d - 1), a1 \in Int :
          q1 = p - q /\ r1 = x - a /\ a1 = n - m
    BY <1>5
  <2>2. a1 = d * q1 + r1
    BY <1>4, <2>1
  <2> QED
    BY <2>1, <2>2, DivisionIsUnique
<1> QED
  BY <1>1, <1>2, <1>6

\* A scan of fewer seconds than there are buckets visits the bucket of each
\* second in the range.
LEMMA BucketIsVisited ==
  ASSUME NEW start \in Int, NEW end \in Int, NEW ts \in Int, start <= ts, ts <= end,
         end \div MsPerSecond - start \div MsPerSecond < BucketCount
  PROVE  GetBucketIndex(ts) \in BucketsVisited(GetBucketIndex(start), GetBucketIndex(end))
<1>1. MsPerSecond \in Nat \ {0} /\ BucketCount \in Nat \ {0}
  BY RingAssumption
<1>2. PICK a \in Int, x \in Int, b \in Int :
        a = start \div MsPerSecond /\ x = ts \div MsPerSecond /\ b = end \div MsPerSecond
  BY <1>1, Division
<1>3. a <= x /\ x <= b /\ x - a < BucketCount /\ b - a < BucketCount /\ a <= b
  <2>1. a <= x /\ x <= b /\ b - a < BucketCount
    BY <1>1, <1>2, DivisionIsMonotonic
  <2> QED
    BY <1>1, <2>1
<1>4. ((x % BucketCount) - (a % BucketCount)) % BucketCount = x - a
  BY <1>1, <1>3, DistanceAround
<1>5. ((b % BucketCount) - (a % BucketCount)) % BucketCount = b - a
  BY <1>1, <1>3, DistanceAround
<1>6. x % BucketCount \in 0..(BucketCount - 1)
  BY <1>1, Division
<1>7. x - a <= b - a
  BY <1>3
<1>8. x % BucketCount \in BucketsVisited(a % BucketCount, b % BucketCount)
  BY <1>4, <1>5, <1>6, <1>7 DEF BucketsVisited, Indexes
<1> QED
  BY <1>2, <1>8 DEF GetBucketIndex

\* The scan of the ring finds the trades of an exchange in a range that a
\* refresh looks back over.
LEMMA ScanIsExact ==
  ASSUME NEW ring, RingIsRight(ring), NEW key, NEW start \in Int, NEW end \in Int,
         end \div MsPerSecond - start \div MsPerSecond < BucketCount
  PROVE  ScanRing(ring, key, start, end)
           = {t \in TradesOf(ring) : KeyOf[t] = key /\ InRange(t, start, end)}
<1>1. ASSUME NEW t \in TradesOf(ring), InRange(t, start, end)
      PROVE  \E i \in BucketsVisited(GetBucketIndex(start), GetBucketIndex(end)) : t \in ring[i]
  <2>1. PICK i \in Indexes : t \in ring[i]
    BY DEF TradesOf
  <2>2. TsOf[t] \in Int /\ GetBucketIndex(TsOf[t]) = i
    BY <2>1, TimeAssumption DEF RingIsRight
  <2>3. start <= TsOf[t] /\ TsOf[t] <= end
    BY <1>1, <2>2 DEF InRange
  <2> QED
    BY <2>1, <2>2, <2>3, BucketIsVisited
<1>2. BucketsVisited(GetBucketIndex(start), GetBucketIndex(end)) \subseteq Indexes
  BY DEF BucketsVisited
<1> QED
  BY <1>1, <1>2 DEF ScanRing, TradesOf

\* The seconds a refresh looks back are fewer than the buckets.
LEMMA RefreshFits ==
  ASSUME NEW from \in Nat
  PROVE  /\ HotMs \in Nat /\ from - HotMs \in Int
         /\ from \div MsPerSecond - (from - HotMs) \div MsPerSecond < BucketCount
<1>1. /\ MsPerSecond \in Nat \ {0} /\ BucketCount \in Nat
      /\ HotSeconds \in Nat /\ HotSeconds < BucketCount
  BY RingAssumption, HotAssumption
<1>2. HotMs = MsPerSecond * HotSeconds /\ HotMs \in Nat
  BY <1>1 DEF HotMs
<1>3. PICK p \in Int, m \in 0..(MsPerSecond - 1) :
        p = from \div MsPerSecond /\ from = MsPerSecond * p + m
  BY <1>1, Division
<1>4. MsPerSecond * (p - HotSeconds) = MsPerSecond * p - MsPerSecond * HotSeconds
      /\ MsPerSecond * p \in Int
  BY <1>1, Product
<1>5. /\ from - HotMs = MsPerSecond * (p - HotSeconds) + m
      /\ from - HotMs \in Int /\ p - HotSeconds \in Int
  BY <1>1, <1>2, <1>3, <1>4
<1>6. (from - HotMs) \div MsPerSecond = p - HotSeconds
  <2> DEFINE a == from - HotMs
             q == p - HotSeconds
  <2>1. a \in Int /\ q \in Int /\ a = MsPerSecond * q + m
    BY <1>5
  <2> HIDE DEF a, q
  <2>2. a \div MsPerSecond = q
    BY <1>1, <2>1, DivisionIsUnique
  <2> QED
    BY <2>2 DEF a, q
<1> QED
  BY <1>1, <1>2, <1>3, <1>5, <1>6

-----------------------------------------------------------------------------
(* Rings and caches *)

\* A ring of trades that were all in another at the same place, and one that a
\* trade is added to at its place.
LEMMA PartOfRing ==
  ASSUME NEW ring, RingIsRight(ring), NEW S
  PROVE  /\ RingIsRight([i \in Indexes |-> ring[i] \intersect S])
         /\ TradesOf([i \in Indexes |-> ring[i] \intersect S]) = TradesOf(ring) \intersect S
<1>1. RingIsRight([i \in Indexes |-> ring[i] \intersect S])
  BY DEF RingIsRight
<1>2. TradesOf([i \in Indexes |-> ring[i] \intersect S]) = TradesOf(ring) \intersect S
  BY DEF TradesOf
<1> QED
  BY <1>1, <1>2

\* An empty ring and an empty cache.
LEMMA EmptyIsRight ==
  RingIsRight(EmptyBuckets) /\ TradesOf(EmptyBuckets) = {} /\ \A S : HotIsRight(EmptyHot, S)
  BY DEF RingIsRight, EmptyBuckets, TradesOf, HotIsRight, EmptyHot

\* Contents, for any ring.
LEMMA ContentsAreTrades == Contents = TradesOf(buckets)
  BY DEF Contents, TradesOf

\* More trades may be held than an entry knows of.
LEMMA CacheOfMore ==
  ASSUME NEW cache, NEW S, NEW T, S \subseteq T, HotIsRight(cache, S)
  PROVE  HotIsRight(cache, T)
  BY DEF HotIsRight, EntryIsRight

\* A refresh makes right entries of what it has seen, early or late.
LEMMA RefreshedIsRight ==
  ASSUME Inv, scan # None, NEW late \in SUBSET (Contents \ scan.seen), NEW k \in ActiveKeys,
         NEW entry,
         entry = [trades |-> getRecentTrades(k, Seen(late)), lastUsed |-> scan.from,
                  takenAt |-> scan.from, among |-> scan.seen]
  PROVE  EntryIsRight(entry, k, Contents)
<1> DEFINE ring == Seen(late)
           from == scan.from
<1>1. from \in Nat /\ scan.seen \subseteq Contents /\ RingIsRight(buckets)
  BY DEF Inv, ScanIsRight
<1>2. RingIsRight(ring) /\ TradesOf(ring) = Contents \intersect (scan.seen \union late)
  BY <1>1, PartOfRing, ContentsAreTrades DEF Seen
<1>3. TradesOf(ring) \subseteq Contents /\ scan.seen \subseteq TradesOf(ring)
  BY <1>1, <1>2
<1> HIDE DEF ring, from
<1>4. /\ HotMs \in Nat /\ from - HotMs \in Int
      /\ from \div MsPerSecond - (from - HotMs) \div MsPerSecond < BucketCount
  BY <1>1, RefreshFits
<1>5. ScanRing(ring, k, from - HotMs, from)
        = {t \in TradesOf(ring) : KeyOf[t] = k /\ InRange(t, from - HotMs, from)}
  BY <1>1, <1>2, <1>4, ScanIsExact
<1>6. getRecentTrades(k, Seen(late))
        = {t \in TradesOf(ring) : KeyOf[t] = k /\ InRange(t, from - HotMs, from)}
  BY <1>5 DEF getRecentTrades, ring, from
<1>7. Contents \subseteq Trades
  BY <1>1 DEF RingIsRight, Contents
<1> DEFINE trades == getRecentTrades(k, Seen(late))
<1>8. trades \subseteq Contents /\ \A t \in trades : KeyOf[t] = k
  BY <1>3, <1>6
<1>9. \A t \in scan.seen : KeyOf[t] = k /\ InRange(t, from - HotMs, from) => t \in trades
  BY <1>3, <1>6
<1> HIDE DEF trades
<1>10. entry = [trades |-> trades, lastUsed |-> from, takenAt |-> from, among |-> scan.seen]
  BY DEF trades, from
<1>11. /\ entry.trades = trades /\ entry.takenAt = from /\ entry.among = scan.seen
       /\ entry \in Entries
  BY <1>1, <1>7, <1>8, <1>10 DEF Entries
<1> QED
  BY <1>8, <1>9, <1>11 DEF EntryIsRight

\* A restored entry is the saved one, but for the time it was used.
LEMMA RestoredIsRight ==
  ASSUME NEW backup, NEW S, HotIsRight(backup.hot, S), now \in Nat
  PROVE  HotIsRight(RestoredHot(backup), S)
<1> SUFFICES ASSUME NEW k \in Keys, RestoredHot(backup)[k] # None
             PROVE  EntryIsRight(RestoredHot(backup)[k], k, S)
  BY DEF HotIsRight
<1> DEFINE entry == backup.hot[k]
           restored == [entry EXCEPT !.lastUsed = now]
<1>1. entry # None /\ RestoredHot(backup)[k] = restored
  BY DEF RestoredHot
<1>2. EntryIsRight(entry, k, S)
  BY <1>1 DEF HotIsRight
<1> HIDE DEF entry
<1>3. entry \in Entries
  BY <1>2 DEF EntryIsRight
<1>4. /\ restored \in Entries /\ restored.trades = entry.trades
      /\ restored.takenAt = entry.takenAt /\ restored.among = entry.among
  BY <1>3 DEF Entries
<1> QED
  BY <1>1, <1>2, <1>4 DEF EntryIsRight

-----------------------------------------------------------------------------
(* The steps *)

\* The invariant holds when the buffer is created.
LEMMA InvInit == Init => Inv
<1> SUFFICES ASSUME Init PROVE Inv
  OBVIOUS
<1> USE DEF Init
<1>1. RingIsRight(buckets) /\ HotIsRight(hot, Contents)
  BY EmptyIsRight
<1>2. file.kind # "ok"
  BY DEF NoFile
<1> QED
  BY <1>1, <1>2 DEF Inv, ScanIsRight, FileIsRight, DebtIsRight

\* A trade goes to the bucket of its second.
LEMMA StoreKeeps ==
  ASSUME Inv, NEW t \in Trades, StoreTradeEvent(t)
  PROVE  Inv'
<1> USE DEF Inv
<1> DEFINE j == GetBucketIndex(TsOf[t])
<1>1. /\ phase \in {"open", "saving", "saved"}
      /\ buckets' = [buckets EXCEPT ![j] = @ \union {t}]
      /\ UNCHANGED <<now, phase, hot, scan, file, owed>>
  BY DEF StoreTradeEvent
<1>2. j \in Indexes
  <2>1. TsOf[t] \in Int /\ MsPerSecond \in Nat \ {0} /\ BucketCount \in Nat \ {0}
    BY TimeAssumption, RingAssumption
  <2>2. TsOf[t] \div MsPerSecond \in Int
    BY <2>1, Division
  <2> QED
    BY <2>1, <2>2, Division DEF GetBucketIndex, Indexes
<1>3. RingIsRight(buckets') /\ Contents \subseteq Contents'
  BY <1>1, <1>2 DEF RingIsRight, Contents
<1>4. HotIsRight(hot', Contents')
  BY <1>1, <1>3, CacheOfMore
<1>5. ScanIsRight' /\ FileIsRight' /\ DebtIsRight'
  BY <1>1, <1>3 DEF ScanIsRight, FileIsRight, DebtIsRight
<1> QED
  BY <1>1, <1>3, <1>4, <1>5

\* A refresh begins and ends.
LEMMA RefreshKeeps ==
  ASSUME Inv, RefreshBegin \/ RefreshEnd
  PROVE  Inv'
<1> USE DEF Inv
<1>1. CASE RefreshBegin
  <2>1. /\ phase \notin {"saving", "down"} /\ scan' = [from |-> now, seen |-> Contents]
        /\ UNCHANGED <<now, phase, buckets, hot, file, owed, Contents>>
    BY <1>1 DEF RefreshBegin, Contents
  <2>2. scan'.from = now /\ scan'.seen = Contents
    BY <2>1
  <2>3. ScanIsRight'
    BY <2>1, <2>2 DEF ScanIsRight
  <2> QED
    BY <2>1, <2>3 DEF FileIsRight, DebtIsRight
<1>2. CASE RefreshEnd
  <2>1. PICK late \in SUBSET (Contents \ scan.seen) :
          hot' = [k \in Keys |->
                    LET recent == getRecentTrades(k, Seen(late))
                    IN  IF k \in ActiveKeys /\ recent # {}
                          THEN [trades |-> recent, lastUsed |-> scan.from,
                                takenAt |-> scan.from, among |-> scan.seen]
                          ELSE hot[k]]
    BY <1>2 DEF RefreshEnd
  <2>2. /\ scan # None /\ scan' = None
        /\ UNCHANGED <<now, phase, buckets, file, owed, Contents>>
    BY <1>2 DEF RefreshEnd, Contents
  <2>3. ASSUME NEW k \in Keys, hot'[k] # None
        PROVE  EntryIsRight(hot'[k], k, Contents)
    <3>1. CASE hot'[k] = hot[k]
      BY <2>3, <3>1 DEF HotIsRight
    <3>2. CASE hot'[k] # hot[k]
      <4>1. /\ k \in ActiveKeys
            /\ hot'[k] = [trades |-> getRecentTrades(k, Seen(late)), lastUsed |-> scan.from,
                          takenAt |-> scan.from, among |-> scan.seen]
        BY <2>1, <3>2
      <4> QED
        BY <2>2, <4>1, RefreshedIsRight
    <3> QED
      BY <3>1, <3>2
  <2>4. HotIsRight(hot', Contents')
    BY <2>2, <2>3 DEF HotIsRight
  <2> QED
    BY <2>2, <2>4 DEF ScanIsRight, FileIsRight, DebtIsRight
<1> QED
  BY <1>1, <1>2

\* Close saves the ring and the cache as they are.
LEMMA CloseKeeps ==
  ASSUME Inv, CloseBegin \/ SaveSucceeds \/ SaveFails \/ CloseEnd
  PROVE  Inv'
<1> USE DEF Inv
<1>1. CASE CloseBegin
  <2>1. /\ phase' = "saving" /\ scan = None /\ owed' = [time |-> now, trades |-> Contents]
        /\ UNCHANGED <<now, buckets, hot, scan, file, Contents>>
    BY <1>1 DEF CloseBegin, Contents
  <2>2. owed'.time = now /\ owed'.trades = Contents
    BY <2>1
  <2> QED
    BY <2>1, <2>2 DEF ScanIsRight, FileIsRight, DebtIsRight
<1>2. CASE SaveSucceeds
  <2>1. PICK late \in SUBSET (Contents \ owed.trades) :
          file' = [kind |-> "ok", time |-> owed.time, hot |-> hot,
                   buckets |-> [i \in Indexes |-> buckets[i] \intersect (owed.trades \union late)]]
    BY <1>2 DEF SaveSucceeds
  <2>2. /\ phase = "saving" /\ phase' = "saved"
        /\ UNCHANGED <<now, buckets, hot, scan, owed, Contents>>
    BY <1>2 DEF SaveSucceeds, Contents
  <2> DEFINE ring == [i \in Indexes |-> buckets[i] \intersect (owed.trades \union late)]
  <2>3. RingIsRight(ring) /\ TradesOf(ring) = Contents \intersect (owed.trades \union late)
    BY PartOfRing, ContentsAreTrades
  <2> HIDE DEF ring
  <2>4. owed.time \in Nat /\ owed.trades \subseteq TradesOf(ring) /\ HotIsRight(hot, owed.trades)
    BY <2>2, <2>3 DEF DebtIsRight
  <2>5. HotIsRight(hot, TradesOf(ring))
    BY <2>4, CacheOfMore
  <2>6. file'.kind = "ok" /\ file'.time = owed.time /\ file'.hot = hot /\ file'.buckets = ring
    BY <2>1 DEF ring
  <2>7. FileIsRight' /\ DebtIsRight'
    BY <2>2, <2>3, <2>4, <2>5, <2>6 DEF FileIsRight, DebtIsRight
  <2> QED
    BY <2>2, <2>7 DEF ScanIsRight
<1>3. CASE SaveFails
  <2>1. /\ phase' = "saved" /\ file' \in {file, Corrupt} /\ owed' = NoDebt
        /\ UNCHANGED <<now, buckets, hot, scan, Contents>>
    BY <1>3 DEF SaveFails, Contents
  <2>2. owed'.trades = {} /\ (file' = file \/ file'.kind # "ok")
    BY <2>1 DEF NoDebt, Corrupt
  <2> QED
    BY <2>1, <2>2 DEF ScanIsRight, FileIsRight, DebtIsRight
<1>4. CASE CloseEnd
  <2>1. /\ phase = "saved" /\ phase' = "closed" /\ hot' = EmptyHot
        /\ UNCHANGED <<now, buckets, scan, file, owed, Contents>>
    BY <1>4 DEF CloseEnd, Contents
  <2> QED
    BY <2>1, EmptyIsRight DEF ScanIsRight, FileIsRight, DebtIsRight
<1> QED
  BY <1>1, <1>2, <1>3, <1>4

\* The next start takes what the file has.
LEMMA RestartKeeps ==
  ASSUME Inv, Die \/ Restart
  PROVE  Inv'
<1> USE DEF Inv
<1>1. CASE Die
  <2>1. /\ phase' = "down" /\ buckets' = EmptyBuckets /\ hot' = EmptyHot /\ scan' = None
        /\ file' = file \/ (phase = "saving" /\ file' = Corrupt)
        /\ IF phase \in {"saved", "closed"} THEN owed' = owed ELSE owed' = NoDebt
        /\ UNCHANGED now
    BY <1>1 DEF Die
  <2>2. RingIsRight(buckets') /\ HotIsRight(hot', Contents')
    BY <2>1, EmptyIsRight
  <2>3. FileIsRight'
    <3>1. file' = file \/ file'.kind # "ok"
      BY <2>1 DEF Corrupt
    <3> QED
      BY <3>1 DEF FileIsRight
  <2>4. DebtIsRight'
    BY <2>1 DEF DebtIsRight, NoDebt
  <2> QED
    BY <2>1, <2>2, <2>3, <2>4 DEF ScanIsRight
<1>2. CASE Restart
  <2>1. /\ phase = "down" /\ phase' = "open" /\ owed' = NoDebt
        /\ file' = file \/ file' = NoFile
        /\ UNCHANGED <<now, scan>>
    BY <1>2 DEF Restart
  <2>2. RingIsRight(buckets') /\ HotIsRight(hot', Contents')
    <3>1. CASE Usable(file)
      <4>1. /\ buckets' = file.buckets /\ hot' = RestoredHot(file)
            /\ RingIsRight(file.buckets) /\ HotIsRight(file.hot, TradesOf(file.buckets))
        BY <1>2, <3>1 DEF Restart, RestoredBuckets, Usable, FileIsRight
      <4>2. HotIsRight(hot', TradesOf(file.buckets))
        BY <4>1, RestoredIsRight
      <4>3. Contents' = TradesOf(file.buckets)
        BY <4>1 DEF Contents, TradesOf
      <4> QED
        BY <4>1, <4>2, <4>3
    <3>2. CASE ~Usable(file)
      BY <1>2, <3>2, EmptyIsRight DEF Restart
    <3> QED
      BY <3>1, <3>2
  <2>3. FileIsRight'
    <3>1. file' = file \/ file'.kind # "ok"
      BY <2>1 DEF NoFile
    <3> QED
      BY <3>1 DEF FileIsRight
  <2>4. ScanIsRight'
    <3>1. scan = None
      BY <2>1 DEF ScanIsRight
    <3> QED
      BY <2>1, <3>1 DEF ScanIsRight
  <2> QED
    BY <2>1, <2>2, <2>3, <2>4 DEF DebtIsRight
<1> QED
  BY <1>1, <1>2

\* Each step keeps the invariant.
LEMMA InvNext == Inv /\ [Next]_vars => Inv'
<1> SUFFICES ASSUME Inv, [Next]_vars PROVE Inv'
  OBVIOUS
<1>1. CASE Tick \/ UNCHANGED vars
  <2>1. UNCHANGED <<phase, buckets, hot, scan, file, owed, Contents>> /\ now' \in Nat
    BY <1>1 DEF Tick, vars, Contents, Inv
  <2> QED
    BY <2>1 DEF Inv, ScanIsRight, FileIsRight, DebtIsRight
<1> QED
  BY <1>1, StoreKeeps, RefreshKeeps, CloseKeeps, RestartKeeps DEF Next

\* The invariant of the ring, the hot cache and the backup: each trade is in the
\* bucket of its second, the cache has what the buffer has, and what is owed to
\* the next start is in memory or in the file.
THEOREM InvTheorem == Spec => []Inv
  BY InvInit, InvNext, PTL DEF Spec

-----------------------------------------------------------------------------
(* The theorems *)

\* A query that the hot cache does not answer.
LEMMA ColdIsExact ==
  ASSUME Inv, NEW key \in Keys, NEW r \in Ranges
  PROVE  /\ getFromColdBuffer(key, r[1], r[2]) = Held(key, r[1], r[2])
         /\ Held(key, r[1], r[2]) = {t \in Contents : KeyOf[t] = key /\ InRange(t, r[1], r[2])}
<1>1. r[1] \in Int /\ r[2] \in Int /\ r[2] \div MsPerSecond - r[1] \div MsPerSecond < BucketCount
  BY TimeAssumption DEF Ranges
<1>2. ScanRing(buckets, key, r[1], r[2])
        = {t \in TradesOf(buckets) : KeyOf[t] = key /\ InRange(t, r[1], r[2])}
  BY <1>1, ScanIsExact DEF Inv
<1> QED
  BY <1>2, ContentsAreTrades DEF getFromColdBuffer, Held

\* Whatever number of buckets the ring has and wherever in it a range lies, a
\* scan of the buckets finds the trades of the range, and those only.
THEOREM ScanTheorem == Spec => []ColdScanIsExact
<1>1. Inv => ColdScanIsExact
  BY ColdIsExact DEF ColdScanIsExact
<1> QED
  BY <1>1, InvTheorem, PTL

\* However stores, refreshes, saves, crashes and restarts interleave, a query
\* keeps the contract of TradeQuery: all that it may leave out is what the
\* snapshot behind the hot cache did not have.
THEOREM ContractTheorem == Spec => []OmitsOnlyUnrefreshed
<1>1. ASSUME Inv, NEW key \in Keys, NEW r \in Ranges, NEW view,
             view = IF key \in ActiveKeys /\ hot[key] # None
                      THEN [among |-> hot[key].among, at |-> hot[key].takenAt] ELSE None
      PROVE  IsAnswer(GetTradeEvents(key, r[1], r[2]), {t \in Contents : KeyOf[t] = key},
                      view, r[1], r[2])
  <2> DEFINE recent == getFromHotCache(key, r[1], r[2])
             wanted == {t \in Contents : KeyOf[t] = key /\ InRange(t, r[1], r[2])}
  <2>1. CASE recent = {}
    <3>1. GetTradeEvents(key, r[1], r[2]) = wanted
      BY <1>1, <2>1, ColdIsExact DEF GetTradeEvents
    <3> QED
      BY <3>1 DEF IsAnswer
  <2>2. CASE recent # {}
    <3>1. /\ GetTradeEvents(key, r[1], r[2]) = recent
          /\ hot[key] # None /\ recent = {t \in hot[key].trades : InRange(t, r[1], r[2])}
      BY <2>2 DEF GetTradeEvents, getFromHotCache, HotUsable
    <3>2. EntryIsRight(hot[key], key, Contents)
      BY <1>1, <3>1 DEF Inv, HotIsRight
    <3>3. recent \subseteq wanted
      BY <3>1, <3>2 DEF EntryIsRight
    <3>4. view = [among |-> hot[key].among, at |-> hot[key].takenAt]
      BY <1>1, <3>1, <3>2 DEF EntryIsRight
    <3>5. view.among = hot[key].among /\ view.at = hot[key].takenAt
      BY <3>4
    <3>6. view # None
      <4>1. view \in [among : SUBSET Trades, at : Nat]
        BY <3>2, <3>4 DEF EntryIsRight, Entries
      <4> QED
        BY <4>1, NoneAssumption
    <3>7. ASSUME NEW t \in wanted \ recent
          PROVE  t \notin hot[key].among
                   \/ ~InRange(t, hot[key].takenAt - HotMs, hot[key].takenAt)
      BY <3>1, <3>2, <3>7 DEF EntryIsRight
    <3> QED
      BY <3>1, <3>3, <3>5, <3>6, <3>7 DEF IsAnswer
  <2> HIDE DEF recent
  <2> QED
    BY <2>1, <2>2
<1>2. Inv => OmitsOnlyUnrefreshed
  BY <1>1 DEF OmitsOnlyUnrefreshed
<1> QED
  BY <1>2, InvTheorem, PTL

\* An orderly Close followed by a start within the 20 minutes loses no trade that
\* was in the buffer when the Close began, whenever the process was killed.
THEOREM RestartTheorem == Spec => OrderlyRestartKeepsTrades
<1> DEFINE Kept == phase = "down" /\ phase' = "open" /\ now - owed.time <= Duration
                     => owed.trades \subseteq Contents'
<1>1. Inv /\ [Next]_vars => [Kept]_vars
  <2> SUFFICES ASSUME Inv, Next, phase = "down", phase' = "open", now - owed.time <= Duration
               PROVE  owed.trades \subseteq Contents'
    OBVIOUS
  <2>1. Restart
    BY DEF Next, Tick, StoreTradeEvent, RefreshBegin, RefreshEnd, CloseBegin, SaveSucceeds,
       SaveFails, CloseEnd, Die
  <2>2. CASE owed.trades = {}
    BY <2>2
  <2>3. CASE /\ file.kind = "ok" /\ file.time = owed.time
             /\ owed.trades \subseteq TradesOf(file.buckets)
    <3>1. buckets' = file.buckets
      BY <2>1, <2>3 DEF Restart, Usable, RestoredBuckets
    <3> QED
      BY <2>3, <3>1 DEF Contents, TradesOf
  <2> QED
    BY <2>2, <2>3 DEF Inv, DebtIsRight
<1> QED
  BY <1>1, InvTheorem, PTL DEF Spec, OrderlyRestartKeepsTrades

=============================================================================
