------------------------ MODULE CircularTradeBuffer ------------------------
(***************************************************************************)
(* The 20-minute buffer of internal/buffer/circular_trade_buffer.go: a     *)
(* ring of one-second buckets, the hot cache refreshed behind the writers' *)
(* back, Close with its backup, and LoadFromBackup at the next start.      *)
(*                                                                         *)
(* Time is in abstract milliseconds, MsPerSecond of them to a second. Each *)
(* trade is a name with a fixed exchange key and exchange timestamp; it    *)
(* arrives at any moment from its timestamp on. Directly written trades    *)
(* are the only writes: the batch channel receives nothing (line 160).     *)
(* A kill stands for a crash, for kill -9, and for the runtime's fatal     *)
(* "concurrent map" fault, to which SaveToBackup is open: it marshals the  *)
(* live bucket maps after it has released their mutexes.                   *)
(***************************************************************************)
EXTENDS Integers, FiniteSets

CONSTANTS
  Trades,       \* names of the trades that may arrive
  TsOf, KeyOf,  \* their Timestamp and their exchange key
  Keys,         \* exchange keys that are queried
  ActiveKeys,   \* activeExchanges, the keys updateHotCache refreshes
  MsPerSecond,  \* milliseconds per second
  BucketCount,  \* number of one-second buckets
  HotSeconds,   \* HotCacheSeconds
  None,
  MaxTime       \* bound on the clock

ASSUME RingAssumption == BucketCount \in Nat \ {0} /\ MsPerSecond \in Nat \ {0}
ASSUME KeyAssumption  == KeyOf \in [Trades -> Keys] /\ ActiveKeys \subseteq Keys
ASSUME NoneAssumption == None \notin [among : SUBSET Trades, at : Nat]
ASSUME TimeAssumption == TsOf \in [Trades -> 0..MaxTime] /\ MaxTime \in Nat
\* 120 of 1200: a refresh looks back less than one turn of the ring.
ASSUME HotAssumption  == HotSeconds \in Nat /\ HotSeconds < BucketCount

VARIABLES
  now,         \* the clock
  phase,       \* "open", "saving" and "saved" (inside Close), "closed", "down"
  buckets,     \* buckets[i]: the trades of bucket i, of all exchanges
  hot,         \* hotCache: per key None, or its trades and lastUsed; takenAt and
               \* among tell when it was taken and what the buffer then held
  scan,        \* None, or the refresh in progress: [from, seen]
  file,        \* the backup file: NoFile, Corrupt, or [kind, time, buckets, hot]
  accepted,    \* history: the trades StoreTradeEvent has accepted
  owed         \* history: BackupTime and what the buffer then held

vars == <<now, phase, buckets, hot, scan, file, accepted, owed>>

HotMs == HotSeconds * MsPerSecond

INSTANCE TradeQuery   \* InRange, and IsAnswer for the properties

Indexes  == 0..(BucketCount - 1)
Contents == UNION {buckets[i] : i \in Indexes}
Duration == BucketCount * MsPerSecond

EmptyBuckets == [i \in Indexes |-> {}]
EmptyHot     == [k \in Keys |-> None]

GetBucketIndex(ts) == (ts \div MsPerSecond) % BucketCount

NoFile  == [kind |-> "none"]
Corrupt == [kind |-> "corrupt"]   \* cut short, not to be parsed

\* Nothing is owed to the next start.
NoDebt == [time |-> 0, trades |-> {}]

Init ==
  /\ now = 0
  /\ phase = "open"
  /\ buckets = EmptyBuckets
  /\ hot = EmptyHot
  /\ scan = None
  /\ file = NoFile
  /\ accepted = {}
  /\ owed = NoDebt

-----------------------------------------------------------------------------
(* Queries *)

\* The indexes visited from startBucket on around the ring, up to and with
\* endBucket, where the loop stops.
\* Mutant: the loop stops before it has read endBucket.
BucketsVisited_StopsEarly(startBucket, endBucket) ==
  {i \in Indexes : (i - startBucket) % BucketCount < (endBucket - startBucket) % BucketCount}

BucketsVisited(startBucket, endBucket) ==
  {i \in Indexes : (i - startBucket) % BucketCount <= (endBucket - startBucket) % BucketCount}

\* The trades of ring that a scan from start to end returns for an exchange.
ScanRing(ring, key, start, end) ==
  {t \in UNION {ring[i] : i \in BucketsVisited(GetBucketIndex(start), GetBucketIndex(end))} :
     KeyOf[t] = key /\ InRange(t, start, end)}

getFromColdBuffer(key, start, end) == ScanRing(buckets, key, start, end)

\* The hot cache has an entry of the key that is not older than HotSeconds.
HotUsable(key) == hot[key] # None /\ hot[key].lastUsed >= now - HotMs

getFromHotCache(key, start, end) ==
  IF HotUsable(key) THEN {t \in hot[key].trades : InRange(t, start, end)} ELSE {}

\* An empty result is a nil slice, which sends the query to the buckets.
GetTradeEvents(key, start, end) ==
  LET recent == getFromHotCache(key, start, end)
  IN  IF recent # {} THEN recent ELSE getFromColdBuffer(key, start, end)

-----------------------------------------------------------------------------
(* Operations *)

Tick ==
  /\ now < MaxTime
  /\ now' = now + 1
  /\ UNCHANGED <<phase, buckets, hot, scan, file, accepted, owed>>

\* Accepted until the closed flag is set, which is after the backup.
StoreTradeEvent(t) ==
  /\ phase \in {"open", "saving", "saved"}
  /\ TsOf[t] <= now /\ t \notin accepted
  /\ buckets' = [buckets EXCEPT ![GetBucketIndex(TsOf[t])] = @ \union {t}]
  /\ accepted' = accepted \union {t}
  /\ UNCHANGED <<now, phase, hot, scan, file, owed>>

\* updateHotCache holds rwMutex, which SaveToBackup read-locks and the writers
\* do not take: what they store during the scan may or may not be seen.
RefreshBegin ==
  /\ phase \in {"open", "saved"} /\ scan = None
  /\ scan' = [from |-> now, seen |-> Contents]
  /\ UNCHANGED <<now, phase, buckets, hot, file, accepted, owed>>

\* getRecentTrades over what the scan sees of the buckets.
Seen(late) == [i \in Indexes |-> buckets[i] \intersect (scan.seen \union late)]

\* Mutant: the trades are cached whatever their exchange key.
getRecentTrades_AnyKey(key, seen) ==
  UNION {ScanRing(seen, k, scan.from - HotMs, scan.from) : k \in Keys}

getRecentTrades(key, seen) == ScanRing(seen, key, scan.from - HotMs, scan.from)

\* A key with no trade in the last HotSeconds keeps the entry it has.
RefreshEnd ==
  /\ scan # None
  /\ \E late \in SUBSET (Contents \ scan.seen) :
       hot' = [k \in Keys |->
                 LET recent == getRecentTrades(k, Seen(late))
                 IN  IF k \in ActiveKeys /\ recent # {}
                       THEN [trades |-> recent, lastUsed |-> scan.from,
                             takenAt |-> scan.from, among |-> scan.seen]
                       ELSE hot[k]]
  /\ scan' = None
  /\ UNCHANGED <<now, phase, buckets, file, accepted, owed>>

\* Close: SaveToBackup takes BackupTime and collects references to the buckets.
CloseBegin ==
  /\ phase = "open" /\ scan = None
  /\ phase' = "saving"
  /\ owed' = [time |-> now, trades |-> Contents]
  /\ UNCHANGED <<now, buckets, hot, scan, file, accepted>>

\* Marshal and WriteFile. Trades stored since CloseBegin may be in the file.
SaveSucceeds ==
  /\ phase = "saving"
  /\ phase' = "saved"
  /\ \E late \in SUBSET (Contents \ owed.trades) :
       file' = [kind |-> "ok", time |-> owed.time, hot |-> hot,
                buckets |-> [i \in Indexes |-> buckets[i] \intersect (owed.trades \union late)]]
  /\ UNCHANGED <<now, buckets, hot, scan, accepted, owed>>

\* The directory, the encoding or the write fails: Close goes on without.
SaveFails ==
  /\ phase = "saving"
  /\ phase' = "saved"
  /\ file' \in {file, Corrupt}
  /\ owed' = NoDebt
  /\ UNCHANGED <<now, buckets, hot, scan, accepted>>

CloseEnd ==
  /\ phase = "saved" /\ scan = None
  /\ phase' = "closed"
  /\ hot' = EmptyHot
  /\ UNCHANGED <<now, buckets, scan, file, accepted, owed>>

\* The process ends, in order or not; the memory is lost. A kill during the
\* save can leave a truncated file.
Die ==
  /\ phase # "down"
  /\ phase' = "down"
  /\ buckets' = EmptyBuckets /\ hot' = EmptyHot /\ scan' = None
  /\ file' \in (IF phase = "saving" THEN {file, Corrupt} ELSE {file})
  /\ owed' = IF phase \in {"saved", "closed"} THEN owed ELSE NoDebt
  /\ UNCHANGED <<now, accepted>>

\* The buckets put back from a backup, by bucket index.
\* Mutant: bucketIndex > 0 where the code has >= 0.
RestoredBuckets_NotFirst(backup) == [backup.buckets EXCEPT ![0] = {}]

RestoredBuckets(backup) == backup.buckets

\* The hot cache put back from a backup counts as used just now.
RestoredHot(backup) ==
  [k \in Keys |-> IF backup.hot[k] = None THEN None
                  ELSE [backup.hot[k] EXCEPT !.lastUsed = now]]

Usable(f) == f.kind = "ok" /\ now - f.time <= Duration

\* NewCircularTradeBuffer and LoadFromBackup. A backup that was restored or is
\* too old is deleted, one that cannot be parsed stays.
Restart ==
  /\ phase = "down"
  /\ phase' = "open"
  /\ IF Usable(file)
       THEN buckets' = RestoredBuckets(file) /\ hot' = RestoredHot(file)
       ELSE buckets' = EmptyBuckets /\ hot' = EmptyHot
  /\ file' = IF file.kind = "corrupt" THEN file ELSE NoFile
  /\ owed' = NoDebt
  /\ UNCHANGED <<now, scan, accepted>>

Next ==
  \/ Tick
  \/ \E t \in Trades : StoreTradeEvent(t)
  \/ RefreshBegin
  \/ RefreshEnd
  \/ CloseBegin
  \/ SaveSucceeds
  \/ SaveFails
  \/ CloseEnd
  \/ Die
  \/ Restart

Spec == Init /\ [][Next]_vars

-----------------------------------------------------------------------------
Held(key, start, end) == {t \in Contents : KeyOf[t] = key /\ InRange(t, start, end)}

\* A query is answered: not while a refresh holds rwMutex, not once closed.
Answering == scan = None /\ phase \in {"open", "saving", "saved"}

Ranges == {r \in (0..MaxTime) \X (0..MaxTime) :
             r[1] <= r[2] /\ r[2] \div MsPerSecond - r[1] \div MsPerSecond < BucketCount}

\* A query of the buckets returns exactly the trades of the exchange whose
\* timestamp is in the range, whatever side of the ring's end the range lies
\* on and although buckets are never emptied when the ring wraps around - for
\* every range that spans fewer seconds than there are buckets.
ColdScanIsExact ==
  Answering =>
    \A key \in Keys, r \in Ranges : getFromColdBuffer(key, r[1], r[2]) = Held(key, r[1], r[2])

\* A query keeps the contract of TradeQuery: what GetTradeEvents leaves out was
\* not in the hot cache's snapshot - stored since the snapshot was taken, or
\* outside the HotSeconds before it. In particular a restored hot cache, stamped
\* as fresh, hides no more than the snapshot it was saved from, and an exchange
\* that is never cached is never answered in part.
OmitsOnlyUnrefreshed ==
  Answering =>
    \A key \in Keys, r \in Ranges :
      LET view == IF key \in ActiveKeys /\ hot[key] # None
                    THEN [among |-> hot[key].among, at |-> hot[key].takenAt] ELSE None
      IN  IsAnswer(GetTradeEvents(key, r[1], r[2]), {t \in Contents : KeyOf[t] = key},
                   view, r[1], r[2])

\* Every trade in the buffer when an orderly Close begins is there again after
\* a restart within the 20 minutes, although writers go on during the save and
\* the process may be killed between the save and the end of Close.
OrderlyRestartKeepsTrades ==
  [][phase = "down" /\ phase' = "open" /\ now - owed.time <= Duration
       => owed.trades \subseteq Contents']_vars
=============================================================================
