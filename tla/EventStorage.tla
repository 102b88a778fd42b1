---------------------------- MODULE EventStorage ----------------------------
(***************************************************************************)
(* internal/storage/manager.go: how a collection of trades and what the    *)
(* analyzer makes of it become the files of a directory. A store is a      *)
(* goroutine of StartDataCollection and holds sm.mu from its first file to *)
(* its last; the polling goroutine waits for the same mutex to store the   *)
(* metadata of the notice, main.go to close the storage.                   *)
(*                                                                         *)
(* The process may end between any two files, orderly or not, and the next *)
(* one may be given the same notice again: its directory is written over.  *)
(* Raw and refined data and the analysis are enabled, as in config.yaml.   *)
(***************************************************************************)
EXTENDS AnalyzedCollection

CONSTANTS
  Listings,               \* notices of listings,
  CoinOf, TriggerOf,      \* their Symbol and TriggerTime in whole seconds
  NoticeWindow,           \* older notices are not handled
  Markets, RawOrder,      \* the markets, in the order of storeRawData
  Collections,            \* per notice the collections that may be handed over
  RetentionDays, Day,     \* the age of a directory that is removed
  ZoneOffset,             \* how far Upbit's zone is ahead of UTC
  CleanTimes,             \* the times at which the storage may be closed
  MaxRuns                 \* bound on the number of processes

VARIABLES
  runs,        \* how many processes have been started
  main,        \* main.go: "running", "stopping", "exiting", or "down"
  poll,        \* the polling goroutine: [at, of]
  tasks,       \* per notice its store: [at, no, data, result, todo]
  smu,         \* None, or the store that holds sm.mu
  disk,        \* per directory and file: [of, no, body]
  begun,       \* history: how many stores have begun
  cleaned      \* history: the clock at the last clean-up

vars == <<runs, main, poll, tasks, smu, disk, begun, cleaned>>

ASSUME StorageAssumption ==
  /\ None \notin Listings /\ MaxRuns \in Nat \ {0}
  /\ RawOrder \in Seq(Markets) /\ Range(RawOrder) = Markets
  /\ Range(AnalysisOrder) = Markets
  /\ CoinOf \in [Listings -> STRING] /\ TriggerOf \in [Listings -> Nat]
  /\ \A l \in Listings : \A data \in Collections[l] :
       data \in [Markets -> SUBSET Trades] /\ \A m \in Markets : IsFiniteSet(data[m])
  /\ CleanTimes \union {RetentionDays, Day, ZoneOffset, NoticeWindow} \subseteq Nat
  /\ ParametersOK

\* No store has been started for the notice in this process.
NoTask == [at |-> "none", no |-> 0, data |-> None, result |-> None, todo |-> {}]

Init ==
  /\ runs = 1
  /\ main = "running"
  /\ poll = [at |-> "idle", of |-> None]
  /\ tasks = [l \in Listings |-> NoTask]
  /\ smu = None
  /\ disk = <<>>
  /\ begun = 0
  /\ cleaned = 0

-----------------------------------------------------------------------------
(* Directories and files *)

\* Two notices of one coin and one second share a directory.
getEventDirectory(l) == [symbol |-> CoinOf[l], time |-> TriggerOf[l]]

Directories == {x[1] : x \in DOMAIN disk}

File(kind, market) == [kind |-> kind, market |-> market]
RawFiles     == {File("raw", m) : m \in Markets}
MetadataFile == File("metadata", None)
AnalysisFile == File("pump_analysis", None)
EventsFile   == File("pump_events", None)
SummaryFile  == File("summary", None)

\* The order in which a store writes its files; that of the last is a map's.
Rank(f) ==
  CASE f.kind = "raw"           -> CHOOSE i \in DOMAIN RawOrder : RawOrder[i] = f.market
    [] f.kind = "pump_analysis" -> Len(RawOrder) + 1
    [] f.kind = "pump_events"   -> Len(RawOrder) + 2
    [] f.kind = "summary"       -> Len(RawOrder) + 3
    [] f.kind = "pumps"         -> Len(RawOrder) + 4

Put(dir, f, entry) ==
  disk' = [x \in DOMAIN disk \union {<<dir, f>>} |-> IF x = <<dir, f>> THEN entry ELSE disk[x]]

-----------------------------------------------------------------------------
(* The polling goroutine *)

PollBegin ==
  /\ main = "running" /\ poll.at = "idle"
  /\ poll' = [poll EXCEPT !.at = "polling"]
  /\ UNCHANGED <<runs, main, tasks, smu, disk, begun, cleaned>>

PollEnd ==
  /\ poll.at = "polling"
  /\ poll' = [poll EXCEPT !.at = "idle"]
  /\ UNCHANGED <<runs, main, tasks, smu, disk, begun, cleaned>>

\* The end of StartDataCollection (module ListingCollection): a goroutine is
\* started. A process handles a notice once, while it is new (module
\* UpbitMonitor); the clock is not behind the last clean-up.
HandOver(l) ==
  /\ poll.at = "polling" /\ tasks[l].at = "none"
  /\ cleaned - TriggerOf[l] <= NoticeWindow
  /\ \E data \in Collections[l] :
       tasks' = [tasks EXCEPT ![l] =
                  [at |-> "spawned", no |-> 0, data |-> data, result |-> None, todo |-> {}]]
  /\ poll' = [at |-> "storing", of |-> l]
  /\ UNCHANGED <<runs, main, smu, disk, begun, cleaned>>

\* StoreListingEvent waits for sm.mu. Its failure is printed, no more.
StoreListingEvent ==
  /\ poll.at = "storing" /\ smu = None
  /\ poll' = [at |-> "polling", of |-> None]
  /\ \/ Put(getEventDirectory(poll.of), MetadataFile,
            [of |-> poll.of, no |-> 0, body |-> TriggerOf[poll.of]])
     \/ UNCHANGED disk
  /\ UNCHANGED <<runs, main, tasks, smu, begun, cleaned>>

-----------------------------------------------------------------------------
(* A store *)

AllData == UNION {Collections[l] : l \in Listings}

\* What the analyzer makes of each collection, as a table.
ResultOf == [data \in AllData |-> AnalyzePumps(data)]

At(l, where) == tasks[l].at = where

\* Mutant: sm.mu is not waited for.
StoreCollectionEvent_NoLock(l) ==
  /\ At(l, "spawned")
  /\ smu' = l
  /\ begun' = begun + 1
  /\ tasks' = [tasks EXCEPT ![l].at = "raw", ![l].no = begun + 1, ![l].todo = RawFiles]
  /\ UNCHANGED <<runs, main, poll, disk, cleaned>>

StoreCollectionEvent(l) ==
  /\ At(l, "spawned")
  /\ smu = None
  /\ smu' = l
  /\ begun' = begun + 1
  /\ tasks' = [tasks EXCEPT ![l].at = "raw", ![l].no = begun + 1, ![l].todo = RawFiles]
  /\ UNCHANGED <<runs, main, poll, disk, cleaned>>

PumpsIn(result, m) == SelectSeq(result.pumps, LAMBDA p : p.market = m)

Body(l, f) ==
  CASE f.kind = "raw"           -> tasks[l].data[f.market]
    [] f.kind = "pump_analysis" -> tasks[l].result
    [] f.kind = "pump_events"   -> tasks[l].result.pumps
    [] f.kind = "summary"       -> tasks[l].result.summary
    [] f.kind = "pumps"         -> PumpsIn(tasks[l].result, f.market)

NextFiles(l) == {f \in tasks[l].todo : \A g \in tasks[l].todo : Rank(f) <= Rank(g)}

\* A rename replaces the file; its temporary name belongs to the holder of sm.mu.
writeJSONFile(l) ==
  /\ At(l, "raw") \/ At(l, "refined")
  /\ \E f \in NextFiles(l) :
       /\ Put(getEventDirectory(l), f, [of |-> l, no |-> tasks[l].no, body |-> Body(l, f)])
       /\ tasks' = [tasks EXCEPT ![l].todo = @ \ {f}]
  /\ UNCHANGED <<runs, main, poll, smu, begun, cleaned>>

\* The file of one market's pumps is passed over when it cannot be written.
PumpsFileFails(l) ==
  /\ At(l, "refined")
  /\ \E f \in NextFiles(l) : f.kind = "pumps" /\ tasks' = [tasks EXCEPT ![l].todo = @ \ {f}]
  /\ UNCHANGED <<runs, main, poll, smu, disk, begun, cleaned>>

\* Mutant: with no pump found there is no summary.
RefinedFiles_NoSummary(result) ==
  {AnalysisFile} \union (IF result.pumps = <<>> THEN {} ELSE {EventsFile, SummaryFile})
    \union {File("pumps", m) : m \in result.summary.exchanges}

\* Without a pump, pump_events.json is neither written nor removed.
RefinedFiles(result) ==
  {AnalysisFile, SummaryFile} \union (IF result.pumps = <<>> THEN {} ELSE {EventsFile})
    \union {File("pumps", m) : m \in result.summary.exchanges}

\* After MaxAnalysisDelay, all through which sm.mu is held.
performPumpAnalysis(l) ==
  /\ At(l, "raw") /\ tasks[l].todo = {}
  /\ LET result == ResultOf[tasks[l].data]
     IN  tasks' = [tasks EXCEPT ![l].at = "refined", ![l].result = result,
                                ![l].todo = RefinedFiles(result)]
  /\ UNCHANGED <<runs, main, poll, smu, disk, begun, cleaned>>

StoreEnds(l, where, leftOut) ==
  /\ tasks' = [tasks EXCEPT ![l].at = where, ![l].todo = leftOut]
  /\ smu' = None
  /\ UNCHANGED <<runs, main, poll, disk, begun, cleaned>>

Stored(l) == At(l, "refined") /\ tasks[l].todo = {} /\ StoreEnds(l, "stored", {})

\* Mutant: this return path does not unlock sm.mu.
StoreRawFails_KeepsLock(l) ==
  /\ At(l, "raw")
  /\ tasks' = [tasks EXCEPT ![l].at = "failed", ![l].todo = {}]
  /\ UNCHANGED <<runs, main, poll, smu, disk, begun, cleaned>>

\* A directory or a raw file cannot be written: the rest is not tried.
StoreRawFails(l) == At(l, "raw") /\ StoreEnds(l, "failed", {})

\* The analysis ends with the first of its files that cannot be written. That is
\* printed, and the store reported as a success all the same.
RefinedFails(l) ==
  /\ At(l, "refined") /\ \E f \in NextFiles(l) : f.kind # "pumps"
  /\ StoreEnds(l, "stored", tasks[l].todo)

StoreStep(l) ==
  \/ StoreCollectionEvent(l)
  \/ writeJSONFile(l)
  \/ PumpsFileFails(l)
  \/ performPumpAnalysis(l)
  \/ Stored(l)
  \/ StoreRawFails(l)
  \/ RefinedFails(l)

-----------------------------------------------------------------------------
(* The process *)

\* main.go stops the monitor and the task manager; a poll and the stores go on.
StopMonitor ==
  /\ main = "running"
  /\ main' = "stopping"
  /\ UNCHANGED <<runs, poll, tasks, smu, disk, begun, cleaned>>

\* Mutant: the name is taken to be of a zone as far behind UTC.
Expired_Behind(dir, now) == dir.time - ZoneOffset < now - RetentionDays * Day

\* The time in a directory's name is of Upbit's zone and read as UTC.
Expired(dir, now) == dir.time + ZoneOffset < now - RetentionDays * Day

\* storageManager.Close waits for sm.mu, not for those who wait for it too.
\* The removal of a directory may fail, and is taken to leave it as it was then.
CloseStorage ==
  /\ main = "stopping" /\ smu = None
  /\ main' = "exiting"
  /\ \E now \in CleanTimes :
       /\ now >= cleaned
       /\ \E removed \in SUBSET {d \in Directories : Expired(d, now)} :
            disk' = [x \in {y \in DOMAIN disk : y[1] \notin removed} |-> disk[x]]
       /\ cleaned' = now
  /\ UNCHANGED <<runs, poll, tasks, smu, begun>>

\* The process returns from main, or is killed; its goroutines are gone.
ProcessEnds ==
  /\ main # "down"
  /\ main' = "down"
  /\ poll' = [at |-> "idle", of |-> None]
  /\ tasks' = [l \in Listings |-> NoTask]
  /\ smu' = None
  /\ UNCHANGED <<runs, disk, begun, cleaned>>

Start ==
  /\ main = "down" /\ runs < MaxRuns
  /\ main' = "running"
  /\ runs' = runs + 1
  /\ UNCHANGED <<poll, tasks, smu, disk, begun, cleaned>>

-----------------------------------------------------------------------------
Next ==
  \/ PollBegin
  \/ PollEnd
  \/ \E l \in Listings : HandOver(l) \/ StoreStep(l)
  \/ StoreListingEvent
  \/ StopMonitor
  \/ CloseStorage
  \/ ProcessEnds
  \/ Start

\* The goroutines that store are scheduled, and every write of a file returns;
\* nothing is assumed of the polls, of main.go or of the end of the process.
Fairness ==
  /\ WF_vars(StoreListingEvent)
  /\ \A l \in Listings : WF_vars(StoreStep(l))

Spec == Init /\ [][Next]_vars /\ Fairness

-----------------------------------------------------------------------------
Ended   == {"stored", "failed"}
Storing == {"raw", "refined"}

Files ==
  RawFiles \union {MetadataFile, AnalysisFile, EventsFile, SummaryFile}
    \union {File("pumps", m) : m \in UNION {ResultOf[data].summary.exchanges : data \in AllData}}

Task ==
  [at     : {"none", "spawned"} \union Storing \union Ended,
   no     : Nat,
   data   : AllData \union {None},
   result : {ResultOf[data] : data \in AllData} \union {None},
   todo   : SUBSET Files]

TypeOK ==
  /\ runs \in 1..MaxRuns /\ cleaned \in Nat /\ begun \in Nat
  /\ main \in {"running", "stopping", "exiting", "down"}
  /\ poll \in [at : {"idle", "polling"}, of : {None}] \union [at : {"storing"}, of : Listings]
  /\ tasks \in [Listings -> Task]
  /\ \A l \in Listings : At(l, "none") \/ tasks[l].data \in Collections[l]
  /\ smu \in Listings \union {None}
  /\ \A l \in Listings : smu = l <=> tasks[l].at \in Storing
  /\ DOMAIN disk \subseteq {getEventDirectory(l) : l \in Listings} \X Files
  /\ \A x \in DOMAIN disk :
       disk[x].of \in Listings /\ disk[x].no \in 0..begun /\ x[1] = getEventDirectory(disk[x].of)

FilesOf(dir) == {x[2] : x \in {y \in DOMAIN disk : y[1] = dir}}
StoreNo(dir, f) == disk[<<dir, f>>].no

\* A directory stays readable from the front, over crashes, failures and several
\* stores into it: a file that every store writes is never older than one that
\* stores write after it. Who finds a summary has the raw data and the analysis
\* it sums up, or newer ones; newer raw data beside an older summary tells of a
\* store that was cut off.
FilesAreInStepOrder ==
  \A x, y \in DOMAIN disk :
    /\ x[1] = y[1] /\ {x[2].kind, y[2].kind} \cap {"metadata"} = {}
    /\ x[2].kind \notin {"pump_events", "pumps"}
    /\ Rank(x[2]) < Rank(y[2])
    => disk[x].no >= disk[y].no

\* While no later store has written to its directory, and a clean-up has not
\* found it old, a store that was reported as a success has left there its raw
\* data, and of the analysis, the list of the pumps if there are any, and the
\* summary - each of just these data - all that it did not leave out: a failed
\* analysis leaves out its files from the first that cannot be written, and
\* older ones may lie in their place, as may an older list of pumps where no
\* pump was found.
StoredIsWhole ==
  \A l \in Listings :
    LET dir == getEventDirectory(l)
        body(f)    == disk[<<dir, f>>].body
        leftOut(f) == f \in tasks[l].todo
    IN  /\ At(l, "stored")
        /\ \A f \in FilesOf(dir) : StoreNo(dir, f) <= tasks[l].no
        /\ main # "exiting" \/ cleaned <= TriggerOf[l] + RetentionDays * Day
        => /\ RawFiles \subseteq FilesOf(dir)
           /\ LET result == AnalyzePumps([m \in Markets |-> body(File("raw", m))])
              IN  /\ \A m \in Markets : body(File("raw", m)) = tasks[l].data[m]
                  /\ ~leftOut(AnalysisFile) =>
                       AnalysisFile \in FilesOf(dir) /\ body(AnalysisFile) = result
                  /\ ~leftOut(SummaryFile) =>
                       SummaryFile \in FilesOf(dir) /\ body(SummaryFile) = result.summary
                  /\ ~leftOut(EventsFile) /\ result.pumps # <<>> =>
                       EventsFile \in FilesOf(dir) /\ body(EventsFile) = result.pumps

\* Every trade that is analyzed is in exactly one window of createTimeWindows,
\* and the windows are the seconds of the clock that have trades, in the order of
\* time: in the collections that stores analyze, and in any other.
WindowsArePartition ==
  /\ EveryCollectionHasWindows
  /\ \A l \in Listings : At(l, "refined") => AreWindows(tasks[l].data)

\* What a store is about to write as its analysis reports every rise of
\* MinPumpPercentage within a second of its data that has enough trades, and no
\* second in which the prices are closer together; and so would it of any other
\* collection.
RisesAreReported ==
  /\ EveryRiseIsFound
  /\ \A l \in Listings : At(l, "refined") => HasTheRises(tasks[l].result, tasks[l].data)

\* No file is ever removed before the notice is older than the retention, though
\* the clean-up reads the time of one zone as that of another.
RetentionIsRespected ==
  [][\A x \in DOMAIN disk \ DOMAIN disk' :
       TriggerOf[disk[x].of] + RetentionDays * Day < cleaned']_disk

\* Every store comes to an end, and so does the polling goroutine's wait for the
\* mutex behind it, whichever writes fail - unless the process ends first.
EveryStoreEnds ==
  /\ \A l \in Listings :
       At(l, "spawned") ~> tasks[l].at \in Ended \union {"none"}
  /\ poll.at = "storing" ~> poll.at # "storing"
=============================================================================
