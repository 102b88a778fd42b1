---------------------------- MODULE UpbitMonitor ----------------------------
(***************************************************************************)
(* internal/monitor/upbit.go and persistent_state.go: the polling          *)
(* goroutine that finds listing notices and triggers their collection      *)
(* once, the state file that remembers the processed ones over a restart,  *)
(* and the goroutines that save it.                                        *)
(*                                                                         *)
(* Notices are those whose badge and title make them KRW listings; which   *)
(* of the published ones a poll returns is up to the API. All goroutines   *)
(* save through one temporary file, so the file system is modelled down to *)
(* the inodes: a saver writes to the inode it opened, and a rename may     *)
(* already have made that inode the state file. A save holds the read lock *)
(* of the state from its beginning to its end.                             *)
(***************************************************************************)
EXTENDS Integers

CONSTANTS
  Notices, AnnouncedAt,   \* the listing notices and when they are announced
  Window,      \* notices older than this are ignored, 30 minutes in the code
  Retention,   \* maxRetention, 24 hours in the code
  Savers,      \* goroutines started by "go SaveState()" that may be active at once
  Stopper,     \* the goroutine that calls Stop
  None, MaxTime,
  MaxSpawned   \* bound on the saves that are started and wait

ASSUME WindowAssumption == Window \in Nat /\ Retention \in Nat /\ Window < Retention
ASSUME NoticeAssumption == AnnouncedAt \in [Notices -> Nat]
ASSUME SaverAssumption  == Stopper \notin Savers /\ None \notin Notices

Never == -1     \* no record

\* The contents of a file: none, cut short, or the records it was saved with.
Absent         == [kind |-> "absent"]
Torn           == [kind |-> "torn"]
Whole(records) == [kind |-> "whole", records |-> records]

VARIABLES
  now,          \* the clock
  phase,        \* the process: up, stopping, cleaned, saving, stopped or down
  processed,    \* ProcessedNotices: when each notice was processed, or Never
  poll,         \* the polling goroutine: [pc, notice, rest]
  attempts,     \* history: collections triggered in this run, per notice
  spawned,      \* "go SaveState()" goroutines that have not begun
  saver,        \* active saves: [pc, target], target being the inode opened
  due,          \* saveInterval has passed since lastSaveTime
  tmp, file,    \* contents of the temporary file and of the state file
  leftTorn      \* history: a failed write or an earlier process tore the file

pollVars == <<processed, poll, attempts>>
diskVars == <<tmp, file, leftTorn>>
vars == <<now, phase, pollVars, spawned, saver, due, diskVars>>

AllSavers == Savers \union {Stopper}
NoPoll    == [pc |-> "idle", notice |-> None, rest |-> {}]
NoSave    == [pc |-> "idle", target |-> "gone"]
Nothing   == [n \in Notices |-> Never]

Alive    == phase # "down"
MuFree   == phase \in {"up", "stopped"}   \* Stop holds um.mu to its end
Unlocked == \A s \in AllSavers : saver[s].pc = "idle"   \* no reader of the state

Init ==
  /\ now = 0 /\ phase = "up"
  /\ processed = Nothing /\ poll = NoPoll
  /\ attempts = [n \in Notices |-> 0]
  /\ spawned = 0 /\ saver = [s \in AllSavers |-> NoSave] /\ due = TRUE
  /\ tmp = Absent /\ file = Absent /\ leftTorn = FALSE

Tick ==
  /\ now < MaxTime
  /\ now' = now + 1
  /\ UNCHANGED <<phase, pollVars, spawned, saver, due, diskVars>>

IntervalPasses ==
  /\ ~due
  /\ due' = TRUE
  /\ UNCHANGED <<now, phase, pollVars, spawned, saver, diskVars>>

-----------------------------------------------------------------------------
(* The polling goroutine *)

Spawn == spawned < MaxSpawned /\ spawned' = spawned + 1

RecordError == Unlocked /\ Spawn

\* Mutant: the check of the persistent state is left out.
shouldProcess_NoCheck(n) == now - AnnouncedAt[n] <= Window

IsNoticeProcessed(n) == processed[n] # Never /\ now - processed[n] <= Retention

shouldProcess(n) == ~IsNoticeProcessed(n) /\ now - AnnouncedAt[n] <= Window

MarkNoticeProcessed(n) ==
  /\ Unlocked
  /\ processed' = [processed EXCEPT ![n] = now]
  /\ IF due THEN Spawn ELSE UNCHANGED spawned

\* After Stop the loop may still take a tick that was waiting before it sees
\* that the context is cancelled; the request is then refused.
PollBegin ==
  /\ MuFree /\ poll.pc = "idle"
  /\ poll' = [poll EXCEPT !.pc = IF phase = "up" THEN "fetching" ELSE "refused"]
  /\ UNCHANGED <<now, phase, processed, attempts, spawned, saver, due, diskVars>>

FetchFails ==
  /\ poll.pc \in {"fetching", "refused"}
  /\ RecordError
  /\ poll' = [poll EXCEPT !.pc = IF @ = "refused" THEN "ended" ELSE "idle"]
  /\ UNCHANGED <<now, phase, processed, attempts, saver, due, diskVars>>

\* UpdatePollStatistics takes the write lock.
FetchSucceeds ==
  /\ poll.pc = "fetching" /\ Unlocked
  /\ \E page \in SUBSET {n \in Notices : AnnouncedAt[n] <= now} :
       poll' = [pc |-> "scan", notice |-> None, rest |-> page]
  /\ UNCHANGED <<now, phase, processed, attempts, spawned, saver, due, diskVars>>

ScanNotice ==
  /\ poll.pc = "scan"
  /\ \E n \in poll.rest :
       poll' = [pc     |-> IF shouldProcess(n) THEN "mark" ELSE "scan",
                notice |-> IF shouldProcess(n) THEN n ELSE None,
                rest   |-> poll.rest \ {n}]
  /\ UNCHANGED <<now, phase, processed, attempts, spawned, saver, due, diskVars>>

ScanEnds ==
  /\ poll.pc = "scan" /\ poll.rest = {}
  /\ poll' = NoPoll
  /\ UNCHANGED <<now, phase, processed, attempts, spawned, saver, due, diskVars>>

\* handleListingEvent: the notice is marked as processed first.
MarkListing ==
  /\ poll.pc = "mark"
  /\ MarkNoticeProcessed(poll.notice)
  /\ poll' = [poll EXCEPT !.pc = "trigger"]
  /\ UNCHANGED <<now, phase, attempts, saver, due, diskVars>>

\* StartDataCollection, after the statistics under um.mu; it may fail.
Trigger ==
  /\ poll.pc = "trigger" /\ MuFree
  /\ attempts' = [attempts EXCEPT ![poll.notice] = @ + 1]
  /\ \E pc \in {"confirm", "deny"} : poll' = [poll EXCEPT !.pc = pc]
  /\ UNCHANGED <<now, phase, processed, spawned, saver, due, diskVars>>

\* The notice is marked again, with the outcome; a failure is also recorded.
MarkOutcome ==
  /\ poll.pc \in {"confirm", "deny"}
  /\ MarkNoticeProcessed(poll.notice)
  /\ poll' = [poll EXCEPT !.pc = IF poll.pc = "deny" THEN "report" ELSE "scan"]
  /\ UNCHANGED <<now, phase, attempts, saver, due, diskVars>>

ReportFailure ==
  /\ poll.pc = "report"
  /\ RecordError
  /\ poll' = [poll EXCEPT !.pc = "scan"]
  /\ UNCHANGED <<now, phase, processed, attempts, saver, due, diskVars>>

Poll ==
  \/ FetchFails \/ FetchSucceeds
  \/ ScanNotice \/ ScanEnds \/ MarkListing \/ Trigger \/ MarkOutcome \/ ReportFailure

-----------------------------------------------------------------------------
(* SaveState *)

SaveBegin(s) ==
  /\ spawned > 0 /\ saver[s].pc = "idle"
  /\ spawned' = spawned - 1
  /\ saver' = [saver EXCEPT ![s].pc = "create"]
  /\ UNCHANGED <<now, phase, pollVars, due, diskVars>>

\* os.Create truncates the temporary file, whoever has it open.
\* Mutant: the encoder's output is not flushed before the rename.
Create_NoFlush(s) ==
  /\ saver[s].pc = "create"
  /\ tmp' = Torn
  /\ saver' = [saver EXCEPT ![s] = [pc |-> "rename", target |-> "tmp"]]
  /\ UNCHANGED <<now, phase, pollVars, spawned, due, file, leftTorn>>

Create(s) ==
  /\ saver[s].pc = "create"
  /\ tmp' = Torn
  /\ saver' = [saver EXCEPT ![s] = [pc |-> "write", target |-> "tmp"]]
  /\ UNCHANGED <<now, phase, pollVars, spawned, due, file, leftTorn>>

CreateFails(s) ==
  /\ saver[s].pc = "create"
  /\ saver' = [saver EXCEPT ![s] = NoSave]
  /\ UNCHANGED <<now, phase, pollVars, spawned, due, diskVars>>

WriteTo(target, contents) ==
  /\ tmp'  = IF target = "tmp"  THEN contents ELSE tmp
  /\ file' = IF target = "file" THEN contents ELSE file

Write(s) ==
  /\ saver[s].pc = "write"
  /\ WriteTo(saver[s].target, Whole(processed))
  /\ saver' = [saver EXCEPT ![s].pc = "rename"]
  /\ UNCHANGED <<now, phase, pollVars, spawned, due, leftTorn>>

\* The disk is full: what is written is cut short.
WriteFails(s) ==
  /\ saver[s].pc = "write"
  /\ WriteTo(saver[s].target, Torn)
  /\ leftTorn' = TRUE
  /\ saver' = [saver EXCEPT ![s].pc = "remove"]
  /\ UNCHANGED <<now, phase, pollVars, spawned, due>>

\* The save s ends; the inode that others opened as the temporary file has
\* become `to`, and what was the state file before a rename is gone.
EndSave(s, to) ==
  saver' = [r \in AllSavers |->
              IF r = s THEN NoSave
              ELSE [saver[r] EXCEPT !.target = CASE @ = "tmp" -> to
                                                 [] @ = "file" /\ to = "file" -> "gone"
                                                 [] OTHER -> @]]

\* Whatever is the temporary file now becomes the state file.
Rename(s) ==
  /\ saver[s].pc = "rename" /\ tmp # Absent
  /\ file' = tmp /\ tmp' = Absent
  /\ due' = FALSE
  /\ EndSave(s, "file")
  /\ UNCHANGED <<now, phase, pollVars, spawned, leftTorn>>

RenameFails(s) ==
  /\ saver[s].pc = "rename" /\ tmp = Absent
  /\ saver' = [saver EXCEPT ![s].pc = "remove"]
  /\ UNCHANGED <<now, phase, pollVars, spawned, due, diskVars>>

\* The temporary file is removed, also when it is another saver's by now.
\* Mutant: the lock is not released on this path.
Remove_KeepsLock(s) ==
  /\ saver[s].pc = "remove"
  /\ tmp' = Absent
  /\ saver' = [saver EXCEPT ![s].pc = "left"]
  /\ UNCHANGED <<now, phase, pollVars, spawned, due, file, leftTorn>>

Remove(s) ==
  /\ saver[s].pc = "remove"
  /\ tmp' = Absent
  /\ EndSave(s, "gone")
  /\ UNCHANGED <<now, phase, pollVars, spawned, due, file, leftTorn>>

SaveState(s) ==
  Create(s) \/ CreateFails(s) \/ Write(s) \/ WriteFails(s) \/ Rename(s) \/ RenameFails(s) \/ Remove(s)

-----------------------------------------------------------------------------
(* Stop, the end of the process and the next start *)

StopBegin ==
  /\ phase = "up"
  /\ phase' = "stopping"
  /\ UNCHANGED <<now, pollVars, spawned, saver, due, diskVars>>

\* ForceCleanup begins: CleanupOldRecords starts a save of its own when it has
\* removed a record. The polling goroutine goes on.
CleanupOldRecords ==
  /\ phase = "stopping" /\ Unlocked
  /\ phase' = "cleaned"
  /\ LET old == {n \in Notices : processed[n] # Never /\ now - processed[n] > Retention}
     IN  /\ processed' = [n \in Notices |-> IF n \in old THEN Never ELSE processed[n]]
         /\ IF old # {} THEN Spawn ELSE UNCHANGED spawned
  /\ UNCHANGED <<now, poll, attempts, saver, due, diskVars>>

\* ForceCleanup goes on with a save in the goroutine that stops the monitor.
ForceSave ==
  /\ phase = "cleaned"
  /\ phase' = "saving"
  /\ saver' = [saver EXCEPT ![Stopper].pc = "create"]
  /\ UNCHANGED <<now, pollVars, spawned, due, diskVars>>

StopEnd ==
  /\ phase = "saving" /\ saver[Stopper].pc = "idle"
  /\ phase' = "stopped"
  /\ UNCHANGED <<now, pollVars, spawned, saver, due, diskVars>>

\* The process ends - after Stop, or in a crash - with whatever is going on.
Die ==
  /\ Alive
  /\ phase' = "down"
  /\ processed' = Nothing /\ poll' = NoPoll
  /\ attempts' = [n \in Notices |-> 0]
  /\ spawned' = 0 /\ saver' = [s \in AllSavers |-> NoSave]
  /\ UNCHANGED <<now, due, diskVars>>

\* loadState starts fresh when the file is absent or cannot be parsed.
\* Mutant: the version check takes every file for an old one.
Loaded_Fresh(contents) == Nothing

Loaded(contents) == IF contents.kind = "whole" THEN contents.records ELSE Nothing

Restart ==
  /\ phase = "down"
  /\ phase' = "up"
  /\ processed' = Loaded(file)
  /\ due' = TRUE
  /\ leftTorn' = (file = Torn)
  /\ UNCHANGED <<now, poll, attempts, spawned, saver, tmp, file>>

Next ==
  \/ Tick \/ IntervalPasses
  \/ PollBegin \/ Poll
  \/ \E s \in Savers : SaveBegin(s)
  \/ \E s \in AllSavers : SaveState(s)
  \/ StopBegin \/ CleanupOldRecords \/ ForceSave \/ StopEnd \/ Die \/ Restart

Spec == Init /\ [][Next]_vars

\* Goroutines that can go on do so: a poll that has begun, the saves, Stop.
\* Whether polls begin, the clock moves or the process ends is left open.
Fairness ==
  /\ WF_vars(Poll) /\ WF_vars(CleanupOldRecords \/ ForceSave \/ StopEnd)
  /\ \A s \in Savers : WF_vars(SaveBegin(s))
  /\ \A s \in AllSavers : WF_vars(SaveState(s))

FairSpec == Spec /\ Fairness

-----------------------------------------------------------------------------
\* However often a notice is polled, while it is being handled and after, a run
\* of the process triggers its collection at most once: the record outlives the
\* window in which the notice can be processed, and Stop's cleanup removes only
\* what is out of it.
TriggeredOncePerRun == \A n \in Notices : attempts[n] <= 1

\* The state file does not forget: a whole state file that follows a whole one
\* - however many savers share the temporary file, over restarts too - has
\* every record of it, as late or later, but those past their retention.
FileNeverForgets ==
  [][\A n \in Notices :
       /\ file.kind = "whole" /\ file'.kind = "whole"
       /\ now - file.records[n] <= Retention
       => file'.records[n] >= file.records[n]]_vars

\* When concurrent saves tear the state file, a save that still has to write
\* goes to that very file and mends it - unless a write fails or the process
\* ends first.
TornFileIsMended ==
  file = Torn /\ Alive /\ ~leftTorn
    => \E s \in AllSavers : saver[s].pc = "write" /\ saver[s].target = "file"

\* A notice that is found to be new gets its attempt: no save, and not Stop,
\* which holds um.mu while it saves, blocks the polling goroutine for ever.
FoundIsAttempted ==
  \A n \in Notices :
    poll.pc = "mark" /\ poll.notice = n ~> attempts[n] > 0 \/ phase = "down"
=============================================================================
