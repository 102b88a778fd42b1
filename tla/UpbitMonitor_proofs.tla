------------------------- MODULE UpbitMonitor_proofs -------------------------
(***************************************************************************)
(* For any notices, windows, savers and numbers of crashes: a notice is    *)
(* triggered once per run, and the state file, which all savers write      *)
(* through one temporary file, neither forgets nor stays torn.             *)
(***************************************************************************)
EXTENDS UpbitMonitor, TLAPS

PollSteps == {"idle", "fetching", "scan", "mark", "trigger", "confirm", "deny", "report",
              "refused", "ended"}
SaveSteps == {"idle", "create", "write", "rename", "remove"}

\* Nothing is recorded before its time.
AreRecords(r) ==
  r \in [Notices -> Int] /\ \A n \in Notices : Never <= r[n] /\ r[n] <= now

IsFile(contents) ==
  \/ contents \in {Absent, Torn}
  \/ contents = Whole(contents.records) /\ AreRecords(contents.records)

TypeInv ==
  /\ now \in Nat
  /\ AreRecords(processed) /\ IsFile(tmp) /\ IsFile(file)
  /\ poll \in [pc : PollSteps, notice : Notices \union {None}, rest : SUBSET Notices]
  /\ attempts \in [Notices -> Nat]
  /\ saver \in [AllSavers -> [pc : SaveSteps, target : {"tmp", "file", "gone"}]]
  /\ spawned \in Nat

\* A process that is down has nothing under way; Stop's own save is Stop's.
PhaseIsRight ==
  /\ ~Alive => /\ poll = NoPoll /\ spawned = 0
               /\ \A n \in Notices : attempts[n] = 0
               /\ \A s \in AllSavers : saver[s].pc = "idle"
  /\ saver[Stopper].pc # "idle" => phase = "saving"

\* The notice was recorded since it was announced, or the window is over: in
\* neither case is it processed again.
Settled(n) ==
  \/ processed[n] # Never /\ AnnouncedAt[n] <= processed[n]
  \/ now - AnnouncedAt[n] > Window

AttemptsAreSettled ==
  /\ \A n \in poll.rest : AnnouncedAt[n] <= now
  /\ poll.pc \in {"mark", "trigger", "confirm", "deny"} =>
       poll.notice \in Notices /\ AnnouncedAt[poll.notice] <= now
  /\ poll.pc \in {"mark", "trigger"} => attempts[poll.notice] = 0
  /\ poll.pc = "trigger" => Settled(poll.notice)
  /\ \A n \in Notices : attempts[n] = 0 \/ (attempts[n] = 1 /\ Settled(n))

\* The saves that have truncated the temporary file.
Saving == {s \in AllSavers : saver[s].pc \in {"write", "rename", "remove"}}

\* While one is under way nothing can be recorded: what is in the temporary file
\* is up to date. If it is torn, one that opened it has yet to write.
TmpIsCurrent ==
  Saving # {} =>
    /\ tmp \in {Absent, Torn} \/ tmp = Whole(processed)
    /\ tmp = Torn /\ ~leftTorn =>
         \E s \in AllSavers : saver[s].pc = "write" /\ saver[s].target = "tmp"

\* The memory is ahead of the file.
FileIsBehind ==
  Alive /\ file.kind = "whole" =>
    \A n \in Notices : file.records[n] <= processed[n] \/ now - file.records[n] > Retention

Inv ==
  /\ TypeInv /\ PhaseIsRight /\ AttemptsAreSettled
  /\ TmpIsCurrent /\ FileIsBehind /\ TornFileIsMended

-----------------------------------------------------------------------------
LEMMA Kinds ==
  /\ Absent.kind = "absent" /\ Torn.kind = "torn"
  /\ \A r : Whole(r).kind = "whole" /\ Whole(r).records = r
  BY DEF Absent, Torn, Whole

LEMMA InvInit == Init => Inv
<1> SUFFICES ASSUME Init PROVE Inv
  OBVIOUS
<1> USE DEF Init
<1>1. TypeInv
  BY DEF TypeInv, AreRecords, IsFile, Nothing, NoPoll, NoSave, Never, PollSteps, SaveSteps
<1>2. PhaseIsRight /\ TmpIsCurrent
  BY DEF PhaseIsRight, Alive, AllSavers, NoSave, TmpIsCurrent, Saving
<1>3. AttemptsAreSettled
  BY DEF AttemptsAreSettled, NoPoll
<1>4. FileIsBehind /\ TornFileIsMended
  BY DEF FileIsBehind, TornFileIsMended, Absent, Torn
<1> QED
  BY <1>1, <1>2, <1>3, <1>4 DEF Inv

\* Such a notice is not found to be new.
LEMMA SettledIsNotNew ==
  ASSUME TypeInv, NEW n \in Notices, AnnouncedAt[n] <= now, Settled(n)
  PROVE  ~shouldProcess(n)
  BY WindowAssumption, NoticeAssumption
  DEF TypeInv, AreRecords, Settled, shouldProcess, IsNoticeProcessed

-----------------------------------------------------------------------------
(* The clock and the polling goroutine *)

LEMMA ClockKeeps ==
  ASSUME Inv, Tick \/ IntervalPasses
  PROVE  Inv'
<1> USE DEF Inv
<1>1. now' \in Nat /\ now <= now' /\ UNCHANGED <<phase, pollVars, spawned, saver, diskVars>>
  BY DEF Tick, IntervalPasses, TypeInv
<1>2. TypeInv'
  BY <1>1 DEF TypeInv, AreRecords, IsFile, pollVars, diskVars
<1>3. PhaseIsRight' /\ TmpIsCurrent' /\ TornFileIsMended'
  BY <1>1 DEF PhaseIsRight, Alive, TmpIsCurrent, Saving, TornFileIsMended, pollVars, diskVars
<1>4. \A n \in Notices : Settled(n) => Settled(n)'
  BY <1>1, NoticeAssumption, WindowAssumption DEF Settled, pollVars, TypeInv
<1>5. AttemptsAreSettled'
  BY <1>1, <1>4, NoticeAssumption DEF AttemptsAreSettled, pollVars, TypeInv
<1>6. FileIsBehind'
  <2> SUFFICES ASSUME Alive, file.kind = "whole", NEW n \in Notices
               PROVE  file.records[n] <= processed[n] \/ now' - file.records[n] > Retention
    BY <1>1 DEF FileIsBehind, Alive, pollVars, diskVars
  <2>1. file.records[n] \in Int
    BY Kinds DEF TypeInv, IsFile, AreRecords
  <2> QED
    BY <1>1, <2>1, WindowAssumption DEF FileIsBehind, TypeInv
<1> QED
  BY <1>2, <1>3, <1>5, <1>6

\* A notice is recorded, which takes a lock that no save holds.
LEMMA MarkKeeps ==
  ASSUME Inv, NEW n \in Notices, AnnouncedAt[n] <= now, Alive,
         MarkNoticeProcessed(n),
         UNCHANGED <<now, phase, attempts, saver, due, diskVars>>
  PROVE  /\ AreRecords(processed)' /\ IsFile(tmp)' /\ IsFile(file)'
         /\ spawned' \in Nat
         /\ Settled(n)' /\ \A m \in Notices : Settled(m) => Settled(m)'
         /\ TmpIsCurrent' /\ FileIsBehind' /\ TornFileIsMended'
<1> USE DEF Inv
<1>1. /\ processed' = [processed EXCEPT ![n] = now]
      /\ Unlocked /\ spawned' \in Nat
  BY DEF MarkNoticeProcessed, Spawn, TypeInv
<1>2. AreRecords(processed)' /\ IsFile(tmp)' /\ IsFile(file)'
  BY <1>1 DEF AreRecords, TypeInv, IsFile, Never, diskVars
<1>3. Settled(n)' /\ \A m \in Notices : Settled(m) => Settled(m)'
  BY <1>1, NoticeAssumption DEF Settled, TypeInv, AreRecords, Never
<1>4. TmpIsCurrent' /\ TornFileIsMended'
  BY <1>1 DEF TmpIsCurrent, Saving, Unlocked, TornFileIsMended, Alive, diskVars
<1>5. FileIsBehind'
  <2> SUFFICES ASSUME file.kind = "whole", NEW m \in Notices
               PROVE  file.records[m] <= processed'[m] \/ now - file.records[m] > Retention
    BY DEF FileIsBehind, Alive, diskVars
  <2>1. file.records[m] \in Int /\ file.records[m] <= now
    BY Kinds DEF TypeInv, IsFile, AreRecords
  <2> QED
    BY <1>1, <2>1 DEF FileIsBehind, TypeInv, AreRecords
<1> QED
  BY <1>1, <1>2, <1>3, <1>4, <1>5

\* Steps of the poll that record nothing.
LEMMA PollMoves ==
  ASSUME Inv, Alive, UNCHANGED <<now, phase, processed, saver, due, diskVars>>,
         spawned' \in Nat,
         poll' \in [pc : PollSteps, notice : Notices \union {None}, rest : SUBSET Notices],
         attempts' \in [Notices -> Nat], AttemptsAreSettled'
  PROVE  Inv'
<1>1. TypeInv'
  BY DEF Inv, TypeInv, AreRecords, IsFile, diskVars
<1>2. PhaseIsRight' /\ TmpIsCurrent' /\ FileIsBehind' /\ TornFileIsMended'
  BY DEF Inv, PhaseIsRight, Alive, TmpIsCurrent, Saving, FileIsBehind, TornFileIsMended, diskVars
<1> QED
  BY <1>1, <1>2 DEF Inv

LEMMA PollKeeps ==
  ASSUME Inv, PollBegin \/ Poll
  PROVE  Inv'
<1> DEFINE Polls == [pc : PollSteps, notice : Notices \union {None}, rest : SUBSET Notices]
<1>1. poll \in Polls /\ attempts \in [Notices -> Nat] /\ spawned \in Nat
  BY DEF Inv, TypeInv
<1>2. Alive
  BY DEF Inv, PhaseIsRight, PollBegin, MuFree, Alive, Poll, FetchFails, FetchSucceeds, ScanNotice,
     ScanEnds, MarkListing, Trigger, MarkOutcome, ReportFailure, NoPoll
<1>3. CASE PollBegin \/ FetchFails \/ ScanEnds \/ ReportFailure
  <2>1. /\ poll' \in Polls /\ poll'.rest \subseteq poll.rest
        /\ poll'.pc \notin {"mark", "trigger", "confirm", "deny"}
    BY <1>1, <1>3 DEF PollBegin, FetchFails, ScanEnds, ReportFailure, NoPoll, PollSteps
  <2>2. /\ UNCHANGED <<now, phase, processed, attempts, saver, due, diskVars>>
        /\ spawned' \in Nat
    BY <1>1, <1>3 DEF PollBegin, FetchFails, ScanEnds, ReportFailure, RecordError, Spawn
  <2>3. AttemptsAreSettled'
    BY <2>1, <2>2 DEF Inv, AttemptsAreSettled, Settled
  <2> QED
    BY <1>1, <1>2, <2>1, <2>2, <2>3, PollMoves
<1>4. CASE FetchSucceeds
  <2>1. /\ poll' \in Polls /\ \A n \in poll'.rest : AnnouncedAt[n] <= now
        /\ poll'.pc = "scan"
    BY <1>4 DEF FetchSucceeds, PollSteps
  <2>2. UNCHANGED <<now, phase, processed, attempts, spawned, saver, due, diskVars>>
    BY <1>4 DEF FetchSucceeds
  <2>3. AttemptsAreSettled'
    BY <2>1, <2>2 DEF Inv, AttemptsAreSettled, Settled
  <2> QED
    BY <1>1, <1>2, <2>1, <2>2, <2>3, PollMoves
<1>5. CASE ScanNotice
  <2>1. PICK n \in poll.rest :
          poll' = [pc     |-> IF shouldProcess(n) THEN "mark" ELSE "scan",
                   notice |-> IF shouldProcess(n) THEN n ELSE None,
                   rest   |-> poll.rest \ {n}]
    BY <1>5 DEF ScanNotice
  <2>2. UNCHANGED <<now, phase, processed, attempts, spawned, saver, due, diskVars>>
    BY <1>5 DEF ScanNotice
  <2>3. n \in Notices /\ AnnouncedAt[n] <= now
    BY <1>1 DEF Inv, AttemptsAreSettled
  <2>4. shouldProcess(n) => attempts[n] = 0
    BY <2>3, SettledIsNotNew DEF Inv, AttemptsAreSettled
  <2>5. poll' \in Polls
    BY <1>1, <2>1, <2>3 DEF PollSteps
  <2>6. AttemptsAreSettled'
    <3> HIDE DEF Polls
    <3>1. poll'.rest \subseteq poll.rest
      BY <2>1
    <3>2. poll'.pc = "scan" \/ (poll'.pc = "mark" /\ poll'.notice = n /\ shouldProcess(n))
      BY <2>1
    <3>3. /\ \A m \in Notices : Settled(m)' = Settled(m)
          /\ UNCHANGED <<now, attempts>>
      BY <2>2 DEF Settled
    <3> QED
      BY <2>3, <2>4, <3>1, <3>2, <3>3 DEF Inv, AttemptsAreSettled
  <2> QED
    BY <1>1, <1>2, <2>2, <2>5, <2>6, PollMoves
<1>6. CASE Trigger
  <2>1. PICK n \in Notices :
          /\ n = poll.notice /\ poll.pc = "trigger" /\ attempts[n] = 0
          /\ Settled(n) /\ AnnouncedAt[n] <= now
    BY <1>6 DEF Trigger, Inv, AttemptsAreSettled
  <2>2. /\ attempts' = [attempts EXCEPT ![n] = 1]
        /\ UNCHANGED <<now, phase, processed, spawned, saver, due, diskVars>>
    BY <1>6, <1>1, <2>1 DEF Trigger
  <2>3. /\ poll' \in Polls /\ poll'.pc \in {"confirm", "deny"}
        /\ poll'.notice = n /\ poll'.rest = poll.rest
    BY <1>6, <1>1, <2>1 DEF Trigger, PollSteps
  <2>4. AttemptsAreSettled'
    <3>1. \A m \in Notices : Settled(m)' = Settled(m)
      BY <2>2 DEF Settled
    <3> QED
      BY <1>1, <2>1, <2>2, <2>3, <3>1 DEF Inv, AttemptsAreSettled
  <2> QED
    BY <1>1, <1>2, <2>2, <2>3, <2>4, PollMoves
<1>7. CASE MarkListing \/ MarkOutcome
  <2>1. PICK n \in Notices :
          n = poll.notice /\ AnnouncedAt[n] <= now /\ poll.pc \in {"mark", "confirm", "deny"}
    BY <1>7 DEF MarkListing, MarkOutcome, Inv, AttemptsAreSettled
  <2>2. /\ MarkNoticeProcessed(n)
        /\ UNCHANGED <<now, phase, attempts, saver, due, diskVars>>
    BY <1>7, <2>1 DEF MarkListing, MarkOutcome
  <2>3. /\ poll' \in Polls /\ poll'.notice = n /\ poll'.rest = poll.rest
        /\ poll'.pc \in {"report", "scan"} \/ (poll'.pc = "trigger" /\ poll.pc = "mark")
    BY <1>7, <1>1, <2>1 DEF MarkListing, MarkOutcome, PollSteps
  <2>4. /\ AreRecords(processed)' /\ IsFile(tmp)' /\ IsFile(file)'
        /\ spawned' \in Nat
        /\ Settled(n)' /\ \A m \in Notices : Settled(m) => Settled(m)'
        /\ TmpIsCurrent' /\ FileIsBehind' /\ TornFileIsMended'
    BY <1>2, <2>1, <2>2, MarkKeeps
  <2>5. AttemptsAreSettled'
    BY <2>1, <2>2, <2>3, <2>4 DEF Inv, AttemptsAreSettled
  <2>6. TypeInv'
    BY <2>2, <2>3, <2>4 DEF Inv, TypeInv
  <2>7. PhaseIsRight'
    BY <1>2, <2>2 DEF Inv, PhaseIsRight, Alive
  <2> QED
    BY <2>4, <2>5, <2>6, <2>7 DEF Inv
<1> QED
  BY <1>3, <1>4, <1>5, <1>6, <1>7 DEF Poll

-----------------------------------------------------------------------------
(* The saves *)

\* Steps of a save change the saver and the files.
LEMMA SaverMoves ==
  ASSUME Inv, Alive, UNCHANGED <<now, phase, processed, poll, attempts>>, spawned' \in Nat,
         saver' \in [AllSavers -> [pc : SaveSteps, target : {"tmp", "file", "gone"}]],
         saver'[Stopper].pc # "idle" => phase = "saving",
         IsFile(tmp)', IsFile(file)', TmpIsCurrent', FileIsBehind', TornFileIsMended'
  PROVE  Inv'
<1>1. TypeInv'
  BY DEF Inv, TypeInv, AreRecords
<1>2. PhaseIsRight' /\ AttemptsAreSettled'
  BY DEF Inv, PhaseIsRight, Alive, AttemptsAreSettled, Settled
<1> QED
  BY <1>1, <1>2 DEF Inv

\* A save ends, and the others lose the temporary file.
LEMMA EndedSave ==
  ASSUME TypeInv, NEW s \in AllSavers, NEW to \in {"file", "gone"}, EndSave(s, to)
  PROVE  /\ saver' \in [AllSavers -> [pc : SaveSteps, target : {"tmp", "file", "gone"}]]
         /\ saver'[s].pc = "idle"
         /\ \A r \in AllSavers \ {s} :
              /\ saver'[r].pc = saver[r].pc
              /\ saver[r].target = "tmp" => saver'[r].target = to
              /\ saver[r].target = "file" /\ to = "gone" => saver'[r].target = "file"
<1> DEFINE Savings == [pc : SaveSteps, target : {"tmp", "file", "gone"}]
           After(r) == IF r = s THEN NoSave
                      ELSE [saver[r] EXCEPT !.target = CASE @ = "tmp" -> to
                                                         [] @ = "file" /\ to = "file" -> "gone"
                                                         [] OTHER -> @]
<1>1. saver' = [r \in AllSavers |-> After(r)]
  BY DEF EndSave
<1>2. After(s) \in Savings /\ After(s).pc = "idle"
  BY DEF NoSave, SaveSteps
<1>3. ASSUME NEW r \in AllSavers \ {s}
      PROVE  /\ After(r) \in Savings /\ After(r).pc = saver[r].pc
             /\ saver[r].target = "tmp" => After(r).target = to
             /\ saver[r].target = "file" /\ to = "gone" => After(r).target = "file"
  <2>1. saver[r] \in Savings
    BY DEF TypeInv
  <2> QED
    BY <2>1
<1> HIDE DEF After
<1> QED
  BY <1>1, <1>2, <1>3

LEMMA SaveKeeps ==
  ASSUME Inv, NEW s \in AllSavers, SaveState(s)
  PROVE  Inv'
<1> DEFINE Savings == [pc : SaveSteps, target : {"tmp", "file", "gone"}]
<1>1. saver \in [AllSavers -> Savings] /\ spawned \in Nat /\ IsFile(tmp) /\ IsFile(file)
  BY DEF Inv, TypeInv
<1>2. saver[s].pc # "idle" /\ UNCHANGED <<now, phase, pollVars, spawned>>
  BY DEF SaveState, Create, CreateFails, Write, WriteFails, Rename, RenameFails, Remove
<1>3. Alive /\ (saver[Stopper].pc # "idle" => phase = "saving")
  BY <1>2 DEF Inv, PhaseIsRight
<1>4. IsFile(Whole(processed))' /\ IsFile(Torn)' /\ IsFile(Absent)'
      /\ (UNCHANGED tmp => IsFile(tmp)') /\ (UNCHANGED file => IsFile(file)')
  BY <1>1, <1>2, Kinds DEF Inv, TypeInv, IsFile, AreRecords, pollVars
<1>5. ASSUME UNCHANGED file
      PROVE  FileIsBehind'
  BY <1>2, <1>5 DEF Inv, FileIsBehind, Alive, pollVars
<1>6. CASE Create(s)
  <2>1. /\ tmp' = Torn /\ UNCHANGED <<file, leftTorn>>
        /\ saver' = [saver EXCEPT ![s] = [pc |-> "write", target |-> "tmp"]]
        /\ saver[s].pc = "create"
    BY <1>6 DEF Create
  <2>2. saver' \in [AllSavers -> Savings]
    BY <1>1, <2>1 DEF SaveSteps
  <2>3. TmpIsCurrent' /\ TornFileIsMended'
    BY <1>1, <1>2, <2>1, Kinds DEF Inv, TmpIsCurrent, Saving, TornFileIsMended, Alive
  <2>4. saver'[Stopper].pc # "idle" => phase = "saving"
    BY <1>1, <1>2, <1>3, <2>1
  <2> QED
    BY <1>2, <1>3, <1>4, <1>5, <2>1, <2>2, <2>3, <2>4, SaverMoves DEF pollVars, Inv, TypeInv
<1>7. CASE CreateFails(s)
  <2>1. /\ UNCHANGED diskVars /\ saver[s].pc = "create"
        /\ saver' = [saver EXCEPT ![s] = NoSave]
    BY <1>7 DEF CreateFails
  <2>2. saver' \in [AllSavers -> Savings]
    BY <1>1, <2>1 DEF SaveSteps, NoSave
  <2>3. TmpIsCurrent' /\ TornFileIsMended'
    BY <1>1, <1>2, <2>1
    DEF Inv, TmpIsCurrent, Saving, TornFileIsMended, Alive, NoSave, diskVars, pollVars
  <2>4. saver'[Stopper].pc # "idle" => phase = "saving"
    BY <1>1, <1>2, <1>3, <2>1
  <2> QED
    BY <1>2, <1>3, <1>4, <1>5, <2>1, <2>2, <2>3, <2>4, SaverMoves DEF pollVars, diskVars, Inv, TypeInv
<1>8. CASE Write(s)
  <2>1. /\ WriteTo(saver[s].target, Whole(processed)) /\ UNCHANGED leftTorn
        /\ saver' = [saver EXCEPT ![s].pc = "rename"] /\ saver[s].pc = "write"
    BY <1>8 DEF Write
  <2>2. saver' \in [AllSavers -> Savings]
    BY <1>1, <2>1 DEF SaveSteps
  <2>3. TmpIsCurrent' /\ TornFileIsMended'
    <3>1. \A r \in AllSavers \ {s} : saver'[r] = saver[r]
      BY <1>1, <2>1
    <3>2. saver'[s].pc = "rename" /\ s \in Saving
      BY <1>1, <2>1 DEF Saving
    <3>3. Saving' = Saving
      BY <3>1, <3>2 DEF Saving
    <3>4. Whole(processed) # Torn
      BY Kinds
    <3>5. TmpIsCurrent'
      BY <1>2, <2>1, <3>1, <3>2, <3>3, <3>4 DEF Inv, TmpIsCurrent, WriteTo, pollVars
    <3>6. TornFileIsMended'
      BY <1>2, <2>1, <3>1, <3>2, <3>4 DEF Inv, TornFileIsMended, Alive, WriteTo
    <3> QED
      BY <3>5, <3>6
  <2>4. saver'[Stopper].pc # "idle" => phase = "saving"
    BY <1>1, <1>2, <1>3, <2>1
  <2>5. FileIsBehind' /\ IsFile(tmp)' /\ IsFile(file)'
    <3>1. CASE saver[s].target = "file"
      <4>1. file' = Whole(processed) /\ UNCHANGED <<tmp, processed>>
        BY <1>2, <2>1, <3>1 DEF WriteTo, pollVars
      <4>2. \A n \in Notices : processed[n] <= processed[n]
        <5> TAKE n \in Notices
        <5>1. processed[n] \in Int
          BY DEF Inv, TypeInv, AreRecords
        <5> QED
          BY <5>1
      <4>3. file'.records = processed'
        BY <4>1, Kinds
      <4> QED
        BY <1>4, <4>1, <4>2, <4>3 DEF FileIsBehind, IsFile, AreRecords
    <3>2. CASE saver[s].target # "file"
      <4>1. UNCHANGED <<file, processed>> /\ tmp' \in {tmp, Whole(processed)}
        BY <1>2, <2>1, <3>2 DEF WriteTo, pollVars
      <4> QED
        BY <1>4, <1>5, <4>1 DEF IsFile, AreRecords
    <3> QED
      BY <3>1, <3>2
  <2> QED
    BY <1>2, <1>3, <2>1, <2>2, <2>3, <2>4, <2>5, SaverMoves DEF pollVars, Inv, TypeInv
<1>9. CASE WriteFails(s)
  <2>1. /\ WriteTo(saver[s].target, Torn) /\ leftTorn'
        /\ saver' = [saver EXCEPT ![s].pc = "remove"] /\ saver[s].pc = "write"
    BY <1>9 DEF WriteFails
  <2>2. saver' \in [AllSavers -> Savings]
    BY <1>1, <2>1 DEF SaveSteps
  <2>3. saver'[Stopper].pc # "idle" => phase = "saving"
    BY <1>1, <1>2, <1>3, <2>1
  <2>4. s \in Saving /\ tmp' \in {tmp, Torn} /\ file' \in {file, Torn}
    BY <2>1 DEF Saving, WriteTo
  <2>5. TmpIsCurrent' /\ TornFileIsMended'
    BY <1>2, <2>1, <2>4 DEF Inv, TmpIsCurrent, TornFileIsMended, pollVars
  <2>6. FileIsBehind' /\ IsFile(tmp)' /\ IsFile(file)'
    BY <1>4, <1>5, <2>4, Kinds DEF FileIsBehind, IsFile
  <2> QED
    BY <1>2, <1>3, <2>2, <2>3, <2>5, <2>6, SaverMoves DEF pollVars, Inv, TypeInv
<1>10. CASE Rename(s)
  <2>1. /\ saver[s].pc = "rename" /\ EndSave(s, "file") /\ UNCHANGED leftTorn
        /\ file' = tmp /\ tmp' = Absent /\ tmp # Absent
    BY <1>10 DEF Rename
  <2>2. /\ saver' \in [AllSavers -> Savings] /\ saver'[s].pc = "idle"
        /\ \A r \in AllSavers \ {s} : /\ saver'[r].pc = saver[r].pc
                                      /\ saver[r].target = "tmp" => saver'[r].target = "file"
    BY <2>1, EndedSave DEF Inv
  <2>3. s \in Saving
    BY <2>1 DEF Saving
  <2>4. tmp \in {Torn, Whole(processed)}
    BY <2>1, <2>3 DEF Inv, TmpIsCurrent
  <2>5. TmpIsCurrent'
    BY <2>1, Kinds DEF TmpIsCurrent
  <2>6. TornFileIsMended'
    BY <2>1, <2>2, <2>3 DEF Inv, TmpIsCurrent, TornFileIsMended
  <2>7. FileIsBehind'
    BY <1>2, <2>1, <2>4, Kinds DEF FileIsBehind, Inv, TypeInv, AreRecords, pollVars
  <2>8. saver'[Stopper].pc # "idle" => phase = "saving"
    BY <1>3, <2>2 DEF AllSavers
  <2> QED
    BY <1>2, <1>3, <1>4, <2>1, <2>2, <2>4, <2>5, <2>6, <2>7, <2>8, SaverMoves
    DEF pollVars, Inv, TypeInv, IsFile, AreRecords
<1>11. CASE RenameFails(s)
  <2>1. /\ UNCHANGED diskVars /\ saver[s].pc = "rename" /\ tmp = Absent
        /\ saver' = [saver EXCEPT ![s].pc = "remove"]
    BY <1>11 DEF RenameFails
  <2>2. saver' \in [AllSavers -> Savings]
    BY <1>1, <2>1 DEF SaveSteps
  <2>3. TmpIsCurrent'
    BY <2>1, Kinds DEF TmpIsCurrent, diskVars
  <2>4. TornFileIsMended'
    BY <1>1, <1>2, <2>1 DEF Inv, TornFileIsMended, Alive, diskVars
  <2>5. saver'[Stopper].pc # "idle" => phase = "saving"
    BY <1>1, <1>2, <1>3, <2>1
  <2> QED
    BY <1>2, <1>3, <1>4, <1>5, <2>1, <2>2, <2>3, <2>4, <2>5, SaverMoves
    DEF pollVars, diskVars, Inv, TypeInv
<1>12. CASE Remove(s)
  <2>1. /\ saver[s].pc = "remove" /\ EndSave(s, "gone") /\ UNCHANGED <<leftTorn, file>>
        /\ tmp' = Absent
    BY <1>12 DEF Remove
  <2>2. /\ saver' \in [AllSavers -> Savings] /\ saver'[s].pc = "idle"
        /\ \A r \in AllSavers \ {s} : /\ saver'[r].pc = saver[r].pc
                                      /\ saver[r].target = "file" => saver'[r].target = "file"
    BY <2>1, EndedSave DEF Inv
  <2>3. TmpIsCurrent'
    BY <2>1, Kinds DEF TmpIsCurrent
  <2>4. TornFileIsMended'
    BY <1>2, <2>1, <2>2 DEF Inv, TornFileIsMended, Alive
  <2>5. saver'[Stopper].pc # "idle" => phase = "saving"
    BY <1>3, <2>2 DEF AllSavers
  <2> QED
    BY <1>2, <1>3, <1>4, <1>5, <2>1, <2>2, <2>3, <2>4, <2>5, SaverMoves
    DEF pollVars, Inv, TypeInv, IsFile, AreRecords
<1> QED
  BY <1>6, <1>7, <1>8, <1>9, <1>10, <1>11, <1>12 DEF SaveState

LEMMA SaveBegins ==
  ASSUME Inv, NEW s \in Savers, SaveBegin(s)
  PROVE  Inv'
<1>1. /\ UNCHANGED <<now, phase, pollVars, diskVars>> /\ spawned' \in Nat /\ spawned > 0
      /\ saver' = [saver EXCEPT ![s].pc = "create"] /\ saver[s].pc = "idle"
      /\ saver \in [AllSavers -> [pc : SaveSteps, target : {"tmp", "file", "gone"}]]
      /\ s \in AllSavers /\ s # Stopper
  BY SaverAssumption DEF Inv, TypeInv, SaveBegin, AllSavers
<1>2. Alive /\ (saver[Stopper].pc # "idle" => phase = "saving")
  BY <1>1 DEF Inv, PhaseIsRight
<1>3. saver' \in [AllSavers -> [pc : SaveSteps, target : {"tmp", "file", "gone"}]]
  BY <1>1 DEF SaveSteps
<1>4. IsFile(tmp)' /\ IsFile(file)' /\ FileIsBehind'
  BY <1>1 DEF Inv, TypeInv, IsFile, AreRecords, FileIsBehind, Alive, diskVars, pollVars
<1>5. TmpIsCurrent' /\ TornFileIsMended'
  BY <1>1 DEF Inv, TmpIsCurrent, Saving, TornFileIsMended, Alive, diskVars, pollVars
<1> QED
  BY <1>1, <1>2, <1>3, <1>4, <1>5, SaverMoves DEF pollVars

-----------------------------------------------------------------------------
(* Stop, the end of the process and the next start *)

LEMMA StopKeeps ==
  ASSUME Inv, StopBegin \/ CleanupOldRecords \/ ForceSave \/ StopEnd
  PROVE  Inv'
<1>1. CASE StopBegin \/ StopEnd
  <2>1. /\ UNCHANGED <<now, pollVars, spawned, saver, diskVars>>
        /\ Alive /\ Alive' /\ saver[Stopper].pc = "idle"
    BY <1>1 DEF StopBegin, StopEnd, Alive, Inv, PhaseIsRight
  <2>2. TypeInv' /\ AttemptsAreSettled'
    BY <2>1 DEF Inv, TypeInv, AreRecords, IsFile, AttemptsAreSettled, Settled, pollVars, diskVars
  <2>3. PhaseIsRight' /\ TmpIsCurrent' /\ FileIsBehind' /\ TornFileIsMended'
    BY <2>1 DEF Inv, PhaseIsRight, TmpIsCurrent, Saving, FileIsBehind, TornFileIsMended,
       pollVars, diskVars
  <2> QED
    BY <2>2, <2>3 DEF Inv
<1>2. CASE CleanupOldRecords
  <2> DEFINE old == {n \in Notices : processed[n] # Never /\ now - processed[n] > Retention}
  <2>1. /\ UNCHANGED <<now, poll, attempts, saver, diskVars>>
        /\ Alive /\ Alive' /\ Unlocked /\ phase = "stopping"
        /\ processed' = [n \in Notices |-> IF n \in old THEN Never ELSE processed[n]]
        /\ spawned' \in Nat
    BY <1>2 DEF CleanupOldRecords, Alive, Spawn, Inv, TypeInv
  <2>2. saver[Stopper].pc = "idle"
    BY <2>1 DEF Inv, PhaseIsRight
  <2>3. AreRecords(processed)'
    BY <2>1 DEF Inv, TypeInv, AreRecords, Never
  <2>4. \A n \in Notices : Settled(n) => Settled(n)'
    BY <2>1, WindowAssumption, NoticeAssumption DEF Settled, Inv, TypeInv, AreRecords
  <2>5. TypeInv'
    BY <2>1, <2>3 DEF Inv, TypeInv, IsFile, AreRecords, diskVars
  <2>6. AttemptsAreSettled'
    BY <2>1, <2>4 DEF Inv, AttemptsAreSettled
  <2>7. PhaseIsRight' /\ TmpIsCurrent' /\ TornFileIsMended'
    BY <2>1, <2>2 DEF Inv, PhaseIsRight, TmpIsCurrent, Saving, Unlocked, TornFileIsMended, diskVars
  <2>8. FileIsBehind'
    <3> SUFFICES ASSUME file.kind = "whole", NEW n \in Notices
                 PROVE  file.records[n] <= processed'[n] \/ now - file.records[n] > Retention
      BY <2>1 DEF FileIsBehind, diskVars
    <3>1. file.records[n] \in Int
      BY Kinds DEF Inv, TypeInv, IsFile, AreRecords
    <3> QED
      BY <2>1, <3>1, WindowAssumption DEF Inv, FileIsBehind, TypeInv, AreRecords
  <2> QED
    BY <2>5, <2>6, <2>7, <2>8 DEF Inv
<1>3. CASE ForceSave
  <2>1. /\ UNCHANGED <<now, pollVars, spawned, diskVars>>
        /\ Alive /\ phase = "cleaned" /\ phase' = "saving"
        /\ saver' = [saver EXCEPT ![Stopper].pc = "create"]
    BY <1>3 DEF ForceSave, Alive
  <2>2. saver[Stopper].pc = "idle" /\ Stopper \in AllSavers
    BY <2>1 DEF Inv, PhaseIsRight, AllSavers
  <2>3. TypeInv' /\ AttemptsAreSettled'
    BY <2>1 DEF Inv, TypeInv, AreRecords, IsFile, AttemptsAreSettled, Settled, SaveSteps,
       pollVars, diskVars
  <2>4. saver \in [AllSavers -> [pc : SaveSteps, target : {"tmp", "file", "gone"}]]
    BY DEF Inv, TypeInv
  <2>5. PhaseIsRight' /\ TmpIsCurrent' /\ FileIsBehind' /\ TornFileIsMended'
    BY <2>1, <2>2, <2>4 DEF Inv, PhaseIsRight, Alive, TmpIsCurrent, Saving, FileIsBehind,
       TornFileIsMended, pollVars, diskVars
  <2> QED
    BY <2>3, <2>5 DEF Inv
<1> QED
  BY <1>1, <1>2, <1>3 DEF StopEnd

LEMMA CrashKeeps ==
  ASSUME Inv, Die \/ Restart
  PROVE  Inv'
<1>1. CASE Die
  <2>1. /\ UNCHANGED <<now, diskVars>> /\ ~Alive' /\ spawned' = 0 /\ poll' = NoPoll
        /\ processed' = Nothing /\ attempts' = [n \in Notices |-> 0]
        /\ saver' = [s \in AllSavers |-> NoSave]
    BY <1>1 DEF Die, Alive
  <2>2. TypeInv'
    BY <2>1 DEF Inv, TypeInv, AreRecords, IsFile, Nothing, Never, NoPoll, NoSave, PollSteps,
       SaveSteps, diskVars
  <2>3. AttemptsAreSettled'
    BY <2>1 DEF AttemptsAreSettled, NoPoll
  <2>4. PhaseIsRight' /\ TmpIsCurrent' /\ FileIsBehind' /\ TornFileIsMended'
    BY <2>1 DEF PhaseIsRight, TmpIsCurrent, Saving, FileIsBehind, TornFileIsMended, NoSave, AllSavers
  <2> QED
    BY <2>2, <2>3, <2>4 DEF Inv
<1>2. CASE Restart
  <2>1. /\ UNCHANGED <<now, poll, attempts, spawned, saver, tmp, file>>
        /\ ~Alive /\ phase' = "up" /\ processed' = Loaded(file) /\ leftTorn' = (file = Torn)
    BY <1>2 DEF Restart, Alive
  <2>2. /\ poll = NoPoll /\ \A s \in AllSavers : saver[s].pc = "idle"
        /\ \A n \in Notices : attempts[n] = 0
    BY <2>1 DEF Inv, PhaseIsRight
  <2>3. /\ AreRecords(processed)'
        /\ file.kind = "whole" => processed' = file.records
    BY <2>1, Kinds DEF Inv, TypeInv, IsFile, AreRecords, Loaded, Nothing, Never
  <2>4. TypeInv'
    BY <2>1, <2>3 DEF Inv, TypeInv, IsFile, AreRecords
  <2>5. AttemptsAreSettled'
    BY <2>1, <2>2 DEF AttemptsAreSettled, NoPoll
  <2>6. PhaseIsRight' /\ TmpIsCurrent' /\ TornFileIsMended'
    BY <2>1, <2>2 DEF PhaseIsRight, Alive, TmpIsCurrent, Saving, TornFileIsMended, AllSavers
  <2>7. FileIsBehind'
    BY <2>1, <2>3, <2>4 DEF FileIsBehind, TypeInv, AreRecords
  <2> QED
    BY <2>4, <2>5, <2>6, <2>7 DEF Inv
<1> QED
  BY <1>1, <1>2

LEMMA InvNext == Inv /\ [Next]_vars => Inv'
<1> SUFFICES ASSUME Inv, [Next]_vars PROVE Inv'
  OBVIOUS
<1>1. CASE UNCHANGED vars
  BY <1>1 DEF Inv, TypeInv, AreRecords, IsFile, PhaseIsRight, Alive, AttemptsAreSettled, Settled,
     TmpIsCurrent, Saving, FileIsBehind, TornFileIsMended, vars, pollVars, diskVars
<1> QED
  BY <1>1, ClockKeeps, PollKeeps, SaveKeeps, SaveBegins, StopKeeps, CrashKeeps DEF Next

\* The invariant of the monitor: what it remembers, the save under way and the
\* state file agree, whatever crash comes in between.
THEOREM InvTheorem == Spec => []Inv
  BY InvInit, InvNext, PTL DEF Spec

-----------------------------------------------------------------------------
(* The theorems *)

\* For any window and any longer retention a run of the process triggers the
\* collection of a notice once at most.
THEOREM TriggeredTheorem == Spec => []TriggeredOncePerRun
<1>1. Inv => TriggeredOncePerRun
  <2> SUFFICES ASSUME Inv, NEW n \in Notices PROVE attempts[n] <= 1
    BY DEF TriggeredOncePerRun
  <2>1. attempts[n] = 0 \/ attempts[n] = 1
    BY DEF Inv, AttemptsAreSettled
  <2> QED
    BY <2>1
<1> QED
  BY <1>1, InvTheorem, PTL

\* However many savers truncate, write and rename the one temporary file, a torn
\* state file has a save that will mend it.
THEOREM MendedTheorem == Spec => []TornFileIsMended
<1>1. Inv => TornFileIsMended
  BY DEF Inv
<1> QED
  BY <1>1, InvTheorem, PTL

\* And no save replaces a record by an older one or by none.
THEOREM FileTheorem == Spec => FileNeverForgets
<1> DEFINE Step == \A n \in Notices :
             /\ file.kind = "whole" /\ file'.kind = "whole"
             /\ now - file.records[n] <= Retention
             => file'.records[n] >= file.records[n]
<1>1. Inv /\ Inv' /\ [Next]_vars => [Step]_vars
  <2> SUFFICES ASSUME Inv, Next, NEW n \in Notices,
                      file.kind = "whole", file'.kind = "whole",
                      now - file.records[n] <= Retention
               PROVE  file'.records[n] >= file.records[n]
    OBVIOUS
  <2>1. file.records[n] \in Int /\ processed[n] \in Int
    BY Kinds DEF Inv, TypeInv, IsFile, AreRecords
  <2>2. CASE UNCHANGED file
    BY <2>1, <2>2
  <2>3. ASSUME file' # file
        PROVE  Alive /\ file' = Whole(processed)
    <3>1. PICK s \in AllSavers : Write(s) \/ WriteFails(s) \/ Rename(s)
      BY <2>3 DEF Next, Tick, IntervalPasses, PollBegin, Poll, FetchFails, FetchSucceeds,
         ScanNotice, ScanEnds, MarkListing, Trigger, MarkOutcome, ReportFailure, SaveBegin,
         SaveState, Create, CreateFails, RenameFails, Remove, StopBegin, CleanupOldRecords,
         ForceSave, StopEnd, Die, Restart, diskVars
    <3>2. s \in Saving /\ Alive
      BY <3>1 DEF Inv, PhaseIsRight, Saving, Write, WriteFails, Rename
    <3>3. file' = Whole(processed)
      BY <2>3, <3>1, <3>2, Kinds DEF Inv, TmpIsCurrent, Write, WriteFails, Rename, WriteTo
    <3> QED
      BY <3>2, <3>3
  <2>4. CASE file' # file
    BY <2>1, <2>3, <2>4, Kinds, WindowAssumption DEF Inv, FileIsBehind, TypeInv
  <2> QED
    BY <2>2, <2>4
<1>2. Spec => [][Step]_vars
  BY <1>1, InvTheorem, PTL DEF Spec
<1> QED
  BY <1>2 DEF FileNeverForgets
=============================================================================
