-------------------------- MODULE SymbolCoordinator -------------------------
(***************************************************************************)
(* internal/sync/symbol_coordinator.go with the YAMLConfigManager of       *)
(* internal/config: a process that synchronises the symbols once a day and *)
(* keeps them in the symbols.yaml that the script's processes write and    *)
(* load. Nothing in it is locked: the synchronisation works on the very    *)
(* object the autosave writes.                                             *)
(*                                                                         *)
(* There is one synchronisation at a time; its loop over the exchanges is  *)
(* one step: only the symbols that a save in its midst would store, not    *)
(* the lists, depend on it.                                                *)
(***************************************************************************)
EXTENDS SymbolsManager

CONSTANTS
  MaxSyncs,   \* bound: the synchronisations that Upbit answers
  MaxCrashes  \* bound

Own == {"sync", "auto"}

ASSUME CoordinatorAssumption ==
  Own \subseteq Savers /\ "update" \notin Own /\ MaxSyncs \in Nat /\ MaxCrashes \in Nat

VARIABLES
  mem,      \* ycm.config, which the service works on
  pc,       \* of Initialize and SyncNow; "off" before
  loop,     \* autoSyncLoop: "off", "starting", "spawned", "on", "stopped"
  auto,     \* the autosave's ticker runs
  newer,    \* the file's time is after lastModified
  syncs, crashes

bounds == <<syncs, crashes>>
vars == <<scriptVars, fileVars, mem, pc, loop, auto, newer, bounds>>

Init ==
  /\ ManagerInit
  /\ mem = Empty
  /\ pc = "off" /\ loop = "off" /\ auto = FALSE /\ newer = FALSE
  /\ syncs = 0 /\ crashes = 0

Initialised == pc \notin {"off", "default", "again", "replace"}

-----------------------------------------------------------------------------
(* Start and end of the process *)

\* Initialize: LoadConfig creates a file that is not there, and one that cannot
\* be used is replaced, by the defaults, which have no symbols.
Initialize ==
  /\ pc = "off"
  /\ newer' = FALSE
  /\ IF Whole(file)
     THEN mem' = file /\ pc' = "idle" /\ auto' = TRUE /\ UNCHANGED fileVars
     ELSE /\ mem' = Empty /\ UNCHANGED auto
          /\ pc' = IF file = None THEN "default" ELSE "replace"
          /\ SaveBegins("sync", Empty)
  /\ UNCHANGED <<scriptVars, loop, bounds>>

Forgets ==
  /\ mem' = Empty /\ pc' = "off" /\ loop' = "off" /\ auto' = FALSE /\ newer' = FALSE

\* The process is ended at any point, by the runtime too: a save ranges over
\* the maps a synchronisation writes.
Crash ==
  /\ pc # "off" /\ crashes < MaxCrashes
  /\ crashes' = crashes + 1
  /\ Forgets /\ SaversEnd(Own)
  /\ UNCHANGED <<scriptVars, syncs>>

\* The loop's goroutine looks at updateTimer, which Stop has set to nil.
LoopPanics ==
  /\ loop = "stopped"
  /\ Forgets /\ SaversEnd(Own)
  /\ UNCHANGED <<scriptVars, bounds>>

-----------------------------------------------------------------------------
(* Start, the loop, Stop *)

\* Start synchronises first, in the caller's goroutine.
Start ==
  /\ loop = "off" /\ pc = "idle"
  /\ loop' = "starting" /\ pc' = "reload"
  /\ UNCHANGED <<scriptVars, fileVars, mem, auto, newer, bounds>>

LoopBegins ==
  /\ loop = "spawned"
  /\ loop' = "on"
  /\ UNCHANGED <<scriptVars, fileVars, mem, pc, auto, newer, bounds>>

\* Every 24 hours.
Tick ==
  /\ loop = "on" /\ pc = "idle"
  /\ pc' = "reload"
  /\ UNCHANGED <<scriptVars, fileVars, mem, loop, auto, newer, bounds>>

\* Stop stops the autosave as well, which no Start starts again. What is being
\* synchronised or saved goes on.
Stop ==
  /\ loop \in {"spawned", "on"}
  /\ loop' = IF loop = "spawned" THEN "stopped" ELSE "off"
  /\ auto' = FALSE
  /\ UNCHANGED <<scriptVars, fileVars, mem, pc, newer, bounds>>

-----------------------------------------------------------------------------
(* SyncNow *)

SyncEnds ==
  /\ pc' = "idle"
  /\ loop' = IF loop = "starting" THEN "spawned" ELSE loop

\* ReloadIfChanged, and a new service on what is then ycm.config. A file that
\* cannot be used is not looked at again.
Reload ==
  /\ pc = "reload"
  /\ mem' = IF newer /\ Whole(file) THEN file ELSE mem
  /\ newer' = FALSE
  /\ pc' = "exchanges"
  /\ UNCHANGED <<scriptVars, fileVars, loop, auto, bounds>>

\* Mutant: what Upbit answers is not stored.
UpdateUpbitKRWSymbols_Skips(config) == config

UpdateUpbitKRWSymbols(config) == [config EXCEPT !.upbit = listed]

\* SyncAllSymbols up to the lists. Without Upbit's list the synchronisation
\* ends before it has changed anything.
SyncExchanges ==
  /\ pc = "exchanges"
  /\ \/ SyncEnds /\ UNCHANGED <<mem, syncs>>
     \/ /\ syncs < MaxSyncs
        /\ syncs' = syncs + 1
        /\ pc' = "lists" /\ UNCHANGED loop
        /\ \E failed \in Failures :
             mem' = [UpdateUpbitKRWSymbols(mem) EXCEPT
                       !.symbols = [m \in Markets |-> syncedSymbols(m, failed)]]
  /\ UNCHANGED <<scriptVars, fileVars, auto, newer, crashes>>

\* The rest of it, and UpdateConfig.
SyncLists ==
  /\ pc = "lists"
  /\ pc' = "saving"
  /\ mem' = GenerateSubscriptionLists(mem)
  /\ SaveBegins("sync", mem')
  /\ UNCHANGED <<scriptVars, loop, auto, newer, bounds>>

-----------------------------------------------------------------------------
(* SaveConfig of the YAMLConfigManager *)

\* The ticker of the autosave, every five minutes.
AutoSave ==
  /\ auto
  /\ SaveBegins("auto", mem)
  /\ UNCHANGED <<scriptVars, mem, pc, loop, auto, newer, bounds>>

\* What waits for the save goes on: SyncNow, or Initialize, which after
\* LoadConfig tries once more and then gives up.
SaveReturns(w, ok) ==
  /\ UNCHANGED mem
  /\ IF w = "auto" THEN UNCHANGED <<pc, loop, auto>>
     ELSE IF Initialised THEN SyncEnds /\ UNCHANGED auto
     ELSE /\ pc' = IF ok THEN "idle" ELSE IF pc = "default" THEN "again" ELSE "off"
          /\ auto' = ok
          /\ UNCHANGED loop

Replace ==
  /\ pc = "again"
  /\ pc' = "replace"
  /\ SaveBegins("sync", mem)
  /\ UNCHANGED <<scriptVars, mem, loop, auto, newer, bounds>>

\* At the end lastModified becomes the time of the file, whoever wrote it.
SaveStep(w) ==
  /\ \/ /\ SaveWrites(w)
        /\ newer' = (newer \/ fd[w] = "file")
        /\ UNCHANGED <<mem, pc, loop, auto>>
     \/ SaveRenames(w) /\ newer' = FALSE /\ SaveReturns(w, TRUE)
     \/ SaveFails(w) /\ UNCHANGED <<mem, pc, loop, auto, newer>>
     \/ SaveRemoves(w) /\ SaveReturns(w, FALSE) /\ UNCHANGED newer
  /\ UNCHANGED <<scriptVars, bounds>>

-----------------------------------------------------------------------------

\* What the script's processes do.
Script ==
  /\ \/ \E n \in Names : List(n) /\ UNCHANGED newer
     \/ \E o \in unopened : Opens(o) /\ UNCHANGED newer
     \/ (UpdateFromExchanges \/ UpdateFails \/ LoadConfig \/ HardReset) /\ UNCHANGED newer
     \/ UpdateSaves /\ newer' = (newer \/ (file' # file /\ pc # "off"))
  /\ UNCHANGED <<mem, pc, loop, auto, bounds>>

Next ==
  \/ Script
  \/ Initialize \/ Replace \/ Crash \/ LoopPanics
  \/ Start \/ LoopBegins \/ Tick \/ Stop
  \/ Reload \/ SyncExchanges \/ SyncLists
  \/ AutoSave
  \/ \E w \in Own : SaveStep(w)

\* The tickers tick, and a save that has begun goes on.
Fairness ==
  /\ WF_vars(AutoSave)
  /\ \A w \in Own : WF_vars(SaveStep(w))

Spec == Init /\ [][Next]_vars /\ Fairness

-----------------------------------------------------------------------------
(* Properties *)

\* A coin that Upbit listed before either program ran is in no list, wherever a
\* configuration is kept: in memory, in the file or in the one not yet renamed.
\* This is so of the symbols in which extractBaseSymbol finds the coin: the
\* contracts of KuCoin, what the service takes from Phemex and the dated contracts
\* of Binance and Bybit are watched all the same.
OldListingsAreNotWatched ==
  \A config \in {c \in {file, tmp, watched, mem} : Whole(c)} :
    \A m \in Markets : \A s \in config.lists[m] :
      s.name \in Listed0 => s.form \in {"contract", "prefixed", "dated"}

\* The autosave mends a file that the savers have torn between them.
TornIsMended == file = Torn /\ auto ~> file # Torn \/ ~auto
=============================================================================
