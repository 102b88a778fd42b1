----------------------- MODULE SymbolCoordinator_proofs ----------------------
(***************************************************************************)
(* For any coins, offers, sets of failing markets and numbers of updates,  *)
(* synchronisations and crashes: what is watched and what is not.          *)
(*                                                                         *)
(* Every configuration that is kept anywhere - in the file, in the one not *)
(* yet renamed, in what a saver has marshalled, in main.go, in the memory  *)
(* of the coordinator - is sound. The memory needs more while its lists    *)
(* are to be made: the symbols must then be in the forms the service       *)
(* parses, and what Upbit listed at first among what it is told is listed. *)
(***************************************************************************)
EXTENDS SymbolCoordinator, TLAPS

IsConfig(c) ==
  c = [upbit |-> c.upbit, symbols |-> c.symbols, lists |-> c.lists, answered |-> c.answered]

\* No list has a coin listed before either program ran, but in the forms in which
\* the programs do not find it.
Clean(c) ==
  \A m \in Markets : \A s \in c.lists[m] :
    s.name \in Listed0 => s.form \in {"contract", "prefixed", "dated"}

\* The lists have all candidates that were named when they were made.
Complete(c, l) == \A m \in Markets : c.answered[m] \ l \subseteq Watches(c, m)

Sound(c, l) == IsConfig(c) /\ Clean(c) /\ Complete(c, l)

\* What a file, a saver or main.go holds, when it is a configuration.
SoundIfWhole(c, l) == Whole(c) => Sound(c, l)

FilesAreSound ==
  /\ data \in [Savers -> {data[w] : w \in Savers}]
  /\ SoundIfWhole(file, listed) /\ SoundIfWhole(tmp, listed)
  /\ \A w \in Savers : SoundIfWhole(data[w], listed)

KeptAreSound ==
  FilesAreSound /\ SoundIfWhole(watched, listed) /\ Sound(mem, listed)

\* Between SyncExchanges and SyncLists.
ReadyForLists ==
  pc = "lists" =>
    /\ Listed0 \subseteq mem.upbit
    /\ \A m \in Markets : \A s \in mem.symbols[m] : s.form \in {"plain", "prefixed"}

Inv ==
  /\ Listed0 \subseteq listed
  /\ phase = "run" => Whole(watched)
  /\ KeptAreSound
  /\ ReadyForLists

-----------------------------------------------------------------------------
(* The computations *)

\* The Manager takes all that a market answers in one form, but for the dated.
LEMMA Fetched ==
  ASSUME NEW m \in Markets, m.exchange # "phemex"
  PROVE  \E form : FetchedSymbols(m) = Symbols(Answer(m, "USDT"), form)
<1>1. m = Market(m.exchange, m.type) /\ m.exchange \in Exchanges
  BY DEF Markets, Market
<1>2. CASE m.exchange = "binance"
  BY <1>1, <1>2 DEF FetchedSymbols, fetchBinanceSymbols
<1>3. CASE m.exchange = "bybit"
  BY <1>1, <1>3 DEF FetchedSymbols, fetchBybitSymbols
<1>4. CASE m.exchange = "okx"
  BY <1>1, <1>4 DEF FetchedSymbols, fetchOKXSymbols
<1>5. CASE m.exchange = "kucoin"
  BY <1>1, <1>5 DEF FetchedSymbols, fetchKuCoinSymbols
<1>6. CASE m.exchange = "gate"
  BY <1>1, <1>6 DEF FetchedSymbols, fetchGateSymbols
<1> QED
  BY <1>1, <1>2, <1>3, <1>4, <1>5, <1>6 DEF Exchanges

\* What --init-symbols saves is sound.
LEMMA UpdatedIsSound ==
  ASSUME NEW failed, Listed0 \subseteq listed
  PROVE  Sound(Updated(failed), listed)
<1> DEFINE c == Updated(failed)
           symbols == [m \in Markets |-> updateSymbols(m, failed)]
<1>1. /\ c.lists = [m \in Markets |-> {s \in symbols[m] : ~(NamesCoin(s) /\ s.name \in listed)}]
      /\ c.answered = Answered(failed)
      /\ IsConfig(c)
  BY DEF Updated, generateSubscriptionLists, IsConfig
<1>2. Clean(c)
  BY <1>1 DEF Clean, NamesCoin
<1>3. ASSUME NEW m \in Markets, NEW n \in Answered(failed)[m], n \notin listed
      PROVE  n \in Watches(c, m)
  <2>1. /\ m.exchange # "phemex" /\ m \notin failed
        /\ Answered(failed)[m] = {o.name : o \in Answer(m, "USDT")}
    BY <1>3 DEF Answered
  <2>2. PICK form : FetchedSymbols(m) = Symbols(Answer(m, "USDT"), form)
    BY <2>1, Fetched
  <2>3. symbols[m] = Symbols(Answer(m, "USDT"), form)
    BY <2>1, <2>2 DEF updateSymbols
  <2>4. PICK o \in Answer(m, "USDT") : o.name = n
    BY <1>3, <2>1
  <2>5. PICK s : s = [name |-> o.name, form |-> IF o.dated THEN "dated" ELSE form]
    OBVIOUS
  <2>6. s \in symbols[m] /\ s.name = n
    BY <2>3, <2>4, <2>5 DEF Symbols
  <2>7. s \in c.lists[m]
    BY <1>1, <1>3, <2>6
  <2> QED
    BY <2>6, <2>7 DEF Watches
<1>4. Complete(c, listed)
  BY <1>1, <1>3 DEF Complete
<1> QED
  BY <1>1, <1>2, <1>4 DEF Sound

LEMMA EmptyIsSound == Sound(Empty, listed)
  BY DEF Empty, NoSymbols, Sound, IsConfig, Clean, Complete

\* The service parses in two forms only: it passes over the dated contracts of
\* Binance and Bybit, and is offered none elsewhere.
LEMMA UndatedForms ==
  ASSUME NEW offers, NEW form, \A o \in offers : ~o.dated
  PROVE  \A s \in Symbols(offers, form) : s.form = form
  BY DEF Symbols

LEMMA OfferedUndated ==
  ASSUME NEW exchange, exchange \notin {"binance", "bybit"}, NEW type, NEW quote
  PROVE  \A o \in Answer(Market(exchange, type), quote) : ~o.dated
  BY OffersAssumption DEF Answer, Market

LEMMA SyncedForms ==
  ASSUME NEW m \in Markets, NEW failed
  PROVE  \A s \in syncedSymbols(m, failed) : s.form \in {"plain", "prefixed"}
<1>1. m.exchange \in Exchanges
  BY DEF Markets
<1>2. \A offers : \A o \in Undated(offers) : ~o.dated
  BY DEF Undated
<1>3. /\ \A s \in parseBinanceSymbols(m.type) : s.form = "plain"
      /\ \A s \in parseBybitSymbols(m.type) : s.form = "plain"
  BY <1>2, UndatedForms DEF parseBinanceSymbols, parseBybitSymbols
<1>4. /\ \A s \in parseKuCoinSymbols(m.type) : s.form = "plain"
      /\ \A s \in parseOKXSymbols(m.type) : s.form = "plain"
      /\ \A s \in parseGateSymbols(m.type) : s.form = "plain"
  BY OfferedUndated, UndatedForms DEF parseKuCoinSymbols, parseOKXSymbols, parseGateSymbols
<1>5. \A s \in parsePhemexSymbols(m.type) : s.form \in {"plain", "prefixed"}
  BY OfferedUndated, UndatedForms DEF parsePhemexSymbols
<1> QED
  BY <1>1, <1>3, <1>4, <1>5 DEF Exchanges, syncedSymbols, fetchSymbolsFromAPI

LEMMA WithLists ==
  ASSUME NEW c, IsConfig(c), NEW lists
  PROVE  [c EXCEPT !.lists = lists] =
           [upbit |-> c.upbit, symbols |-> c.symbols, lists |-> lists, answered |-> c.answered]
  BY DEF IsConfig

LEMMA WithAnswered ==
  ASSUME NEW c, IsConfig(c), NEW answered
  PROVE  [c EXCEPT !.answered = answered] =
           [upbit |-> c.upbit, symbols |-> c.symbols, lists |-> c.lists, answered |-> answered]
  BY DEF IsConfig

LEMMA WithSymbols ==
  ASSUME NEW c, IsConfig(c), NEW upbit, NEW symbols
  PROVE  [[c EXCEPT !.upbit = upbit] EXCEPT !.symbols = symbols] =
           [upbit |-> upbit, symbols |-> symbols, lists |-> c.lists, answered |-> c.answered]
<1> DEFINE d == [upbit |-> upbit, symbols |-> c.symbols, lists |-> c.lists, answered |-> c.answered]
<1>1. [c EXCEPT !.upbit = upbit] = d
  BY DEF IsConfig
<1>2. [d EXCEPT !.symbols = symbols] =
        [upbit |-> upbit, symbols |-> symbols, lists |-> c.lists, answered |-> c.answered]
  OBVIOUS
<1> QED
  BY <1>1, <1>2

\* The lists the service makes are sound, given what it is made from.
LEMMA ListsAreSound ==
  ASSUME NEW c, IsConfig(c), Listed0 \subseteq c.upbit,
         \A m \in Markets : \A s \in c.symbols[m] : s.form \in {"plain", "prefixed"}
  PROVE  Sound(GenerateSubscriptionLists(c), listed)
<1> DEFINE lists == [m \in Markets |->
                      {s \in c.symbols[m] : ~(s.form = "plain" /\ s.name \in c.upbit)}]
           g == [upbit |-> c.upbit, symbols |-> c.symbols, lists |-> lists, answered |-> NoSymbols]
<1>1. [c EXCEPT !.lists = lists, !.answered = NoSymbols] = g
  <2> HIDE DEF lists
  <2> DEFINE d == [upbit |-> c.upbit, symbols |-> c.symbols, lists |-> lists, answered |-> c.answered]
  <2>1. [c EXCEPT !.lists = lists, !.answered = NoSymbols] = [[c EXCEPT !.lists = lists] EXCEPT !.answered = NoSymbols]
    OBVIOUS
  <2>2. [c EXCEPT !.lists = lists] = d
    BY WithLists
  <2>3. [d EXCEPT !.answered = NoSymbols] = g
    <3>1. IsConfig(d)
      BY DEF IsConfig
    <3> QED
      BY <3>1, WithAnswered
  <2> QED
    BY <2>1, <2>2, <2>3
<1>2. GenerateSubscriptionLists(c) = g
  BY <1>1 DEF GenerateSubscriptionLists
<1>3. Sound(g, listed)
  BY DEF Sound, IsConfig, Clean, Complete, NoSymbols
<1> QED
  BY <1>2, <1>3

-----------------------------------------------------------------------------
(* The file *)

\* Whatever a saver does, the file and the temporary file hold what one of them,
\* or a saver, held before.
LEMMA SaversKeep ==
  ASSUME FilesAreSound, listed' = listed, NEW w \in Savers,
         SaveWrites(w) \/ SaveRenames(w) \/ SaveFails(w) \/ SaveRemoves(w)
  PROVE  FilesAreSound'
<1> USE DEF FilesAreSound
<1>1. ~Whole(Torn) /\ ~Whole(None)
  BY DEF Whole
<1>2. CASE SaveWrites(w)
  <2>1. /\ file' \in {file, data[w], Torn}
        /\ tmp' \in {tmp, data[w], Torn}
        /\ data' = [data EXCEPT ![w] = None]
    BY <1>2 DEF SaveWrites, Overwritten
  <2> QED
    BY <1>1, <2>1 DEF SoundIfWhole
<1>3. CASE SaveRenames(w)
  BY <1>1, <1>3 DEF SaveRenames, SoundIfWhole
<1>4. CASE SaveFails(w)
  BY <1>4 DEF SaveFails
<1>5. CASE SaveRemoves(w)
  BY <1>1, <1>5 DEF SaveRemoves, SoundIfWhole
<1> QED
  BY <1>2, <1>3, <1>4, <1>5

LEMMA BeginKeeps ==
  ASSUME FilesAreSound, listed' = listed,
         NEW w \in Savers, NEW c, SoundIfWhole(c, listed), SaveBegins(w, c)
  PROVE  FilesAreSound'
  BY DEF FilesAreSound, SaveBegins, SoundIfWhole, Whole

LEMMA EndKeeps ==
  ASSUME FilesAreSound, listed' = listed, NEW savers, SaversEnd(savers)
  PROVE  FilesAreSound'
  BY DEF FilesAreSound, SaversEnd, SoundIfWhole, Whole

-----------------------------------------------------------------------------
(* The invariant *)

\* A coin more in Upbit's list takes nothing from what is sound.
LEMMA ListingKeeps ==
  ASSUME NEW c, NEW l, NEW k, l \subseteq k
  PROVE  /\ Sound(c, l) => Sound(c, k)
         /\ SoundIfWhole(c, l) => SoundIfWhole(c, k)
  BY DEF Sound, SoundIfWhole, Complete

LEMMA InvInit == Init => Inv
<1> SUFFICES ASSUME Init PROVE Inv
  OBVIOUS
<1> USE ManagerAssumption DEF Init, ManagerInit, FileInit
<1>1. FilesAreSound /\ SoundIfWhole(watched, listed)
  BY DEF FilesAreSound, SoundIfWhole, Whole
<1>2. Sound(mem, listed)
  BY EmptyIsSound
<1> QED
  BY <1>1, <1>2 DEF Inv, KeptAreSound, ReadyForLists

LEMMA ScriptKeeps == Inv /\ Script => Inv'
<1> SUFFICES ASSUME Inv, Script PROVE Inv'
  OBVIOUS
<1> USE ManagerAssumption DEF Inv, KeptAreSound, ReadyForLists
<1>1. mem' = mem /\ pc' = pc
  BY DEF Script
<1>2. ASSUME NEW n \in Names, List(n)
      PROVE  Inv'
  <2>1. listed \subseteq listed' /\ UNCHANGED <<file, tmp, data, phase, watched>>
    BY <1>2 DEF List, fileVars
  <2>2. FilesAreSound'
    <3>1. SoundIfWhole(file, listed') /\ SoundIfWhole(tmp, listed')
      BY <2>1, ListingKeeps DEF FilesAreSound
    <3>2. \A w \in Savers : SoundIfWhole(data[w], listed')
      BY <2>1, ListingKeeps DEF FilesAreSound
    <3> QED
      BY <2>1, <3>1, <3>2 DEF FilesAreSound, SoundIfWhole
  <2> QED
    BY <1>1, <2>1, <2>2, ListingKeeps
<1>8. ASSUME NEW o, Opens(o)
      PROVE  Inv'
  <2>1. UNCHANGED <<fileVars, listed, phase, watched>>
    BY <1>8 DEF Opens
  <2>2. FilesAreSound'
    BY <2>1 DEF FilesAreSound, fileVars
  <2> QED
    BY <1>1, <2>1, <2>2
<1>3. CASE UpdateFromExchanges
  <2>1. UNCHANGED <<listed, phase, watched>>
    BY <1>3 DEF UpdateFromExchanges, worldVars
  <2>2. PICK failed \in Failures : SaveBegins("update", Updated(failed))
    BY <1>3 DEF UpdateFromExchanges
  <2>3. FilesAreSound'
    BY <2>1, <2>2, UpdatedIsSound, BeginKeeps DEF SoundIfWhole
  <2> QED
    BY <1>1, <2>1, <2>3
<1>4. CASE UpdateFails
  <2>1. UNCHANGED <<listed, watched>> /\ phase' = "start" /\ SaversEnd({"update"})
    BY <1>4 DEF UpdateFails, UpdateEnds, worldVars
  <2> QED
    BY <1>1, <2>1, EndKeeps
<1>5. CASE UpdateSaves
  <2>1. UNCHANGED <<listed, watched>> /\ phase' \in {phase, "start"}
    BY <1>5 DEF UpdateSaves, UpdateEnds, scriptVars, worldVars
  <2>2. SaveWrites("update") \/ SaveRenames("update") \/ SaveFails("update") \/ SaveRemoves("update")
    BY <1>5 DEF UpdateSaves
  <2>3. FilesAreSound'
    BY <2>1, <2>2, SaversKeep
  <2> QED
    BY <1>1, <2>1, <2>3
<1>6. CASE LoadConfig
  <2>1. UNCHANGED <<file, tmp, data, listed>>
    BY <1>6 DEF LoadConfig, fileVars, worldVars
  <2>2. \/ Whole(file) /\ watched' = file
        \/ phase' # "run" /\ watched' = watched
    BY <1>6 DEF LoadConfig
  <2>3. FilesAreSound'
    BY <2>1 DEF FilesAreSound
  <2> QED
    BY <1>1, <2>1, <2>2, <2>3 DEF FilesAreSound
<1>7. CASE HardReset
  <2>1. UNCHANGED <<file, tmp, data, listed>> /\ phase' = "update" /\ watched' = None
    BY <1>7 DEF HardReset, fileVars, worldVars
  <2> QED
    BY <1>1, <2>1 DEF FilesAreSound, SoundIfWhole, Whole
<1> QED
  BY <1>2, <1>3, <1>4, <1>5, <1>6, <1>7, <1>8 DEF Script

\* The steps of the coordinator that leave the script and what Upbit lists alone.
LEMMA OwnKeeps ==
  ASSUME Inv, UNCHANGED scriptVars, FilesAreSound', Sound(mem', listed),
         pc' = "lists" => pc = "lists" /\ UNCHANGED mem
  PROVE  Inv'
  BY DEF Inv, KeptAreSound, ReadyForLists, scriptVars, worldVars

LEMMA SameFiles == FilesAreSound /\ UNCHANGED <<listed, fileVars>> => FilesAreSound'
  BY DEF FilesAreSound, fileVars

LEMMA SaveStepKeeps ==
  ASSUME Inv, NEW w \in Own, SaveStep(w)
  PROVE  Inv'
<1>1. w \in Savers
  BY CoordinatorAssumption
<1>2. UNCHANGED scriptVars
  BY DEF SaveStep
<1>3. SaveWrites(w) \/ SaveRenames(w) \/ SaveFails(w) \/ SaveRemoves(w)
  BY DEF SaveStep
<1>4. FilesAreSound'
  BY <1>1, <1>2, <1>3, SaversKeep DEF Inv, KeptAreSound, scriptVars, worldVars
<1>5. mem' = mem /\ (pc' = pc \/ pc' \in {"idle", "again", "off"})
  BY DEF SaveStep, SaveReturns, SyncEnds
<1> QED
  BY <1>2, <1>4, <1>5, OwnKeeps DEF Inv, KeptAreSound

\* What is computed from the memory is sound: the symbols the service parses, the
\* list of what is listed, and then the lists.
LEMMA SyncKeeps ==
  ASSUME Inv, SyncExchanges \/ SyncLists
  PROVE  Inv'
<1> USE DEF Inv, KeptAreSound
<1>1. CASE SyncExchanges
  <2>1. UNCHANGED <<scriptVars, fileVars>>
    BY <1>1 DEF SyncExchanges
  <2>2. FilesAreSound'
    BY <2>1, SameFiles DEF scriptVars, worldVars
  <2>3. CASE SyncEnds /\ UNCHANGED mem
    BY <2>1, <2>2, <2>3, OwnKeeps DEF SyncEnds
  <2>4. CASE \E failed \in Failures :
               mem' = [UpdateUpbitKRWSymbols(mem) EXCEPT
                         !.symbols = [m \in Markets |-> syncedSymbols(m, failed)]]
    <3>1. PICK failed \in Failures :
            mem' = [UpdateUpbitKRWSymbols(mem) EXCEPT
                      !.symbols = [m \in Markets |-> syncedSymbols(m, failed)]]
      BY <2>4
    <3> DEFINE symbols == [m \in Markets |-> syncedSymbols(m, failed)]
    <3>2. mem' = [upbit |-> listed, symbols |-> symbols, lists |-> mem.lists, answered |-> mem.answered]
      <4> HIDE DEF symbols
      <4>1. mem' = [[mem EXCEPT !.upbit = listed] EXCEPT !.symbols = symbols]
        BY <3>1 DEF UpdateUpbitKRWSymbols, symbols
      <4> QED
        BY <4>1, WithSymbols DEF Sound
    <3>3. Sound(mem', listed)
      BY <3>2 DEF Sound, IsConfig, Clean, Complete, Watches
    <3>4. ReadyForLists'
      BY <3>2, SyncedForms DEF ReadyForLists
    <3> QED
      BY <2>1, <2>2, <3>3, <3>4 DEF scriptVars, worldVars
  <2> QED
    BY <1>1, <2>3, <2>4 DEF SyncExchanges
<1>2. CASE SyncLists
  <2>1. UNCHANGED scriptVars /\ pc = "lists" /\ pc' = "saving"
    BY <1>2 DEF SyncLists
  <2>2. Sound(mem', listed)
    BY <1>2, <2>1, ListsAreSound DEF SyncLists, ReadyForLists, Sound
  <2>3. FilesAreSound'
    BY <1>2, <2>1, <2>2, BeginKeeps, CoordinatorAssumption
       DEF SyncLists, SoundIfWhole, Own, scriptVars, worldVars
  <2> QED
    BY <2>1, <2>2, <2>3, OwnKeeps
<1> QED
  BY <1>1, <1>2

LEMMA CoordinatorKeeps ==
  ASSUME Inv,
         \/ Initialize \/ Replace \/ Crash \/ LoopPanics
         \/ Start \/ LoopBegins \/ Tick \/ Stop \/ Reload \/ AutoSave
  PROVE  Inv'
<1> USE CoordinatorAssumption DEF Inv, KeptAreSound, Own
<1>1. CASE Initialize
  <2>1. UNCHANGED scriptVars /\ pc' # "lists"
    BY <1>1 DEF Initialize
  <2>2. CASE Whole(file)
    <3>1. mem' = file /\ UNCHANGED fileVars
      BY <1>1, <2>2 DEF Initialize
    <3> QED
      BY <2>1, <2>2, <3>1, SameFiles, OwnKeeps DEF FilesAreSound, SoundIfWhole, scriptVars, worldVars
  <2>3. CASE ~Whole(file)
    <3>1. mem' = Empty /\ SaveBegins("sync", Empty)
      BY <1>1, <2>3 DEF Initialize
    <3>2. FilesAreSound'
      BY <2>1, <3>1, EmptyIsSound, BeginKeeps DEF SoundIfWhole, scriptVars, worldVars
    <3> QED
      BY <2>1, <3>1, <3>2, EmptyIsSound, OwnKeeps
  <2> QED
    BY <2>2, <2>3
<1>2. CASE Replace \/ AutoSave
  <2>1. UNCHANGED scriptVars /\ mem' = mem /\ (pc' = pc \/ pc' = "replace")
    BY <1>2 DEF Replace, AutoSave
  <2>2. SaveBegins("sync", mem) \/ SaveBegins("auto", mem)
    BY <1>2 DEF Replace, AutoSave
  <2>3. FilesAreSound'
    BY <2>1, <2>2, BeginKeeps DEF SoundIfWhole, scriptVars, worldVars
  <2> QED
    BY <2>1, <2>3, OwnKeeps
<1>3. CASE Crash \/ LoopPanics
  <2>1. UNCHANGED scriptVars /\ mem' = Empty /\ pc' = "off" /\ SaversEnd(Own)
    BY <1>3 DEF Crash, LoopPanics, Forgets
  <2>2. FilesAreSound'
    BY <2>1, EndKeeps DEF scriptVars, worldVars
  <2> QED
    BY <2>1, <2>2, EmptyIsSound, OwnKeeps
<1>4. CASE Start \/ LoopBegins \/ Tick \/ Stop
  <2>1. UNCHANGED <<scriptVars, fileVars, mem>> /\ (pc' = pc \/ pc' = "reload")
    BY <1>4 DEF Start, LoopBegins, Tick, Stop
  <2> QED
    BY <2>1, SameFiles, OwnKeeps DEF scriptVars, worldVars
<1>5. CASE Reload
  <2>1. UNCHANGED <<scriptVars, fileVars>> /\ pc' = "exchanges"
    BY <1>5 DEF Reload
  <2>2. mem' = mem \/ (mem' = file /\ Whole(file))
    BY <1>5 DEF Reload
  <2> QED
    BY <2>1, <2>2, SameFiles, OwnKeeps DEF FilesAreSound, SoundIfWhole, scriptVars, worldVars
<1> QED
  BY <1>1, <1>2, <1>3, <1>4, <1>5

LEMMA InvNext == Inv /\ [Next]_vars => Inv'
<1> SUFFICES ASSUME Inv, [Next]_vars PROVE Inv'
  OBVIOUS
<1>1. CASE UNCHANGED vars
  <2>1. UNCHANGED <<scriptVars, fileVars, mem, pc>>
    BY <1>1 DEF vars
  <2> QED
    BY <2>1, SameFiles, OwnKeeps DEF Inv, KeptAreSound, scriptVars, worldVars
<1> QED
  BY <1>1, ScriptKeeps, CoordinatorKeeps, SyncKeeps, SaveStepKeeps DEF Next

\* The invariant of the symbol lists: what memory, file, temporary file and savers
\* hold, if it is whole, is clean of listed coins and complete for the markets
\* that answered.
THEOREM InvTheorem == Spec => []Inv
  BY InvInit, InvNext, PTL DEF Spec

-----------------------------------------------------------------------------
(* The theorems *)

\* Whatever the exchanges answer, however the script, the synchronisation, the
\* autosave and crashes interleave over the one file: main.go watches the
\* candidates that the page read of every market named when its lists were made.
THEOREM CandidatesTheorem == Spec => []CandidatesAreWatched
<1>1. Inv => CandidatesAreWatched
  BY DEF Inv, KeptAreSound, SoundIfWhole, Sound, Complete, CandidatesAreWatched
<1> QED
  BY <1>1, InvTheorem, PTL

\* No configuration, wherever it is kept, lists a coin that was listed before in
\* a form in which extractBaseSymbol finds it; in the contract, prefixed and dated
\* forms it may.
THEOREM OldListingsTheorem == Spec => []OldListingsAreNotWatched
<1>1. Inv => OldListingsAreNotWatched
  BY DEF Inv, KeptAreSound, FilesAreSound, SoundIfWhole, Sound, Clean, OldListingsAreNotWatched
<1> QED
  BY <1>1, InvTheorem, PTL
=============================================================================
