--------------------------- MODULE SymbolsManager ---------------------------
(***************************************************************************)
(* Who decides what main.go watches: run_pumpwatch.sh runs                 *)
(* "pumpwatch --init-symbols", which computes the subscription lists and   *)
(* saves them to symbols.yaml, then starts main.go, which loads the file,  *)
(* and does both again every 30 minutes. Listings go on meanwhile.         *)
(***************************************************************************)
EXTENDS Subscriptions, SymbolsFile, Naturals

CONSTANTS
  Names,       \* coins
  Listed0,     \* those Upbit lists at the start
  Unopened0,   \* the offers that do not trade at the start
  Failures,    \* bound: the sets of markets that fail to answer together
  MaxUpdates,  \* bound: the updates that Upbit answers
  MaxChanges   \* bound: what Upbit lists and the exchanges offer anew

ASSUME ManagerAssumption ==
  /\ Listed0 \subseteq Names /\ Unopened0 \subseteq Offers /\ Failures \subseteq SUBSET Markets /\ {MaxUpdates, MaxChanges} \subseteq Nat
  /\ "update" \in Savers

VARIABLES
  listed,   \* the coins Upbit lists for KRW
  phase,    \* of the script: "update", "start", "run"
  updates,
  watched   \* the configuration main.go runs with

worldVars == <<listed, unopened>>
scriptVars == <<worldVars, phase, updates, watched>>

ManagerInit ==
  /\ FileInit
  /\ listed = Listed0
  /\ unopened = Unopened0
  /\ phase = "update"
  /\ updates = 0
  /\ watched = None

Changes == Cardinality(listed \ Listed0) + Cardinality(Unopened0 \ unopened)

\* Upbit lists a coin.
List(name) ==
  /\ Changes < MaxChanges
  /\ name \notin listed
  /\ listed' = listed \cup {name}
  /\ UNCHANGED <<fileVars, unopened, phase, updates, watched>>

\* An exchange begins to offer an instrument.
Opens(offer) ==
  /\ Changes < MaxChanges
  /\ unopened' = unopened \ {offer}
  /\ UNCHANGED <<fileVars, listed, phase, updates, watched>>

\* The coins that the interfaces which do not fail name now, to the Manager.
Answered(failed) ==
  [m \in Markets |-> IF m.exchange = "phemex" \/ m \in failed THEN {}
                     ELSE {o.name : o \in Answer(m, "USDT")}]

\* Mutant: the lists are made before the symbols are fetched.
Updated_ListsFirst(failed) ==
  LET symbols == [m \in Markets |-> updateSymbols(m, failed)]
  IN [upbit |-> listed, symbols |-> symbols,
      lists |-> generateSubscriptionLists(listed, NoSymbols),
      answered |-> Answered(failed)]

\* What UpdateFromExchanges makes of an empty configuration.
Updated(failed) ==
  LET symbols == [m \in Markets |-> updateSymbols(m, failed)]
  IN [upbit |-> listed, symbols |-> symbols,
      lists |-> generateSubscriptionLists(listed, symbols),
      answered |-> Answered(failed)]

UpdateFromExchanges ==
  /\ phase = "update" /\ save["update"] = "idle" /\ updates < MaxUpdates
  /\ updates' = updates + 1
  /\ \E failed \in Failures : SaveBegins("update", Updated(failed))
  /\ UNCHANGED <<worldVars, phase, watched>>

\* The process is over, one way or the other: the script starts main.go.
UpdateEnds ==
  /\ phase' = "start"
  /\ UNCHANGED <<worldVars, watched>>

\* Upbit does not answer, or the process is ended at any point.
UpdateFails ==
  /\ phase = "update"
  /\ SaversEnd({"update"})
  /\ UpdateEnds /\ UNCHANGED updates

\* SaveConfig of internal/symbols.
UpdateSaves ==
  \/ SaveWrites("update") /\ UNCHANGED scriptVars
  \/ SaveRenames("update") /\ UpdateEnds /\ UNCHANGED updates
  \/ SaveFails("update") /\ UNCHANGED scriptVars
  \/ SaveRemoves("update") /\ UpdateEnds /\ UNCHANGED updates

\* main.go loads the file, or ends: the script then starts over.
LoadConfig ==
  /\ phase = "start"
  /\ IF Whole(file) THEN phase' = "run" /\ watched' = file
                    ELSE phase' = "update" /\ UNCHANGED watched
  /\ UNCHANGED <<fileVars, worldVars, updates>>

\* After 30 minutes the script ends main.go.
HardReset ==
  /\ phase = "run"
  /\ phase' = "update"
  /\ watched' = None
  /\ UNCHANGED <<fileVars, worldVars, updates>>

-----------------------------------------------------------------------------
(* Properties *)

Watches(config, market) == {s.name : s \in config.lists[market]}

\* While main.go runs on lists the Manager made, it watches, on every market,
\* every coin that the one page read of it named when they were made and that
\* Upbit still does not list: the candidates of the next listing. A coin on a
\* later page, one that has begun to trade since, and all but three old coins of
\* an interface that did not answer are not watched until the next update.
CandidatesAreWatched ==
  phase = "run" =>
    \A m \in Markets : watched.answered[m] \ listed \subseteq Watches(watched, m)
=============================================================================
