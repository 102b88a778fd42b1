---------------------------- MODULE TradeLedger ----------------------------
(***************************************************************************)
(* What QuestDBManager (internal/database/questdb_manager.go) promises     *)
(* about its statistics, whatever goes on between AddTrade and the         *)
(* database: every trade offered is pending until it is counted, once, in  *)
(* TotalTrades or in DroppedTrades, and nothing is counted after Close:    *)
(* what is pending then is abandoned, in neither statistic.                *)
(***************************************************************************)
EXTENDS Integers, FiniteSets

CONSTANT Trades   \* names of the trades that may be offered, each once

VARIABLES
  offered,        \* the trades AddTrade was called with
  pending,        \* those not counted yet
  TotalTrades,    \* statistic: trades stored
  DroppedTrades,  \* statistic: trades given up
  closed          \* Close has returned

ledgerVars == <<offered, pending, TotalTrades, DroppedTrades, closed>>

Init ==
  /\ offered = {} /\ pending = {}
  /\ TotalTrades = 0 /\ DroppedTrades = 0
  /\ closed = FALSE

\* AddTrade returns true.
Accept(t) ==
  /\ ~closed /\ t \notin offered
  /\ offered' = offered \union {t}
  /\ pending' = pending \union {t}
  /\ UNCHANGED <<TotalTrades, DroppedTrades, closed>>

\* AddTrade returns false.
Refuse(t) ==
  /\ ~closed /\ t \notin offered
  /\ offered' = offered \union {t}
  /\ DroppedTrades' = DroppedTrades + 1
  /\ UNCHANGED <<pending, TotalTrades, closed>>

Store(S) ==
  /\ ~closed
  /\ pending' = pending \ S
  /\ TotalTrades' = TotalTrades + Cardinality(S)
  /\ UNCHANGED <<offered, DroppedTrades, closed>>

Drop(S) ==
  /\ ~closed
  /\ pending' = pending \ S
  /\ DroppedTrades' = DroppedTrades + Cardinality(S)
  /\ UNCHANGED <<offered, TotalTrades, closed>>

Seal ==
  /\ closed' = TRUE
  /\ UNCHANGED <<offered, pending, TotalTrades, DroppedTrades>>

Next ==
  \/ \E t \in Trades : Accept(t) \/ Refuse(t)
  \/ \E S \in SUBSET pending : Store(S) \/ Drop(S)
  \/ Seal

Spec == Init /\ [][Next]_ledgerVars

-----------------------------------------------------------------------------
LedgerTypeOK ==
  /\ offered \subseteq Trades /\ pending \subseteq offered
  /\ TotalTrades \in Nat /\ DroppedTrades \in Nat
  /\ closed \in BOOLEAN

\* The books balance: the trades offered are those stored, those dropped and
\* those pending - no trade is counted twice and none goes uncounted but the
\* pending ones.
Balanced ==
  Cardinality(offered) = TotalTrades + DroppedTrades + Cardinality(pending)
=============================================================================
