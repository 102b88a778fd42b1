-------------------------- MODULE MCQuestDBManager --------------------------
(***************************************************************************)
(* Two workers, one of the trades unparsable, batches of two, one slot     *)
(* between the collector and the workers, one retry, and a breaker that    *)
(* opens at the second failure in a row.                                   *)
(***************************************************************************)
EXTENDS QuestDBManager

CONSTANTS t1, t2, t3, w1, w2

MCTrades     == {t1, t2, t3}
MCUnparsable == {t3}
MCWorkers    == {w1, w2}
=============================================================================
