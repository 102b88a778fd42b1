--------------------------- MODULE MCEventStorage ---------------------------
(***************************************************************************)
(* Two notices that share a directory, one with a pump and one without,    *)
(* and two processes. Beside them the analyzer, over every collection of   *)
(* seven trades in two markets: the trades lie in three windows, at both   *)
(* ends of them, with a price of zero and one that does not parse.         *)
(***************************************************************************)
EXTENDS EventStorage, TLC

CONSTANTS t1, t2, t3, t4, t5, t6, t7, abc, again

MCTrades   == {t1, t2, t3, t4, t5, t6, t7}
MCTs       == t1 :> 0 @@ t2 :> 1 @@ t3 :> 3 @@ t4 :> 1 @@ t5 :> 2 @@ t6 :> 6 @@ t7 :> 0
MCPrice    == t1 :> 100 @@ t2 :> 102 @@ t3 :> 50 @@ t4 :> None @@ t5 :> 200 @@ t6 :> 100
              @@ t7 :> 0
MCMarkets  == {"okx", "gate"}
MCRaw      == <<"okx", "gate">>
MCAnalysis == <<"gate", "okx">>
MCListings == {abc, again}
MCCoin     == abc :> "ABC" @@ again :> "ABC"
MCTrigger  == abc :> 0 @@ again :> 0
Pumped     == "okx" :> {t1, t2, t3} @@ "gate" :> {t1}
Quiet      == "okx" :> {} @@ "gate" :> {t2}
MCCollections == abc :> {Pumped} @@ again :> {Quiet}
MCAnalyzed == {"okx" :> okx @@ "gate" :> gate :
                 okx \in SUBSET MCTrades, gate \in {{}, {t1, t2}, {t1, t6}, {t3, t5, t7}}}
=============================================================================
