------------------------ MODULE MCListingCollection ------------------------
(***************************************************************************)
(* Two markets, of which Phemex's is never cached; a coin and the one with *)
(* an S in front; two trades of the coin in one market, at either end of   *)
(* the window, one of the other coin, and one of a contract.               *)
(***************************************************************************)
EXTENDS ListingCollection, TLC

CONSTANTS a1, a2, s1, c1, abc, sabc, okx, phemex, ABC, SABC

MCTrades   == {a1, a2, s1, c1}
MCTs       == a1 :> 0 @@ a2 :> 2 @@ s1 :> 1 @@ c1 :> 1
MCKey      == a1 :> okx @@ a2 :> okx @@ s1 :> phemex @@ c1 :> okx
MCSymbol   == a1 :> [base |-> ABC, form |-> "-USDT"] @@ a2 :> [base |-> ABC, form |-> "-USDT"]
              @@ s1 :> [base |-> SABC, form |-> "USDT"]
              @@ c1 :> [base |-> ABC, form |-> "-USDT-SWAP"]
MCKeys     == {okx, phemex}
MCActive   == {okx}
MCOrder    == <<okx, phemex>>
MCListings == {abc, sabc}
MCCoin     == abc :> ABC @@ sabc :> SABC
MCTrigger  == abc :> 1 @@ sabc :> 2
MCWithS    == ABC :> SABC @@ SABC :> None
=============================================================================
