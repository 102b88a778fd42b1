------------------------ MODULE MCSymbolCoordinator -------------------------
(***************************************************************************)
(* Every market trades the same two coins: one Upbit lists and one that it *)
(* may list. Binance and Bybit have dated contracts of both, Bybit a third *)
(* coin on its second page, Phemex a perpetual quoted in USD. That third   *)
(* coin begins to trade on a spot market at any time.                      *)
(***************************************************************************)
EXTENDS SymbolCoordinator

CONSTANTS btc, new, late

Offer(market, name, quote, dated, first) ==
  [market |-> market, name |-> name, quote |-> quote, dated |-> dated, first |-> first]

MCOffers ==
  {Offer(m, n, "USDT", FALSE, TRUE) : m \in Markets, n \in {btc, new}}
  \cup {Offer(Market(e, "futures"), n, "USDT", TRUE, TRUE) :
          e \in {"binance", "bybit"}, n \in {btc, new}}
  \cup {Offer(Market("bybit", "futures"), late, "USDT", FALSE, FALSE),
        Offer(Market("phemex", "futures"), new, "USD", FALSE, TRUE),
        Offer(Market("gate", "spot"), late, "USDT", FALSE, TRUE)}
MCUnopened == {o \in MCOffers : o.name = late /\ o.first}

MCFailures == {{Market("kucoin", "futures"), Market("okx", "spot")}}
MCSavers == Own \cup {"update"}
=============================================================================
