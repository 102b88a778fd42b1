---------------------------- MODULE Subscriptions ---------------------------
(***************************************************************************)
(* What is to be watched, as the two implementations compute it: the       *)
(* Manager of internal/symbols, which main.go --init-symbols runs, and the *)
(* SymbolFilterService of internal/sync on the configuration of            *)
(* internal/models. A symbol is the name of its coin as the exchange       *)
(* writes it, in one of the forms the exchanges use: plain (BTCUSDT), dash *)
(* (BTC-USDT, BTC-USDT-SWAP), underscore (BTC_USDT), contract (BTCUSDTM),  *)
(* prefixed (sBTCUSDT), dated (BTCUSDT_251226, BTCUSDT-03OCT25).           *)
(***************************************************************************)
EXTENDS FiniteSets

CONSTANTS
  Offers,        \* [market, name, quote, dated, first]: the instruments of the
                 \* exchanges, dated ones and those on the first page of their interface
  FallbackNames  \* BTC, ETH, SOL

VARIABLE unopened \* the offers that do not trade yet

Exchanges == {"binance", "bybit", "okx", "kucoin", "phemex", "gate"}
Market(exchange, type) == [exchange |-> exchange, type |-> type]
Markets == [exchange : Exchanges, type : {"spot", "futures"}]

\* Binance and Bybit name dated contracts in USDT beside the perpetual ones;
\* only the interface of Bybit's futures has several pages.
ASSUME OffersAssumption ==
  \A o \in Offers :
    /\ o.market \in Markets /\ o.quote \in {"USDT", "USD"} /\ {o.dated, o.first} \subseteq BOOLEAN
    /\ o.dated => o.market \in {Market("binance", "futures"), Market("bybit", "futures")}
    /\ ~o.first => o.market = Market("bybit", "futures")

As(names, form) == {[name |-> n, form |-> form] : n \in names}

Symbols(offers, form) ==
  {[name |-> o.name, form |-> IF o.dated THEN "dated" ELSE form] : o \in offers}

\* What a market's interface is asked for: no program asks for a second page.
Answer(market, quote) ==
  {o \in Offers : o.market = market /\ o.quote = quote /\ o.first /\ o \notin unopened}

NoSymbols == [m \in Markets |-> {}]

\* models.SymbolsConfig and symbols.SymbolsConfig, which have the same layout.
\* "answered" is not stored: for the markets whose list the Manager made of what
\* their exchange answered, the coins it named then.
Empty == [upbit |-> {}, symbols |-> NoSymbols, lists |-> NoSymbols, answered |-> NoSymbols]

-----------------------------------------------------------------------------
(* The Manager of internal/symbols *)

fetchBinanceSymbols(type) == Symbols(Answer(Market("binance", type), "USDT"), "plain")
fetchBybitSymbols(type)   == Symbols(Answer(Market("bybit", type), "USDT"), "plain")
fetchOKXSymbols(type)     == Symbols(Answer(Market("okx", type), "USDT"), "dash")
fetchKuCoinSymbols(type)  ==
  Symbols(Answer(Market("kucoin", type), "USDT"), IF type = "spot" THEN "dash" ELSE "contract")
fetchGateSymbols(type)    == Symbols(Answer(Market("gate", type), "USDT"), "underscore")

FetchedSymbols(market) ==
  CASE market.exchange = "binance" -> fetchBinanceSymbols(market.type)
    [] market.exchange = "bybit"   -> fetchBybitSymbols(market.type)
    [] market.exchange = "okx"     -> fetchOKXSymbols(market.type)
    [] market.exchange = "kucoin"  -> fetchKuCoinSymbols(market.type)
    [] market.exchange = "gate"    -> fetchGateSymbols(market.type)

\* The list that is used when the interface cannot be reached.
FallbackSymbols(market) ==
  As(FallbackNames,
     CASE market.exchange \in {"binance", "bybit"} -> "plain"
       [] market.exchange = "okx"    -> "dash"
       [] market.exchange = "kucoin" -> IF market.type = "spot" THEN "dash" ELSE "contract"
       [] market.exchange = "gate"   -> "underscore")

updateSymbols(market, failed) ==
  IF market.exchange = "phemex" THEN {}
  ELSE IF market \in failed THEN FallbackSymbols(market)
  ELSE FetchedSymbols(market)

\* extractBaseSymbol of internal/symbols finds no coin in BTCUSDTM, and takes
\* BTCUSDT for the coin of BTCUSDT_251226 and of BTCUSDT-03OCT25.
NamesCoin(symbol) == symbol.form \notin {"contract", "dated"}

\* What is listed at Upbit needs no watching.
generateSubscriptionLists(upbit, symbols) ==
  [m \in Markets |-> {s \in symbols[m] : ~(NamesCoin(s) /\ s.name \in upbit)}]

-----------------------------------------------------------------------------
(* The SymbolFilterService of internal/sync *)

\* The symbol of a dated contract does not end in USDT.
Undated(offers) == {o \in offers : ~o.dated}

parseBinanceSymbols(type) == Symbols(Undated(Answer(Market("binance", type), "USDT")), "plain")
parseBybitSymbols(type)   == Symbols(Undated(Answer(Market("bybit", type), "USDT")), "plain")
parseKuCoinSymbols(type)  == Symbols(Answer(Market("kucoin", type), "USDT"), "plain")

\* The futures come from instType=FUTURES, where a symbol ends in its date: the
\* suffix asked for, -USDT, is found in none.
parseOKXSymbols(type) ==
  IF type = "spot" THEN Symbols(Answer(Market("okx", type), "USDT"), "plain") ELSE {}

\* Spot symbols keep the letter in front; of the perpetuals those are taken
\* that are quoted in USD, under a name they do not have.
parsePhemexSymbols(type) ==
  IF type = "spot" THEN Symbols(Answer(Market("phemex", type), "USDT"), "prefixed")
                   ELSE Symbols(Answer(Market("phemex", type), "USD"), "plain")

\* Spot pairs are looked for in lower case, which Gate.io does not use.
parseGateSymbols(type) ==
  IF type = "spot" THEN {} ELSE Symbols(Answer(Market("gate", type), "USDT"), "plain")

fetchSymbolsFromAPI(market) ==
  CASE market.exchange = "binance" -> parseBinanceSymbols(market.type)
    [] market.exchange = "bybit"   -> parseBybitSymbols(market.type)
    [] market.exchange = "kucoin"  -> parseKuCoinSymbols(market.type)
    [] market.exchange = "okx"     -> parseOKXSymbols(market.type)
    [] market.exchange = "phemex"  -> parsePhemexSymbols(market.type)
    [] market.exchange = "gate"    -> parseGateSymbols(market.type)

\* syncExchangeSymbols: a market that cannot be reached loses its symbols.
syncedSymbols(market, failed) == IF market \in failed THEN {} ELSE fetchSymbolsFromAPI(market)

UpdateExchangeSymbols(config, exchange, failed) ==
  [config EXCEPT !.symbols =
     [m \in Markets |-> IF m.exchange = exchange THEN syncedSymbols(m, failed) ELSE @[m]]]

\* GenerateSubscriptionLists of internal/models: its extractBaseSymbol finds
\* the coin in plain symbols only.
GenerateSubscriptionLists(config) ==
  [config EXCEPT
     !.lists = [m \in Markets |->
                  {s \in config.symbols[m] : ~(s.form = "plain" /\ s.name \in config.upbit)}],
     !.answered = NoSymbols]
=============================================================================
