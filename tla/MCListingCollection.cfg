SPECIFICATION CollectionSpec
CONSTANTS
  a1 = a1
  a2 = a2
  s1 = s1
  c1 = c1
  abc = abc
  sabc = sabc
  okx = okx
  phemex = phemex
  ABC = ABC
  SABC = SABC
  None = None
  Trades <- MCTrades
  TsOf <- MCTs
  KeyOf <- MCKey
  SymbolOf <- MCSymbol
  Keys <- MCKeys
  ActiveKeys <- MCActive
  HotMs = 3
  ExtractionOrder <- MCOrder
  Listings <- MCListings
  CoinOf <- MCCoin
  TriggerOf <- MCTrigger
  WithS <- MCWithS
  Window = 1
  MaxTime = 4
INVARIANTS
  MissedHasAReason
  CollectedTradesBelong
CHECK_DEADLOCK FALSE
