SPECIFICATION Spec
CONSTANTS
  binance = binance
  phemex = phemex
  other = other
  Pools <- MCPools
  Enabled <- MCPools
  Registered <- MCRegistered
  Workers <- MCWorkers
  Direct <- MCDirect
  Reachable <- MCReachable
  Lists <- MCListsOf
  Fallback <- MCFallback
  MaxSymbols = 2
  MessageCap = 1
  TradeCap = 1
  TradesPerMessage = 1
  MaxMessages <- MCMessages
INVARIANTS
  OneReceiver
  TradesInOrder
  EverySymbolHasOneWorker
CHECK_DEADLOCK FALSE
