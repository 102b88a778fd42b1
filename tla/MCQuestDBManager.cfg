SPECIFICATION FairSpec
CONSTANTS
  t1 = t1
  t2 = t2
  t3 = t3
  w1 = w1
  w2 = w2
  Trades <- MCTrades
  Unparsable <- MCUnparsable
  Workers <- MCWorkers
  BatchSize = 2
  BufferSize = 1
  BatchSlots = 1
  MaxRetries = 1
  Threshold = 2
INVARIANTS
  BooksBalance
  ReportedIsStored
  AbandonedIsUntouched
PROPERTIES
  KeepsLedger
  EveryTradeIsCounted
  CloseReturns
