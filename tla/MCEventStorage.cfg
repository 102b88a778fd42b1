SPECIFICATION Spec
CONSTANTS
  t1 = t1
  t2 = t2
  t3 = t3
  t4 = t4
  t5 = t5
  t6 = t6
  t7 = t7
  abc = abc
  again = again
  None = None
  Trades <- MCTrades
  TsOf <- MCTs
  PriceOf <- MCPrice
  Markets <- MCMarkets
  RawOrder <- MCRaw
  AnalysisOrder <- MCAnalysis
  Listings <- MCListings
  CoinOf <- MCCoin
  TriggerOf <- MCTrigger
  Collections <- MCCollections
  Analyzed <- MCAnalyzed
  NoticeWindow = 2
  TimeWindowSize = 2
  MinTradesRequired = 2
  MinPumpPercentage = 2
  RetentionDays = 1
  Day = 2
  ZoneOffset = 1
  CleanTimes = {2, 4}
  MaxRuns = 2
INVARIANTS
  FilesAreInStepOrder
  StoredIsWhole
  WindowsArePartition
  RisesAreReported
PROPERTIES
  RetentionIsRespected
  EveryStoreEnds
CHECK_DEADLOCK FALSE
