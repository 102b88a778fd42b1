SPECIFICATION Spec
CONSTANTS
  t1 = t1
  t2 = t2
  t3 = t3
  t4 = t4
  cached = cached
  uncached = uncached
  None = None
  Trades <- MCTrades
  TsOf <- MCTs
  KeyOf <- MCKey
  Keys <- MCKeys
  ActiveKeys <- MCActive
  MsPerSecond = 2
  BucketCount = 3
  HotSeconds = 1
  MaxTime = 7
INVARIANTS
  ColdScanIsExact
  OmitsOnlyUnrefreshed
PROPERTIES
  OrderlyRestartKeepsTrades
