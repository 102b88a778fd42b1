SPECIFICATION Spec
CONSTANTS
  x = x
  y = y
  z = z
  none = none
  Invalid = Invalid
  NoTrade <- MCNoTrade
  Kinds <- MCKinds
  Capacity = 3
  TimeStep = 2
  Millionth = 2
  MaxDelta = 2
  VolumeModulus = 4
  SymbolIndices = 2
  Blocks = 2
  BlockSpan = 12
  HotDuration = 1
  LegacyCap = 2
  RemoveCount = 1
  StartTime = 12
  MaxClock = 14
  MaxTrades = 4
INVARIANTS
  RecentAnswersAreExact
  KeptExactlyOnce
  TimesOnlyMoveBack
  ColdTradesStayInRange
CHECK_DEADLOCK FALSE
