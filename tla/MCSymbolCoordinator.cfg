SPECIFICATION Spec
CONSTANTS
  btc = btc
  new = new
  late = late
  Offers <- MCOffers
  Unopened0 <- MCUnopened
  FallbackNames = {btc}
  Names = {btc, new}
  Listed0 = {btc}
  Failures <- MCFailures
  Savers <- MCSavers
  MaxUpdates = 1
  MaxChanges = 1
  MaxSyncs = 1
  MaxCrashes = 1
INVARIANTS
  CandidatesAreWatched
  OldListingsAreNotWatched
PROPERTIES
  TornIsMended
CHECK_DEADLOCK FALSE
