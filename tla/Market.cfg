SPECIFICATION FairSpec
CHECK_DEADLOCK FALSE
CONSTANTS
  j1 = j1
  j2 = j2
  w1 = w1
  None = None
  Listings = {1, 2}
  SourceOf <- MCSourceOf
  DistrictOf <- MCDistrictOf
  Alike <- MCAlike
  Prices = {100, 104}
  Collected <- MCCollected
  Watchlists = {w1}
  Limit <- MCLimit
  Page = 1
  MinSample = 2
  Jobs = {j1, j2}
  MaxChanges = 2
  MaxFailures = 1
INVARIANTS
  AlertedOnce
PROPERTIES
  ClustersCatchUp
  MatchesAlerted
