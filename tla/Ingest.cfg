SPECIFICATION FairSearchSpec
CONSTANTS
  l1 = l1
  l2 = l2
  w1 = w1
  w2 = w2
  Listings = {l1}
  Workers = {w1, w2}
  StaleAfter = 1
  Retention = 1
  Horizon = 2
  MaxBatches = 2
  MaxFailures = 1
  MaxOutages = 1
INVARIANTS
  RowMatchesHistory
  CapturesKept
  SearchFindsActive
PROPERTIES
  CapturesExpire
  UnseenAreMarked
