SPECIFICATION FairSpec
CONSTANTS
  Requests = {r1, r2}
  Records <- TwoRecords
  Selections <- PairSelections
  Timeouts = {0, 1}
  MaxFaults = 1
  CanCrash = TRUE
PROPERTIES
  EveryRequestAnswered
  EveryEntryExpires
CHECK_DEADLOCK FALSE
