SPECIFICATION FairSpec
CONSTANTS
  Commits = {k1}
  PRs = {p1}
  Deliveries = {1, 2, 3}
  Limit = 2
  MaxFaults = 1
  NoPr = NoPr
  NoOne = 0
INVARIANTS TypeOK GatesOnFullResults NotifiedOnce PrNotForgotten LossIsVisible SlotsAccounted
PROPERTIES FullResultStays DeliveriesEnd
CHECK_DEADLOCK FALSE
