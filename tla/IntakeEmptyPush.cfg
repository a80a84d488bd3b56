SPECIFICATION Spec
CONSTANTS
  Commits = {k1}
  PRs = {p1}
  Deliveries = {1, 2}
  Limit = 2
  MaxFaults = 1
  NoPr = NoPr
  NoOne = 0
INVARIANTS EveryLossIsVisible
CHECK_DEADLOCK FALSE
