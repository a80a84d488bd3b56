SPECIFICATION Spec
CONSTANTS
  c1 = c1
  c2 = c2
  c3 = c3
  c4 = c4
  Clicks = {c1, c2, c3, c4}
  MaxFaults = 2
  NoDecision = NoDecision
SYMMETRY Symm
INVARIANTS TypeOK OneVerdict ReviewsCostFaults RecordMatchesGithub
CHECK_DEADLOCK FALSE
