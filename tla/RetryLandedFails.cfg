SPECIFICATION Spec
CONSTANTS
  a = a
  b = b
  r1 = r1
  r2 = r2
  w1 = w1
  w2 = w2
  g1 = g1
  g2 = g2
  PRs = {p1}
  Shas = {a, b}
  Rows = {r1, r2}
  Workers = {w1, w2}
  Gates = {g1, g2}
  Hooks = {h1}
  MaxAttempts = 2
  NoSha = NoSha
  NoCommit = NoCommit
  NoRow = NoRow
  Budget <- MCBudget
  Slow = 0
  Crashes = 0
  Errors = 0
  Logs = 0
  Removes = 0
SYMMETRY Symm
INVARIANTS LandedNeverFails
CHECK_DEADLOCK FALSE
