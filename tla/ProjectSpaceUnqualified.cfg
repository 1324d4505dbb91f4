\* One call and an empty ledger are enough: the writer writes, then is judged.
SPECIFICATION Spec
CONSTANTS
  c1 = c1
  c2 = c2
  c3 = c3
  g1 = g1
  Calls = {c1}
  Gates = {g1}
  Plan <- TwoSteps
  Ledgers <- NothingVerified
  RecentLimit = 1
  MaxRuns = 1
CHECK_DEADLOCK FALSE
PROPERTIES
  QualifiedBeforeWrite
