\* Three overlapping calls on one project space.
SPECIFICATION Spec
CONSTANTS
  c1 = c1
  c2 = c2
  c3 = c3
  g1 = g1
  Calls = {c1, c2, c3}
  Gates = {g1}
  Plan <- TwoSteps
  Ledgers <- TheLedgers
  RecentLimit = 1
  MaxRuns = 2
SYMMETRY Symmetry
CHECK_DEADLOCK FALSE
INVARIANTS
  ContinuedOnce
  NoFailureHidden
  WroteAtIsTrue
  ReadyIsHonest
