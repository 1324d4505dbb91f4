SPECIFICATION Spec
CONSTANTS
  Runs = {r1}
  Packets = {p1, p2}
  Handlers = {h1}
  Hints <- Ways
  Words = {"succeeded"}
  MaxCallbacks = 1
  MaxCrashes = 0
  Overlap = FALSE
INVARIANTS
  ClaimsStayHome
CHECK_DEADLOCK FALSE
