SPECIFICATION FairSpec
CONSTANTS
  Runs = {r1}
  Packets = {p1, p2}
  Handlers = {h1}
  Hints <- Named
  Words = {"succeeded", "failed"}
  MaxCallbacks = 1
  MaxCrashes = 1
  Overlap = TRUE
INVARIANTS
  ClaimsStayHome
PROPERTIES
  CallbackLands
CHECK_DEADLOCK FALSE
