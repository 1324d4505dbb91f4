SPECIFICATION FairSpec
CONSTANTS
  Runs = {r1, r2}
  Packets = {p1, p2}
  Handlers = {h1}
  Pushes = {g1}
  Words = {"succeeded"}
  MaxAccepted = 2
  MaxCallbacks = 1
  MaxPushes = 1
  MaxCrashes = 1
INVARIANTS
  ReviewIsEarned
  QuietRowMatches
PROPERTIES
  SettledStays
  QuietPushYields
  PushSettles
CHECK_DEADLOCK FALSE
