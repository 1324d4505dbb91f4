SPECIFICATION Spec
CONSTANTS
  Required <- MCRequired
  Deps <- MCDeps
  Cloud <- MCCloud
  Invocable <- MCInvocable
  Ticks = {}
  Handlers = {h1}
  Time = {1}
  MaxCallbacks = 1
  MaxRounds = 1
  MaxCrashes = 0
  CancelsSuperseded = FALSE
  Overlap = TRUE
INVARIANTS
  CommitsStay
CHECK_DEADLOCK FALSE
