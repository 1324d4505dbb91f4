SPECIFICATION FairSpec
CONSTANTS
  Required <- MCRequired
  Deps <- MCDeps
  Cloud <- MCCloud
  Invocable <- MCInvocable
  Ticks = {t1}
  Handlers = {h1}
  Time = {1, 2}
  MaxCallbacks = 2
  MaxRounds = 2
  MaxCrashes = 1
  CancelsSuperseded = TRUE
  Overlap = FALSE
INVARIANTS
  CompletedAfterAnchor
  CommitsStay
  DispatchedOnce
  ToldOnce
  StatusFits
PROPERTIES
  EndIsAnnounced
