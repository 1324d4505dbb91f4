SPECIFICATION Spec
CONSTANTS
  Required <- MCRequired
  Deps <- MCDeps
  Cloud <- MCCloud
  Invocable <- MCInvocable
  Ticks = {t1}
  Handlers = {h1}
  Time = {1}
  MaxCallbacks = 1
  MaxRounds = 2
  MaxCrashes = 1
  CancelsSuperseded = TRUE
  Overlap = TRUE
INVARIANTS
  CompletionIsVouched
  DependenciesFirst
  CompletedIsEarned
PROPERTIES
  KnownCommitsStay
