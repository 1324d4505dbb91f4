SPECIFICATION SupervisorSpec
CONSTANTS
  Run <- MCRun
  Active <- MCActive
  Direct = {d1}
  Timer = {t1}
  MaxChanges = 1
  MaxCrashes = 1
  Owner <- MCOwner
  Term = 2
  MaxErrors = 1
  MaxRestarts = 2
INVARIANTS
  GuardIsOwned
  TakenOnlyUnseen
PROPERTIES
  ActiveIsServed
  OpenIsServed
  SomebodyLeads
