SPECIFICATION Spec
CONSTANTS
  Runs = {r1}
  Packets = {p1}
  Handlers = {h1}
  Pushes = {g1}
  Words = {"succeeded", "failed"}
  MaxAccepted = 1
  MaxCallbacks = 1
  MaxPushes = 1
  MaxCrashes = 0
PROPERTIES
  PushYields
CHECK_DEADLOCK FALSE
