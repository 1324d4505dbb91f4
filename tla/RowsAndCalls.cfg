\* Each call of the store is made once and the tool calls end, so both may stop.
SPECIFICATION PartsSpec
CONSTANTS
  Runs = {"r1", "r2"}
  First = "r1"
  Fields = {"status", "stage", "anchor"}
  Patches <- MCPatches
  Calls = {c1, c2, c3}
  Modes = {"memory", "supabase", "file"}
  MaxCrashes = 1
  MaxCalls = 2
  MaxAsked = 1
  Plan <- MCPlan
  Direct <- MCDirect
  Setting <- MCSetting
  MaxRuns = 2
  MaxFaults = 1
SYMMETRY Symmetric
INVARIANTS
  QuietPatchStays
  QuietRunLeads
  OneCrashLosesNoRun
  OutcomeIsTrue
  AgentIsOfItsPacket
CHECK_DEADLOCK FALSE
