\* The recorder, its wrappers and its follow-up.
SPECIFICATION Spec
CONSTANTS
  Follow <- MCFollow
  Callers = {"mcp", "api"}
  Tools = {"mcp"}
  Setup <- MCSetup
  AdvanceCalls = 2
  Attempts = 2
  DrainBound = 3
INVARIANTS
  NotStranded
  ReportedIsDone
  CheckpointFirst
PROPERTIES
  OneByOne
