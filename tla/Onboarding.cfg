SPECIFICATION Spec
CONSTANTS
  r1 = r1
  r2 = r2
  Runs = {r1, r2}
  DisplayNames = {"a", "b"}
  Fees = {1, 2}
  Grants <- Given
  PilotRange <- Pilot
  Reserve = 1
  MaxFaults = 2
  MaxFiles = 4
INVARIANTS
  IntentFirst
  SetOnce
  CompletedIsTrue
  Resumable
CHECK_DEADLOCK FALSE
