SPECIFICATION Spec
CONSTANTS
  Deadline = 4
  InvitationEnd = 1
  Grace = 1
  Keys <- TwoClients
  Extra = {"enrollment", "proposal"}
  Settings <- MCSettings
  ClaimWindow = 2
  ValidFor = 2
  Budget = 1
  MaxAhead = 2
  MaxExtra = 1
  MaxFaults = 1
INVARIANTS
  OneEnding
  OneSpeaker
PROPERTIES
  FundingStops
  SessionEnds
CHECK_DEADLOCK FALSE
