SPECIFICATION Spec
CONSTANTS
  p1 = p1
  p2 = p2
  q = q
  Processes = {p1, p2, q}
  RoleOf <- RolesOfThree
  Terms <- SomeTerms
  MaxDispatches = 3
  MaxBlocks = 5
  Cadence = 1
  BlockGaps <- Gaps
  Expiry = 4
  Slack = 1
  MaxAttempts = 3
  MaxTotalWait = 5
  MaxRetryAfter = 5
  RateLimitFloor = 1
  MaxBackoff = 2
  Hints <- ThrottleHints
INVARIANTS
  WriteAhead
  OneAnchorPerSlot
  Confirmable
  AuthorizedIsSound
CHECK_DEADLOCK FALSE
PROPERTIES
  PackageIsFinal
