SPECIFICATION Spec
CONSTANTS
  h1 = h1
  s0 = s0
  s1 = s1
  s2 = s2
  s3 = s3
  a1 = a1
  a2 = a2
  None = None
  Hosts <- OneHost
  Sessions = {s0, s1, s2, s3}
  Addresses = {a1, a2}
  Requests <- AllRequests
  Opens <- Staggered
  Lifetime = 1
  Hour = 2
  Day = 4
  SeatCents = 1
  SessionCents = 2
  HourCents = 3
  DayCents = 4
  QueueLimit = 2
  MaxRecords = 3
  InitLedgers <- WithLegacy
  MaxTime = 5
  MaxCalls = 4
  MaxFailures = 1
INVARIANTS
  Ceilings
  SeatOnce
  GrantsCounted
CHECK_DEADLOCK FALSE
