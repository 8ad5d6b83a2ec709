SPECIFICATION FairSpec
CONSTANTS
  c1 = c1
  c2 = c2
  r1 = r1
  h = h
  k1 = k1
  k2 = k2
  None = None
  Clients <- MCClients
  Readers <- MCReaders
  Posts <- MCPosts
  Vouched <- MCVouched
  HostKey = h
  Slots = {"result"}
  Values = {"v1", "v2"}
  Modes = {TRUE, FALSE}
  MaxSeq = 2
  MaxTime = 2
  Deadline = 2
  IssuedAt = 1
  FailLeaves = {"nothing"}
  CrashLeaves = {"nothing", "line"}
  MaxCrashes = 1
  MaxLines = 3
INVARIANTS
  SenderBound
  ToldSurvives
  NoLostWakeup
PROPERTIES
  ExpiredStaysExpired
  ImplementsMailbox
  RequestsAnswered
CHECK_DEADLOCK FALSE
