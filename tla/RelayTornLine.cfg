SPECIFICATION Spec
CONSTANTS
  c1 = c1
  c2 = c2
  r1 = r1
  h = h
  k1 = k1
  k2 = k2
  None = None
  Clients <- MCClients
  Readers <- MCReaders
  Posts <- MCOnePost
  Vouched <- MCVouched
  HostKey = h
  Slots = {}
  Values = {"v1", "v2"}
  Modes = {TRUE}
  MaxSeq = 2
  MaxTime = 0
  Deadline = 1
  IssuedAt = 0
  FailLeaves = {"nothing"}
  CrashLeaves = {"fragment"}
  MaxCrashes = 2
  MaxLines = 9
SYMMETRY Symmetry
INVARIANTS
  ToldSurvives
CHECK_DEADLOCK FALSE
