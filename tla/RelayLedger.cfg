SPECIFICATION Spec
CONSTANTS
  old = old
  new = new
  v1 = v1
  v2 = v2
  None = None
  Sessions = {old, new}
  Legacy = {old}
  Snapshots <- MCSnapshots
  Times = {1, 2}
  HistoryLimit = 1
  MaxPuts = 2
  MaxRestarts = 1
  Visitors = {v1, v2}
  Anchors <- MCAnchors
  Heights = {1, 3}
  MaxRequests = 3
SYMMETRY Swap
INVARIANTS
  SpentOnRuns
PROPERTIES
  NewestStays
CHECK_DEADLOCK FALSE
