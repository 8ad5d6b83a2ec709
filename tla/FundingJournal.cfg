SPECIFICATION Spec
CONSTANTS
  None = None
  w1 = w1
  w2 = w2
  r1 = r1
  r2 = r2
  t1 = t1
  x = x
  Runs = {w1, w2}
  Order <- MCOrder
  Levels = {0, 1, 2}
  Txs = {t1, x}
  Misfits = {x}
  i1 = i1
  i2 = i2
  i3 = i3
  Inodes = {i1, i2, i3}
  Minimum = 1
  Target = 2
  Maximum = 4
  Fee = 1
  Funds = 6
  FirstNonce = 5
  MaxEvents = 2
SYMMETRY Symmetry
INVARIANTS
  RecordsKept
  RecordsAreTrue
CHECK_DEADLOCK FALSE
