CONSTANTS
  r1 = r1  r2 = r2  k1 = k1
  w1 = w1  w2 = w2  w3 = w3
  Requests = {r1, r2}
  Keys = {k1}
  Limit = 2
  Window = 3
  MaxDelay = 1
  Grace = 1
  Windows = {w1, w2, w3}
  NoWindow = NoWindow
  MaxTime = 7
SPECIFICATION Spec
INVARIANTS BurstBound
PROPERTY RefusedWhenFull
SYMMETRY Renamings
