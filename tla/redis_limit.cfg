CONSTANTS
  r1 = r1  r2 = r2  k1 = k1
  i1 = i1  i2 = i2  i3 = i3  i4 = i4
  Requests = {r1, r2}
  Keys = {k1}
  Limit = 2
  Window = 3
  MaxDelay = 1
  Ids = {i1, i2, i3, i4}
  NoId = NoId
  MaxFallen = 2
  MaxTime = 6
SPECIFICATION Spec
INVARIANT SharedLimit
SYMMETRY Renamings
