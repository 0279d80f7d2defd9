CONSTANTS
  a = a  b = b  x = x  s1 = s1  s2 = s2  d1 = d1  d2 = d2
  DataPlanes = {d1}
  Revisions = {a, b, x}
  Scopes = {s1}
  ScopeOf <- OneScope
  NoRevision = NoRevision
  Broken = {x}
  MaxSwitches = 3
SPECIFICATION FairSpec
INVARIANTS NeverServesBroken FreshInv ReportNotStale
PROPERTIES ConfigKept AppliedInOrder Converges
