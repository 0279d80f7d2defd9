CONSTANTS
  r1 = r1  r2 = r2  i1 = i1  i2 = i2
  a = a  b = b  g = g  h = h  t1 = t1
  Requests = {r1, r2}
  Instances = {i1, i2}
  InstanceOf <- TwoProcesses
  Revisions = {a, b}
  Tenants = {t1}
  NoTenant = NoTenant
  TenantOf <- MCTenantOf
  NoRevision = NoRevision
  NoInstance = NoInstance
  NoRequest = NoRequest
  TTL = 2
  RefreshEvery = 1
  MaxTries = 2
  MayStall = TRUE
  Operations = {"publish", "rollback"}
  Contexts = {t1, NoTenant}
SPECIFICATION Spec
INVARIANTS PublishInv SingleActivePerTenant SuccessWasActive
PROPERTIES ActiveNeverLost ImplementsPerTenant
SYMMETRY Renamings
