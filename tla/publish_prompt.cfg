CONSTANTS
  r1 = r1  r2 = r2  i1 = i1  i2 = i2
  a = a  b = b  g = g  h = h  t1 = t1
  Requests = {r1, r2}
  Instances = {i1}
  InstanceOf <- OneProcess
  Revisions = {g, h}
  Tenants = {t1}
  NoTenant = NoTenant
  TenantOf <- MCTenantOf
  NoRevision = NoRevision
  NoInstance = NoInstance
  NoRequest = NoRequest
  TTL = 2
  RefreshEvery = 1
  MaxTries = 1
  MayStall = FALSE
  Operations = {"publish", "rollback"}
  Contexts = {NoTenant}
SPECIFICATION FairSpec
INVARIANTS MutualExclusion SingleActiveNoTenant
PROPERTIES ReleasesOwnLock ImplementsEveryScope LockComesFree CallsReturn
