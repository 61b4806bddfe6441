SPECIFICATION Spec
CONSTANTS
  i1 = i1
  i2 = i2
  tenant1 = tenant1
  tenant2 = tenant2
  env1 = env1
  env2 = env2
  sor1 = sor1
  u1 = u1
  u2 = u2
  u3 = u3
  None = None
  Instances = {i1, i2}
  Tenants = {tenant1, tenant2}
  Environments = {env1, env2}
  Sors = {sor1}
  Urls = {u1, u2, u3}
  Announcements <- MCAnnouncements
  Scope = None
  Ttl = 1
  MaxTime = 4
  MaxPublished = 3
INVARIANT EndpointsAreCurrent LatestIsUsed AgeIsBounded
CHECK_DEADLOCK FALSE
