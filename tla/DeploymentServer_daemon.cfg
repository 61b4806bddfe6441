SPECIFICATION FairSpec
CONSTANTS
  a = a
  ab = ab
  tenant1 = tenant1
  p1 = p1
  unfetchable = unfetchable
  unloadable = unloadable
  t1 = t1
  t2 = t2
  None = None
  Ids = {a, ab}
  Tenants = {tenant1}
  Environments = {}
  Loadable = {p1}
  Threads = {t1, t2}
  Requests <- MCRequests
  Secret = TRUE
  HasResolver = TRUE
  Prefixes <- MCPrefixes
  Unfetchable = unfetchable
  Unloadable = unloadable
  MaxConnections = 2
INVARIANT EffectIsWhatWasAsked RepliesAreHonest
PROPERTY ConnectionsAreClosed
CHECK_DEADLOCK FALSE
